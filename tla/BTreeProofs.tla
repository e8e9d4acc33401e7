---------------------------- MODULE BTreeProofs -----------------------------
(***************************************************************************)
(* Proofs about BTree, for any order, keys, setups and number of nodes:    *)
(* its types, that no array is overrun, that no node of the tree is lost,  *)
(* that the cache holds the tree, and that the tree never touches freed    *)
(* memory, all from one inductive invariant, and from a small one about    *)
(* the objects that lookups lose.                                          *)
(***************************************************************************)
EXTENDS BTree, BTreeNodeProofs

(* The types of the stored tree and of the history, and those of the call  *)
(* in progress; TypeOK is among them.                                      *)
StoreTypes ==
  /\ heap \in [Nodes -> NodeOf(Keys, Nat)]
  /\ alive \subseteq Nodes
  /\ root \in Nodes \cup {NoNode}
  /\ setup \in Setups
  /\ cache \in Seq(Nodes)
  /\ free_rrn \in Seq(Nat)
  /\ status \in {"running", "exited", "crashed", "corrupt", "clashed"}
  /\ faults \subseteq {"evicted", "io", "mem", "rebalanced", "stale", "past keys", "unchecked"}

CallTypes ==
  /\ curr \in Nodes \cup {NoNode}
  /\ r_child \in Nodes \cup {NoNode}
  /\ op \in Requests \cup {NoOp}
  /\ path \in Seq([node : Nodes, pos : 0 .. Order - 1])
  /\ promo \in Keys \cup {0}
  /\ seen \in Seq(Keys)
  /\ answer.keys \in Seq(Keys)

(* Every node object, freed or not, keeps within its arrays. *)
Shapes == \A n \in Nodes : Shaped(heap[n])

(* Live nodes have rrns, and no two the same. *)
Distinct(h, live) == \A m, n \in live : h[m].rrn = h[n].rrn => m = n

Numbers == (\A n \in alive : heap[n].rrn \in Nat) /\ Distinct(heap, alive)

(* A live node is in the cache or the root. *)
Kept == alive \subseteq ToSet(cache) \cup {root}

(* What each place in a call knows about the request and the node it is at. *)
Control ==
  /\ pc \in {"idle", "first", "descend", "leaf", "split", "ascend", "newroot",
            "find", "remove", "underflow", "range"}
  /\ pc = "idle" <=> op = NoOp
  /\ pc \in {"first", "descend", "leaf", "split", "ascend", "newroot"} => promo \in Keys
  /\ pc \in {"find", "remove", "underflow"} => op.key \in Keys
  /\ pc = "range" => op.from \in Keys /\ op.to \in Keys
  /\ pc \in {"descend", "leaf", "split", "ascend", "newroot", "remove", "underflow"}
       => curr # NoNode
  /\ pc = "first" => root = NoNode
  /\ pc = "leaf" => heap[curr].leaf /\ ~Full(heap[curr])
  /\ pc = "split" => Full(heap[curr]) /\ (heap[curr].leaf <=> r_child = NoNode)
  /\ pc \in {"ascend", "newroot"} => r_child # NoNode
  /\ r_child # NoNode =>
       pc \in {"split", "ascend", "newroot"} /\ heap[r_child].rrn \in Nat
  /\ pc = "newroot" => curr = root /\ (root \in alive => root \in ToSet(cache))
  /\ pc \in {"remove", "underflow"} => heap[curr].leaf
  /\ pc = "remove" => Found(heap[curr], op.key)
  /\ pc = "underflow" => Len(heap[curr].keys) < Half

(* load_btree_node over any heap and cache. *)
HitsIn(h, live, c, rrn) == {i \in DOMAIN c : c[i] \in live /\ h[c[i]].rrn = rrn}
LoadIn(h, live, c, rrn) ==
  IF HitsIn(h, live, c, rrn) = {} THEN NoNode ELSE c[Min(HitsIn(h, live, c, rrn))]

(* The frames of insert_key: they start at the root, stand at internal     *)
(* nodes and, on the way down, lead from one to the next; on the way up no *)
(* node is met twice.                                                      *)
Frames ==
  /\ pc \notin {"descend", "leaf", "split", "ascend"} => path = <<>>
  /\ pc = "ascend" => path # <<>>
  /\ pc \in {"descend", "leaf", "split", "ascend"} =>
       root = IF path = <<>> THEN curr ELSE path[1].node
  /\ \A i \in DOMAIN path :
       ~heap[path[i].node].leaf /\ path[i].pos <= Len(heap[path[i].node].keys)
  /\ pc = "descend" => \A i \in DOMAIN path :
       /\ path[i].pos = SearchPos(heap[path[i].node], promo)
       /\ LoadIn(heap, alive, cache, heap[path[i].node].children[path[i].pos + 1])
            = IF i = Len(path) THEN curr ELSE path[i + 1].node
  /\ pc \in {"leaf", "split", "ascend"} =>
       /\ \A i \in DOMAIN path : path[i].node # curr
       /\ \A i, j \in DOMAIN path : i # j => path[i].node # path[j].node

(* The faults that take nothing out of the cache. *)
Benign == faults \subseteq {"io", "mem", "rebalanced"}

(* The rrns of the cached nodes that are leaves, or of those that are not. *)
RrnsIn(h, c, leaf) == {h[m].rrn : m \in {n \in ToSet(c) : h[n].leaf = leaf}}

(* The children of q can be loaded and are all leaves or all internal. *)
FitsIn(h, c, q, leaf) == h[q] \in NodeOf(Keys, RrnsIn(h, c, leaf))
Fits(q, leaf)         == FitsIn(heap, cache, q, leaf)

NoTwice(c) == \A i, j \in DOMAIN c : i # j => c[i] # c[j]

(* The tree as it is stored, and as the call in progress refers to it,     *)
(* while nothing was evicted.                                              *)
Stored ==
  /\ ToSet(cache) \subseteq alive
  /\ alive \subseteq ToSet(cache) \cup (IF "io" \in faults THEN {root} ELSE {})
  /\ NoTwice(cache)
  /\ root \in alive \cup {NoNode}
  /\ \A q \in alive : \E leaf \in BOOLEAN : Fits(q, leaf)

Called ==
  /\ curr \in alive \cup {NoNode}
  /\ r_child \in ToSet(cache) \cup {NoNode}
  /\ pc = "newroot" => root \in ToSet(cache)
  /\ \A i \in DOMAIN path : path[i].node \in alive
  /\ pc \in {"descend", "leaf", "split", "ascend"} => \A i \in DOMAIN path :
       Fits(path[i].node, IF i = Len(path) THEN heap[curr].leaf ELSE FALSE)
  /\ pc = "split" /\ r_child # NoNode => Fits(curr, heap[r_child].leaf)
  /\ pc \in {"ascend", "newroot"} => heap[r_child].leaf = heap[curr].leaf

Whole == Benign /\ status = "running" => Stored /\ Called

IInv ==
  /\ StoreTypes /\ Shapes /\ Numbers /\ Kept
  /\ CallTypes /\ Control /\ Frames
  /\ Whole /\ MemorySafe

-----------------------------------------------------------------------------
(* load_btree_node finds a live cached node with the rrn, or there is none. *)
LEMMA LoadInProps ==
  ASSUME NEW h, NEW live, NEW c \in Seq(Nodes), NEW rrn
  PROVE  /\ LoadIn(h, live, c, rrn) # NoNode =>
              /\ LoadIn(h, live, c, rrn) \in ToSet(c) /\ LoadIn(h, live, c, rrn) \in live
              /\ LoadIn(h, live, c, rrn) \in Nodes
              /\ h[LoadIn(h, live, c, rrn)].rrn = rrn
         /\ \A m \in ToSet(c) : m \in live /\ h[m].rrn = rrn => LoadIn(h, live, c, rrn) # NoNode
<1> DEFINE hits == HitsIn(h, live, c, rrn)
<1>1. hits \in SUBSET Nat /\ \A i \in hits : i \in DOMAIN c /\ c[i] \in live /\ h[c[i]].rrn = rrn
  BY DEF HitsIn
<1>2. \A i \in DOMAIN c : c[i] \in Nodes /\ c[i] # NoNode /\ c[i] \in ToSet(c)
  <2>1. \A i \in DOMAIN c : c[i] \in Nodes
    OBVIOUS
  <2>2. \A n \in Nodes : n # NoNode
    BY DEF Nodes, NoNode
  <2>3. \A i \in DOMAIN c : c[i] \in ToSet(c)
    BY DEF ToSet
  <2> QED
    BY <2>1, <2>2, <2>3
<1>3. LoadIn(h, live, c, rrn) = IF hits = {} THEN NoNode ELSE c[Min(hits)]
  BY DEF LoadIn
<1>4. \A m \in ToSet(c) : m \in live /\ h[m].rrn = rrn => hits # {}
  BY DEF HitsIn, ToSet
<1> HIDE DEF hits
<1>5. hits # {} => Min(hits) \in hits
  BY <1>1, MinIsLeast
<1>6. hits # {} => LoadIn(h, live, c, rrn) = c[Min(hits)] /\ Min(hits) \in DOMAIN c
                   /\ c[Min(hits)] \in live /\ h[c[Min(hits)]].rrn = rrn
  BY <1>1, <1>3, <1>5
<1>7. hits = {} => LoadIn(h, live, c, rrn) = NoNode
  BY <1>3
<1> QED
  BY <1>2, <1>4, <1>6, <1>7

LEMMA LoadIsLoadIn ==
  \A rrn : Load(rrn) = LoadIn(heap, alive, cache, rrn)
  BY DEF Load, LoadIn, Hits, HitsIn

(* A fresh rrn keeps the numbers of live nodes distinct; an unused node is *)
(* not alive.                                                              *)
LEMMA NewNodeProps ==
  ASSUME StoreTypes, Numbers, Unused # {}
  PROVE  NewNode \in Nodes /\ NewNode \notin alive /\ heap[NewNode] = Blank
<1>1. Unused \in SUBSET Nat /\ Unused \subseteq Nodes
  BY DEF Unused, Nodes
<1>2. NewNode \in Unused
  BY <1>1, MinIsLeast DEF NewNode
<1> QED
  BY <1>1, <1>2 DEF Unused, Numbers, Blank, NoRrn

LEMMA NextRrnProps ==
  ASSUME StoreTypes
  PROVE  NextRrn \in Nat /\ RestRrn \in Seq(Nat)
<1>1. free_rrn \in Seq(Nat)
  BY DEF StoreTypes
<1>2. CASE free_rrn = <<>>
  BY <1>2 DEF NextRrn, RestRrn
<1>3. CASE free_rrn # <<>>
  BY <1>1, <1>3, HeadTailProperties DEF NextRrn, RestRrn
<1> QED
  BY <1>2, <1>3

-----------------------------------------------------------------------------
(* From cache c and live nodes a to c2 and a2, the nodes of W are written:  *)
(* a live node that was cached or is written is cached, nothing else is,    *)
(* and when nothing is evicted the entries stay different.                  *)
Written(c, a, c2, a2, W) ==
  /\ c2 \in Seq(Nodes) /\ a2 \subseteq a
  /\ ToSet(c2) \subseteq ToSet(c) \cup W
  /\ \A n \in a2 : n \in ToSet(c) \cup W => n \in ToSet(c2)
  /\ a2 = a /\ ToSet(c) \cup W \subseteq a /\ NoTwice(c) => NoTwice(c2)

LEMMA AppendSet ==
  ASSUME NEW c \in Seq(Nodes), NEW n \in Nodes
  PROVE  /\ Append(c, n) \in Seq(Nodes)
         /\ ToSet(Append(c, n)) = ToSet(c) \cup {n}
         /\ NoTwice(c) /\ n \notin ToSet(c) => NoTwice(Append(c, n))
<1>1. /\ Len(c) \in Nat /\ DOMAIN c = 1 .. Len(c)
      /\ Append(c, n) \in Seq(Nodes)
      /\ DOMAIN Append(c, n) = 1 .. Len(c) + 1
      /\ \A i \in 1 .. Len(c) : Append(c, n)[i] = c[i]
      /\ Append(c, n)[Len(c) + 1] = n
  OBVIOUS
<1> DEFINE d == Append(c, n)
<1> HIDE DEF d
<1>2. ToSet(d) = ToSet(c) \cup {n}
  <2>1. ASSUME NEW x \in ToSet(d) PROVE x \in ToSet(c) \cup {n}
    <3>1. PICK i \in DOMAIN d : x = d[i]
      BY <2>1 DEF ToSet
    <3>2. i \in 1 .. Len(c) \/ i = Len(c) + 1
      BY <1>1, <3>1 DEF d
    <3> QED
      BY <1>1, <3>1, <3>2 DEF d, ToSet
  <2>2. ASSUME NEW i \in DOMAIN c PROVE c[i] \in ToSet(d)
    <3>1. i \in DOMAIN d /\ d[i] = c[i]
      BY <1>1 DEF d
    <3> QED
      BY <3>1 DEF ToSet
  <2>3. n \in ToSet(d)
    <3>1. Len(c) + 1 \in DOMAIN d /\ d[Len(c) + 1] = n
      BY <1>1 DEF d
    <3> QED
      BY <3>1 DEF ToSet
  <2> QED
    BY <2>1, <2>2, <2>3 DEF ToSet
<1>3. ASSUME NoTwice(c), n \notin ToSet(c) PROVE NoTwice(d)
  <2>1. \A i \in 1 .. Len(c) : d[i] = c[i] /\ c[i] # n
    BY <1>1, <1>3 DEF d, ToSet
  <2>2. \A i, j \in 1 .. Len(c) : i # j => c[i] # c[j]
    BY <1>1, <1>3 DEF NoTwice
  <2>3. DOMAIN d = 1 .. Len(c) + 1 /\ d[Len(c) + 1] = n
    BY <1>1 DEF d
  <2>4. ASSUME NEW i \in DOMAIN d, NEW j \in DOMAIN d, i # j PROVE d[i] # d[j]
    <3>1. i \in 1 .. Len(c) \/ i = Len(c) + 1
      BY <1>1, <2>3
    <3>2. j \in 1 .. Len(c) \/ j = Len(c) + 1
      BY <1>1, <2>3
    <3> QED
      BY <2>1, <2>2, <2>3, <2>4, <3>1, <3>2
  <2> QED
    BY <2>4 DEF NoTwice
<1> QED
  BY <1>1, <1>2, <1>3 DEF d

LEMMA TailSet ==
  ASSUME NEW c \in Seq(Nodes), c # <<>>
  PROVE  /\ Tail(c) \in Seq(Nodes) /\ Head(c) \in Nodes
         /\ ToSet(Tail(c)) \subseteq ToSet(c)
         /\ \A n \in ToSet(c) : n # Head(c) => n \in ToSet(Tail(c))
         /\ Head(c) \in ToSet(c)
<1>1. /\ Len(c) \in Nat \ {0} /\ DOMAIN c = 1 .. Len(c) /\ Head(c) = c[1]
      /\ Tail(c) \in Seq(Nodes) /\ DOMAIN Tail(c) = 1 .. Len(c) - 1
      /\ \A i \in 1 .. Len(c) - 1 : Tail(c)[i] = c[i + 1]
  OBVIOUS
<1> DEFINE d == Tail(c)
<1> HIDE DEF d
<1>2. \A i \in DOMAIN d : i + 1 \in DOMAIN c /\ d[i] = c[i + 1]
  BY <1>1 DEF d
<1>3. \A i \in DOMAIN c : i # 1 => i - 1 \in DOMAIN d /\ d[i - 1] = c[i]
  BY <1>1 DEF d
<1>4. ToSet(d) \subseteq ToSet(c)
  BY <1>2 DEF ToSet
<1>5. \A i \in DOMAIN c : c[i] # Head(c) => c[i] \in ToSet(d)
  BY <1>1, <1>3 DEF ToSet
<1>6. 1 \in DOMAIN c
  BY <1>1
<1> QED
  BY <1>1, <1>4, <1>5, <1>6 DEF d, ToSet

(* One node is cached: Put, for live nodes with different rrns. *)
LEMMA PutWritten ==
  ASSUME NEW c \in Seq(Nodes), NEW a \in SUBSET Nodes, NEW h, NEW n \in Nodes,
         \A m \in a : h[m].rrn = h[n].rrn => m = n, setup.capacity \in Nat \ {0}
  PROVE  \E c2, a2 : /\ Put([cache |-> c, alive |-> a], h, n) = [cache |-> c2, alive |-> a2]
                     /\ Written(c, a, c2, a2, {n})
<1> DEFINE s == [cache |-> c, alive |-> a]
           d == Append(c, n)
           hit == \E m \in ToSet(c) \cap a : h[m].rrn = h[n].rrn
<1>1. s.cache = c /\ s.alive = a /\ [s EXCEPT !.cache = d] = [cache |-> d, alive |-> a]
  OBVIOUS
<1>2. /\ d \in Seq(Nodes) /\ ToSet(d) = ToSet(c) \cup {n}
      /\ NoTwice(c) /\ n \notin ToSet(c) => NoTwice(d)
  BY AppendSet
<1>3. (hit => n \in ToSet(c)) /\ (n \in ToSet(c) \cap a => hit)
  OBVIOUS
<1>4. Put(s, h, n) = IF hit THEN s
                     ELSE IF Len(d) >= setup.capacity
                     THEN [cache |-> Tail(d), alive |-> a \ {Head(d)}]
                     ELSE [cache |-> d, alive |-> a]
  BY <1>1 DEF Put
<1>5. d # <<>>
  OBVIOUS
<1> HIDE DEF s, d, hit
<1>6. CASE hit
  <2>1. n \in ToSet(c)
    BY <1>3, <1>6
  <2>2. Written(c, a, c, a, {n})
    BY <2>1 DEF Written
  <2> QED
    BY <1>4, <1>6, <2>2 DEF s
<1>7. CASE ~hit /\ Len(d) >= setup.capacity
  <2>1. /\ Tail(d) \in Seq(Nodes) /\ ToSet(Tail(d)) \subseteq ToSet(d)
        /\ \A x \in ToSet(d) : x # Head(d) => x \in ToSet(Tail(d))
        /\ Head(d) \in ToSet(d)
    BY <1>2, <1>5, TailSet
  <2>2. ToSet(c) \cup {n} \subseteq a => a \ {Head(d)} # a
    BY <1>2, <2>1
  <2>3. Written(c, a, Tail(d), a \ {Head(d)}, {n})
    BY <1>2, <2>1, <2>2 DEF Written
  <2> QED
    BY <1>4, <1>7, <2>3 DEF s
<1>8. CASE ~hit /\ ~ (Len(d) >= setup.capacity)
  <2>1. Written(c, a, d, a, {n})
    BY <1>2, <1>3, <1>8 DEF Written
  <2> QED
    BY <1>4, <1>8, <2>1 DEF s
<1> QED
  BY <1>6, <1>7, <1>8

LEMMA WrittenTwice ==
  ASSUME NEW c, NEW a, NEW c2, NEW a2, NEW c3, NEW a3, NEW V, NEW W, V \subseteq a,
         Written(c, a, c2, a2, V), Written(c2, a2, c3, a3, W)
  PROVE  Written(c, a, c3, a3, V \cup W)
BY DEF Written

(* What writing does to the stored tree: the node objects become h, those  *)
(* of kept stay alive unless evicted, those of W are written, and the      *)
(* history is more by new, and by "evicted" if a node was.                 *)
Outcome(h, kept, W, new) ==
  /\ heap' = h
  /\ cache' \in Seq(Nodes)
  /\ alive' \subseteq kept
  /\ ToSet(cache') \subseteq ToSet(cache) \cup W
  /\ \A n \in alive' : n \in ToSet(cache) \cup W => n \in ToSet(cache')
  /\ faults' \subseteq faults \cup new \cup {"evicted"}
  /\ faults \cup new \subseteq faults'
  /\ "evicted" \notin faults' =>
       alive' = kept /\ (ToSet(cache) \subseteq kept /\ NoTwice(cache) => NoTwice(cache'))

LEMMA StepOfWriting ==
  ASSUME NEW h, NEW live, NEW c2, NEW a2, NEW W \in SUBSET live, NEW dropped, NEW new, NEW all \in BOOLEAN,
         Written(cache, live, c2, a2, W),
         heap' = h, cache' = c2, alive' = (IF all THEN a2 ELSE a2 \ dropped),
         faults' = faults \cup new \cup (IF a2 = live THEN {} ELSE {"evicted"})
  PROVE  Outcome(h, IF all THEN live ELSE live \ dropped, W, new)
BY DEF Written, Outcome

LEMMA WriteOne ==
  ASSUME StoreTypes, NEW h, NEW live \in SUBSET Nodes, NEW n \in live,
         NEW m \in Successes(1), NEW dropped, NEW extra,
         Distinct(h, live), WriteAs(h, live, <<n>>, m, dropped, extra)
  PROVE  /\ m \in {0, 1}
         /\ Outcome(h, IF m = 1 THEN live ELSE live \ dropped, IF m = 1 THEN {n} ELSE {},
                    extra \cup (IF m = 1 THEN {} ELSE {"io"}))
<1> DEFINE s == PutFirst([cache |-> cache, alive |-> live], h, <<n>>, m)
<1>1. m \in {0, 1}
  BY DEF Successes
<1>2. cache \in Seq(Nodes) /\ setup.capacity \in Nat \ {0}
  BY SetupsAssumption DEF StoreTypes
<1>3. \A x \in live : h[x].rrn = h[n].rrn => x = n
  BY DEF Distinct
<1>4. PICK c2, a2 : /\ Put([cache |-> cache, alive |-> live], h, n) = [cache |-> c2, alive |-> a2]
                    /\ Written(cache, live, c2, a2, {n})
  BY <1>2, <1>3, PutWritten
<1>5. /\ heap' = h /\ cache' = s.cache
      /\ alive' = IF m = 1 THEN s.alive ELSE s.alive \ dropped
      /\ faults' = faults \cup (extra \cup (IF m = 1 THEN {} ELSE {"io"}))
                          \cup (IF s.alive = live THEN {} ELSE {"evicted"})
  BY DEF WriteAs
<1>6. CASE m = 0
  <2>1. s.cache = cache /\ s.alive = live
    BY <1>6 DEF PutFirst
  <2>2. Written(cache, live, cache, live, {})
    BY <1>2 DEF Written
  <2> HIDE DEF s
  <2>3. Outcome(h, IF m = 1 THEN live ELSE live \ dropped, {},
                extra \cup (IF m = 1 THEN {} ELSE {"io"}))
    BY <1>5, <2>1, <2>2, StepOfWriting
  <2> QED
    BY <1>1, <1>6, <2>3
<1>7. CASE m = 1
  <2>1. s.cache = c2 /\ s.alive = a2
    BY <1>4, <1>7 DEF PutFirst
  <2> HIDE DEF s
  <2>2. Outcome(h, IF m = 1 THEN live ELSE live \ dropped, {n},
                extra \cup (IF m = 1 THEN {} ELSE {"io"}))
    BY <1>4, <1>5, <2>1, StepOfWriting
  <2> QED
    BY <1>1, <1>7, <2>2
<1> QED
  BY <1>1, <1>6, <1>7

(* The first m of two nodes. *)
Firsts(n, n2, m) == (IF m = 0 THEN {} ELSE {n}) \cup (IF m = 2 THEN {n2} ELSE {})

LEMMA WriteTwo ==
  ASSUME StoreTypes, NEW h, NEW live \in SUBSET Nodes, NEW n \in live, NEW n2 \in live,
         NEW m \in Successes(2), NEW dropped, NEW extra,
         Distinct(h, live), WriteAs(h, live, <<n, n2>>, m, dropped, extra)
  PROVE  /\ m \in {0, 1, 2}
         /\ Outcome(h, IF m = 2 THEN live ELSE live \ dropped, Firsts(n, n2, m),
                    extra \cup (IF m = 2 THEN {} ELSE {"io"}))
<1> DEFINE s == PutFirst([cache |-> cache, alive |-> live], h, <<n, n2>>, m)
<1>1. m \in {0, 1, 2}
  BY DEF Successes
<1>2. cache \in Seq(Nodes) /\ setup.capacity \in Nat \ {0}
  BY SetupsAssumption DEF StoreTypes
<1>3. \A x, y \in live : h[x].rrn = h[y].rrn => x = y
  BY DEF Distinct
<1>4. PICK c2, a2 : /\ Put([cache |-> cache, alive |-> live], h, n) = [cache |-> c2, alive |-> a2]
                    /\ Written(cache, live, c2, a2, {n})
  BY <1>2, <1>3, PutWritten
<1>5. /\ heap' = h /\ cache' = s.cache
      /\ alive' = IF m = 2 THEN s.alive ELSE s.alive \ dropped
      /\ faults' = faults \cup (extra \cup (IF m = 2 THEN {} ELSE {"io"}))
                          \cup (IF s.alive = live THEN {} ELSE {"evicted"})
  BY DEF WriteAs
<1>6. CASE m = 0
  <2>1. s.cache = cache /\ s.alive = live
    BY <1>6 DEF PutFirst
  <2>2. Written(cache, live, cache, live, {})
    BY <1>2 DEF Written
  <2> HIDE DEF s
  <2>3. Outcome(h, IF m = 2 THEN live ELSE live \ dropped, {},
                extra \cup (IF m = 2 THEN {} ELSE {"io"}))
    BY <1>5, <2>1, <2>2, StepOfWriting
  <2> QED
    BY <1>1, <1>6, <2>3 DEF Firsts
<1>7. CASE m = 1
  <2>1. s.cache = c2 /\ s.alive = a2
    BY <1>4, <1>7 DEF PutFirst
  <2> HIDE DEF s
  <2>2. Outcome(h, IF m = 2 THEN live ELSE live \ dropped, {n},
                extra \cup (IF m = 2 THEN {} ELSE {"io"}))
    BY <1>4, <1>5, <2>1, StepOfWriting
  <2> QED
    BY <1>1, <1>7, <2>2 DEF Firsts
<1>8. CASE m = 2
  <2>1. c2 \in Seq(Nodes) /\ a2 \in SUBSET Nodes /\ n2 \in Nodes
        /\ \A x \in a2 : h[x].rrn = h[n2].rrn => x = n2
    BY <1>3, <1>4 DEF Written
  <2>2. PICK c3, a3 : /\ Put([cache |-> c2, alive |-> a2], h, n2) = [cache |-> c3, alive |-> a3]
                      /\ Written(c2, a2, c3, a3, {n2})
    BY <1>2, <2>1, PutWritten
  <2>3. s.cache = c3 /\ s.alive = a3
    BY <1>4, <1>8, <2>2 DEF PutFirst
  <2>4. {n} \cup {n2} = {n, n2} /\ {n} \subseteq live /\ {n, n2} \in SUBSET live
    OBVIOUS
  <2>5. Written(cache, live, c3, a3, {n, n2})
    BY <1>4, <2>2, <2>4, WrittenTwice
  <2> HIDE DEF s
  <2>6. Outcome(h, IF m = 2 THEN live ELSE live \ dropped, {n, n2},
                extra \cup (IF m = 2 THEN {} ELSE {"io"}))
    BY <1>5, <1>8, <2>3, <2>4, <2>5, StepOfWriting
  <2> QED
    BY <1>1, <1>8, <2>6 DEF Firsts
<1> QED
  BY <1>1, <1>6, <1>7, <1>8

(* The tree after such a step keeps its types, its arrays and its numbers. *)
LEMMA OutcomeTyped ==
  ASSUME StoreTypes, NEW h \in [Nodes -> NodeOf(Keys, Nat)], \A n \in Nodes : Shaped(h[n]),
         NEW kept \in SUBSET Nodes, NEW W, NEW new \in SUBSET {"io", "rebalanced"},
         \A n \in kept : h[n].rrn \in Nat, Distinct(h, kept), Outcome(h, kept, W, new)
  PROVE  /\ heap' \in [Nodes -> NodeOf(Keys, Nat)]
         /\ alive' \subseteq Nodes
         /\ cache' \in Seq(Nodes)
         /\ faults' \subseteq {"evicted", "io", "mem", "rebalanced", "stale", "past keys", "unchecked"}
         /\ Shapes' /\ Numbers'
<1>1. /\ heap' = h /\ cache' \in Seq(Nodes) /\ alive' \subseteq kept
      /\ faults' \subseteq faults \cup new \cup {"evicted"}
  BY DEF Outcome
<1>2. faults \subseteq {"evicted", "io", "mem", "rebalanced", "stale", "past keys", "unchecked"}
  BY DEF StoreTypes
<1>3. Shapes'
  BY <1>1 DEF Shapes
<1>4. Numbers'
  BY <1>1 DEF Numbers, Distinct
<1> QED
  BY <1>1, <1>2, <1>3, <1>4

(* Where nodes keep their rrns and stay in the cache, a node that fits     *)
(* still does; a leaf fits anywhere.                                       *)
LEMMA FitsStays ==
  ASSUME NEW h, NEW c, NEW g, NEW d, ToSet(c) \subseteq ToSet(d),
         \A n \in ToSet(c) : g[n].rrn = h[n].rrn /\ g[n].leaf = h[n].leaf
  PROVE  \A leaf : /\ RrnsIn(h, c, leaf) \subseteq RrnsIn(g, d, leaf)
                   /\ NodeOf(Keys, RrnsIn(h, c, leaf)) \subseteq NodeOf(Keys, RrnsIn(g, d, leaf))
<1>1. ASSUME NEW leaf PROVE RrnsIn(h, c, leaf) \subseteq RrnsIn(g, d, leaf)
  BY DEF RrnsIn
<1>2. \A C, D : C \subseteq D => NodeOf(Keys, C) \subseteq NodeOf(Keys, D)
  <2>1. ASSUME NEW C, NEW D, C \subseteq D, NEW p \in NodeOf(Keys, C)
        PROVE  p \in NodeOf(Keys, D)
    <3>1. p.children \in Seq(D)
      <4>1. p.children \in Seq(C)
        BY <2>1 DEF NodeOf
      <4>2. Seq(C) \subseteq Seq(D)
        BY <2>1, Zenon, SeqMonotonic
      <4> QED
        BY <4>1, <4>2
    <3> QED
      BY <2>1, <3>1 DEF NodeOf
  <2> QED
    BY <2>1
<1> QED
  BY <1>1, <1>2

LEMMA LeafFits ==
  ASSUME NEW C, NEW D, NEW p \in NodeOf(Keys, C), Shaped(p), p.leaf
  PROVE  p \in NodeOf(Keys, D)
<1>1. p.children \in Seq(C) /\ Len(p.children) = 0
  BY DEF NodeOf, Shaped
<1>2. p.children = <<>>
  BY <1>1
<1>3. p.children \in Seq(D)
  BY <1>2
<1> QED
  BY <1>3 DEF NodeOf

(* A step of writing that evicts nothing leaves the tree stored.           *)
LEMMA StoredStep ==
  ASSUME Stored, StoreTypes, NEW h \in [Nodes -> NodeOf(Keys, Nat)],
         \A n \in Nodes : Shaped(h[n]),
         NEW kept \in SUBSET Nodes, NEW W \in SUBSET kept, NEW new,
         Outcome(h, kept, W, new), Benign', alive \subseteq kept,
         \A n \in alive : h[n].rrn = heap[n].rrn /\ h[n].leaf = heap[n].leaf,
         root' \in kept \cup {NoNode},
         kept \subseteq ToSet(cache) \cup W \cup (IF "io" \in faults' THEN {root'} ELSE {}),
         \A q \in kept : \/ q \in alive /\ h[q] = heap[q]
                         \/ h[q].leaf
                         \/ \E leaf \in BOOLEAN : h[q] \in NodeOf(Keys, RrnsIn(heap, cache, leaf))
  PROVE  /\ Stored' /\ alive' = kept /\ ToSet(cache') = ToSet(cache) \cup W
         /\ \A leaf : NodeOf(Keys, RrnsIn(heap, cache, leaf))
                        \subseteq NodeOf(Keys, RrnsIn(heap', cache', leaf))
<1>1. ToSet(cache) \subseteq alive /\ NoTwice(cache)
  BY DEF Stored
<1>2. heap' = h /\ alive' = kept /\ NoTwice(cache')
  BY <1>1 DEF Outcome, Benign
<1>3. ToSet(cache') = ToSet(cache) \cup W
  BY <1>1, <1>2 DEF Outcome
<1>4. \A leaf : NodeOf(Keys, RrnsIn(heap, cache, leaf)) \subseteq NodeOf(Keys, RrnsIn(h, cache', leaf))
  <2>1. /\ ToSet(cache) \subseteq ToSet(cache')
        /\ \A n \in ToSet(cache) : h[n].rrn = heap[n].rrn /\ h[n].leaf = heap[n].leaf
    BY <1>1, <1>3
  <2> QED
    BY <2>1, FitsStays
<1>5. ASSUME NEW q \in kept
      PROVE  \E leaf \in BOOLEAN : h[q] \in NodeOf(Keys, RrnsIn(h, cache', leaf))
  <2>1. CASE q \in alive /\ h[q] = heap[q]
    BY <1>4, <2>1 DEF Stored, Fits, FitsIn
  <2>2. CASE h[q].leaf
    <3>1. h[q] \in NodeOf(Keys, Nat) /\ Shaped(h[q])
      OBVIOUS
    <3>2. h[q] \in NodeOf(Keys, RrnsIn(h, cache', TRUE))
      BY <2>2, <3>1, LeafFits
    <3> QED
      BY <3>2
  <2>3. CASE \E leaf \in BOOLEAN : h[q] \in NodeOf(Keys, RrnsIn(heap, cache, leaf))
    BY <1>4, <2>3
  <2> QED
    BY <2>1, <2>2, <2>3
<1>6. Stored'
  BY <1>1, <1>2, <1>3, <1>5 DEF Stored, Fits, FitsIn
<1> QED
  BY <1>2, <1>3, <1>4, <1>6

-----------------------------------------------------------------------------
(* The call in progress is over: nothing refers to a node but the root.    *)
LEMMA Returned ==
  ASSUME NEW code, NEW keys \in Seq(Keys), ReturnKeys(code, keys)
  PROVE  /\ CallTypes' /\ Control' /\ Frames' /\ Called'
<1>1. /\ op' = NoOp /\ pc' = "idle" /\ curr' = NoNode /\ path' = <<>> /\ promo' = 0
      /\ r_child' = NoNode /\ seen' = <<>> /\ answer' = [code |-> code, keys |-> keys]
  BY DEF ReturnKeys
<1>2. CallTypes'
  BY <1>1 DEF CallTypes
<1>3. Control'
  BY <1>1 DEF Control
<1>4. Frames'
  BY <1>1 DEF Frames
<1>5. Called'
  BY <1>1 DEF Called
<1> QED
  BY <1>2, <1>3, <1>4, <1>5

-----------------------------------------------------------------------------
(* What is left to show of a step that writes; of one that writes nothing; *)
(* and of one that stops the process.                                      *)
LEMMA AfterWriting ==
  ASSUME IInv, status = "running", status' \in {"running", "exited"}, setup' = setup,
         free_rrn' \in Seq(Nat), root' \in Nodes \cup {NoNode},
         NEW h \in [Nodes -> NodeOf(Keys, Nat)], \A n \in Nodes : Shaped(h[n]),
         NEW kept \in SUBSET Nodes, NEW W \in SUBSET kept, NEW new \in SUBSET {"io", "rebalanced"},
         \A n \in kept : h[n].rrn \in Nat, Distinct(h, kept), Outcome(h, kept, W, new),
         kept \subseteq ToSet(cache) \cup W \cup {root'},
         alive \subseteq kept,
         \A n \in alive : h[n].rrn = heap[n].rrn /\ h[n].leaf = heap[n].leaf,
         Benign' /\ Stored /\ Called =>
           /\ root' \in kept \cup {NoNode}
           /\ kept \subseteq ToSet(cache) \cup W \cup (IF "io" \in faults' THEN {root'} ELSE {})
           /\ \A q \in kept : \/ q \in alive /\ h[q] = heap[q]
                              \/ h[q].leaf
                              \/ \E leaf \in BOOLEAN :
                                   h[q] \in NodeOf(Keys, RrnsIn(heap, cache, leaf))
  PROVE  /\ StoreTypes' /\ Shapes' /\ Numbers' /\ Kept' /\ MemorySafe'
         /\ Benign' => /\ Stored /\ Called /\ Stored'
                       /\ alive' = kept /\ ToSet(cache') = ToSet(cache) \cup W
                       /\ \A leaf : NodeOf(Keys, RrnsIn(heap, cache, leaf))
                                      \subseteq NodeOf(Keys, RrnsIn(heap', cache', leaf))
<1>1. StoreTypes /\ Whole
  BY DEF IInv
<1>2. StoreTypes' /\ Shapes' /\ Numbers'
  <2>1. /\ heap' \in [Nodes -> NodeOf(Keys, Nat)]
        /\ alive' \subseteq Nodes
        /\ cache' \in Seq(Nodes)
        /\ faults' \subseteq {"evicted", "io", "mem", "rebalanced", "stale", "past keys", "unchecked"}
        /\ Shapes' /\ Numbers'
    BY <1>1, OutcomeTyped
  <2> QED
    BY <1>1, <2>1 DEF StoreTypes
<1>3. Kept'
  BY DEF Kept, Outcome
<1>4. MemorySafe'
  BY DEF MemorySafe
<1>5. ASSUME Benign'
      PROVE  /\ Stored /\ Called /\ Stored'
             /\ alive' = kept /\ ToSet(cache') = ToSet(cache) \cup W
             /\ \A leaf : NodeOf(Keys, RrnsIn(heap, cache, leaf))
                            \subseteq NodeOf(Keys, RrnsIn(heap', cache', leaf))
  <2>1. Stored /\ Called
    <3>1. Benign
      BY <1>5 DEF Benign, Outcome
    <3> QED
      BY <1>1, <3>1 DEF Whole
  <2> QED
    BY <1>1, <1>5, <2>1, StoredStep
<1> QED
  BY <1>2, <1>3, <1>4, <1>5

LEMMA AfterReturning ==
  ASSUME StoreTypes', Shapes', Numbers', Kept', MemorySafe', Benign' => Stored',
         NEW code, NEW keys \in Seq(Keys), ReturnKeys(code, keys)
  PROVE  IInv'
<1>1. CallTypes' /\ Control' /\ Frames' /\ Called'
  BY Returned
<1> QED
  BY <1>1 DEF IInv, Whole

LEMMA AfterMoving ==
  ASSUME IInv, UNCHANGED <<tree, status, setup>>, faults' \in {faults, faults \cup {"mem"}},
         status = "running", CallTypes', Control', Frames',
         Benign /\ Stored /\ Called => Called'
  PROVE  IInv'
<1>1. /\ UNCHANGED heap /\ UNCHANGED alive /\ UNCHANGED root /\ UNCHANGED cache
      /\ UNCHANGED free_rrn /\ UNCHANGED status /\ UNCHANGED setup
  BY DEF tree
<1>2. StoreTypes'
  BY <1>1 DEF IInv, StoreTypes
<1>3. Shapes' /\ Numbers' /\ Kept'
  BY <1>1 DEF IInv, Shapes, Numbers, Kept
<1>4. MemorySafe'
  BY <1>1 DEF MemorySafe
<1>5. ASSUME Benign' PROVE Stored' /\ Called'
  <2>1. Benign
    BY <1>5 DEF Benign
  <2>2. Stored /\ Called
    BY <2>1 DEF IInv, Whole
  <2>3. Stored'
    BY <1>1, <2>2 DEF Stored, Fits
  <2> QED
    BY <2>1, <2>2, <2>3
<1> QED
  BY <1>2, <1>3, <1>4, <1>5 DEF IInv, Whole

LEMMA AfterStopping ==
  ASSUME IInv, UNCHANGED <<tree, setup, op, pc, frame, answer>>,
         faults' \in {faults, faults \cup {"past keys"}, faults \cup {"unchecked"}},
         status' \in {"exited", "crashed", "corrupt", "clashed"}, MemorySafe'
  PROVE  IInv'
<1>1. /\ UNCHANGED heap /\ UNCHANGED alive /\ UNCHANGED root /\ UNCHANGED cache
      /\ UNCHANGED free_rrn /\ UNCHANGED setup /\ UNCHANGED op /\ UNCHANGED pc
      /\ UNCHANGED curr /\ UNCHANGED path /\ UNCHANGED promo /\ UNCHANGED r_child
      /\ UNCHANGED seen /\ UNCHANGED answer
  BY DEF tree, frame
<1>2. StoreTypes' /\ CallTypes'
  BY <1>1 DEF IInv, StoreTypes, CallTypes
<1>3. Shapes' /\ Numbers' /\ Kept'
  BY <1>1 DEF IInv, Shapes, Numbers, Kept
<1>4. Control' /\ Frames'
  BY <1>1 DEF IInv, Control, Frames
<1> QED
  BY <1>2, <1>3, <1>4 DEF IInv, Whole

-----------------------------------------------------------------------------
(* The steps of Next, one by one.  A call starts at the root. *)
LEMMA IdleCall ==
  ASSUME IInv, pc = "idle"
  PROVE  path = <<>> /\ r_child = NoNode /\ Control
<1>1. Control /\ Frames /\ CallTypes
  BY DEF IInv
<1>2. r_child = NoNode
  BY <1>1 DEF Control
<1>3. path = <<>>
  BY <1>1 DEF Frames
<1> QED
  BY <1>1, <1>2, <1>3

LEMMA CallStep ==
  ASSUME IInv, Ready, NEW request \in Requests, NEW where, NEW key \in Keys \cup {0},
         Call(request, where, key),
         \/ where = "first" /\ root = NoNode /\ key \in Keys
         \/ where = "descend" /\ root # NoNode /\ key \in Keys
         \/ where = "find" /\ request.key \in Keys
         \/ where = "range" /\ request.from \in Keys /\ request.to \in Keys
  PROVE  IInv'
<1>1. /\ op' = request /\ pc' = where /\ curr' = root /\ promo' = key
      /\ answer' = NoAnswer
      /\ UNCHANGED <<tree, status, setup>> /\ faults' = faults
      /\ path' = path /\ r_child' = r_child /\ seen' = seen
  BY DEF Call
<1>2. root' = root /\ heap' = heap /\ alive' = alive
  BY <1>1 DEF tree
<1>3. status = "running" /\ path = <<>> /\ r_child = NoNode
  BY IdleCall DEF Ready
<1>4. StoreTypes /\ CallTypes
  BY DEF IInv
<1>5. CallTypes'
  <2>1. answer'.keys \in Seq(Keys)
    <3>1. answer'.keys = <<>>
      BY <1>1 DEF NoAnswer
    <3> QED
      BY <3>1
  <2>2. root \in Nodes \cup {NoNode} /\ path \in Seq([node : Nodes, pos : 0 .. Order - 1])
        /\ seen \in Seq(Keys)
    BY <1>4 DEF StoreTypes, CallTypes
  <2> QED
    BY <1>1, <1>3, <2>1, <2>2 DEF CallTypes
<1>6. request # NoOp
  BY NoOpAssumption
<1>7. Control'
  BY <1>1, <1>2, <1>3, <1>6 DEF Control
<1>8. Frames'
  BY <1>1, <1>2, <1>3 DEF Frames
<1>9. Stored => Called'
  BY <1>1, <1>2, <1>3 DEF Stored, Called
<1> QED
  BY <1>1, <1>3, <1>5, <1>7, <1>8, <1>9, AfterMoving

LEMMA InsertCallStep ==
  ASSUME IInv, NEW k \in Keys, InsertCall(k)
  PROVE  IInv'
<1>1. Ready /\ [kind |-> "insert", key |-> k] \in Requests
  BY DEF InsertCall, Requests
<1>2. CASE root = NoNode
  BY <1>1, <1>2, CallStep DEF InsertCall
<1>3. CASE root # NoNode
  BY <1>1, <1>3, CallStep DEF InsertCall
<1> QED
  BY <1>2, <1>3

LEMMA FindCallStep ==
  ASSUME IInv, NEW k \in Keys, SearchCall(k) \/ RemoveCall(k)
  PROVE  IInv'
<1>1. PICK kind \in {"search", "remove"} : FindCall(kind, k)
  BY DEF SearchCall, RemoveCall
<1>2. Ready /\ Call([kind |-> kind, key |-> k], "find", 0)
  BY <1>1 DEF FindCall
<1>3. [kind |-> kind, key |-> k] \in Requests /\ [kind |-> kind, key |-> k].key \in Keys
  BY <1>1 DEF Requests
<1> QED
  BY <1>2, <1>3, CallStep

LEMMA RangeCallStep ==
  ASSUME IInv, NEW from \in Keys, NEW to \in Keys, RangeCall(from, to)
  PROVE  IInv'
<1> DEFINE request == [kind |-> "range", from |-> from, to |-> to]
<1>1. Ready /\ Call(request, "range", 0)
  BY DEF RangeCall
<1>2. request \in Requests /\ request.from \in Keys /\ request.to \in Keys
  BY DEF Requests
<1> HIDE DEF request
<1> QED
  BY <1>1, <1>2, CallStep

LEMMA LoadProps ==
  ASSUME StoreTypes, NEW rrn
  PROVE  /\ Load(rrn) # NoNode => /\ Load(rrn) \in ToSet(cache) /\ Load(rrn) \in alive
                                  /\ Load(rrn) \in Nodes /\ heap[Load(rrn)].rrn = rrn
         /\ \A m \in ToSet(cache) : m \in alive /\ heap[m].rrn = rrn => Load(rrn) # NoNode
<1>1. cache \in Seq(Nodes)
  BY DEF StoreTypes
<1> QED
  BY <1>1, LoadIsLoadIn, LoadInProps

(* A child of a node that fits is found, on the level it should be on. *)
LEMMA FitLoad ==
  ASSUME StoreTypes, Numbers, ToSet(cache) \subseteq alive,
         NEW q, NEW leaf, Fits(q, leaf), NEW rrn \in ToSet(heap[q].children)
  PROVE  Load(rrn) # NoNode /\ heap[Load(rrn)].leaf = leaf
<1>1. rrn \in RrnsIn(heap, cache, leaf)
  <2>1. heap[q].children \in Seq(RrnsIn(heap, cache, leaf))
    BY DEF Fits, FitsIn, NodeOf
  <2> QED
    BY <2>1 DEF ToSet
<1>2. PICK m \in ToSet(cache) : heap[m].leaf = leaf /\ heap[m].rrn = rrn
  BY <1>1 DEF RrnsIn
<1>3. Load(rrn) # NoNode /\ Load(rrn) \in alive /\ heap[Load(rrn)].rrn = rrn
  BY <1>2, LoadProps
<1>4. Load(rrn) = m
  BY <1>2, <1>3 DEF Numbers, Distinct
<1> QED
  BY <1>2, <1>3, <1>4

(* A step that only returns, and may have noticed a lack of memory. *)
LEMMA ReturnStep ==
  ASSUME IInv, status = "running", NEW code, NEW keys \in Seq(Keys), ReturnKeys(code, keys),
         UNCHANGED <<tree, status, setup>>, faults' \in {faults, faults \cup {"mem"}}
  PROVE  IInv'
<1>1. CallTypes' /\ Control' /\ Frames' /\ Called'
  BY Returned
<1> QED
  BY <1>1, AfterMoving

LEMMA ReturnCodeStep ==
  ASSUME IInv, status = "running", NEW code, Return(code),
         UNCHANGED <<tree, status, setup>>, faults' \in {faults, faults \cup {"mem"}}
  PROVE  IInv'
<1>1. <<>> \in Seq(Keys)
  OBVIOUS
<1>2. PICK keys \in Seq(Keys) : keys = <<>>
  BY <1>1
<1>3. ReturnKeys(code, keys)
  BY <1>2 DEF Return
<1> QED
  BY <1>3, ReturnStep

(* A step that only goes to another node, or to the next place. *)
LEMMA GoStep ==
  ASSUME IInv, pc \in {"find", "range"}, status = "running",
         NEW node \in Nodes, NEW where, curr' = node, pc' = where, seen' \in Seq(Keys),
         UNCHANGED <<tree, status, setup, faults>>,
         UNCHANGED <<op, path, promo, r_child, answer>>,
         \/ where = pc
         \/ pc = "find" /\ where = "remove" /\ heap[node].leaf /\ Found(heap[node], op.key),
         Benign /\ Stored => node \in alive
  PROVE  IInv'
<1>1. /\ heap' = heap /\ alive' = alive /\ root' = root /\ op' = op /\ path' = path
      /\ promo' = promo /\ r_child' = r_child /\ answer' = answer /\ faults' = faults
  BY DEF tree
<1>2. Control /\ Frames /\ CallTypes
  BY DEF IInv
<1>3. CallTypes'
  BY <1>1, <1>2 DEF CallTypes
<1>4. r_child = NoNode /\ path = <<>>
  BY <1>2 DEF Control, Frames
<1>5. node # NoNode
  BY DEF Nodes, NoNode
<1>6. Control'
  BY <1>1, <1>2, <1>4, <1>5 DEF Control
<1>7. Frames'
  BY <1>1, <1>2, <1>4 DEF Frames
<1>8. Benign /\ Stored /\ Called => Called'
  BY <1>1, <1>4 DEF Called
<1> QED
  BY <1>1, <1>3, <1>6, <1>7, <1>8, AfterMoving

-----------------------------------------------------------------------------
LEMMA FindNoRootStep == ASSUME IInv, FindNoRoot PROVE IInv'
<1>1. status = "running" /\ Return("not found") /\ UNCHANGED <<tree, status, setup>>
      /\ faults' = faults
  BY DEF FindNoRoot
<1> QED
  BY <1>1, ReturnCodeStep

LEMMA RangeNoRootStep == ASSUME IInv, RangeNoRoot PROVE IInv'
<1>1. status = "running" /\ Return("keys") /\ UNCHANGED <<tree, status, setup>>
      /\ faults' = faults
  BY DEF RangeNoRoot, Return
<1> QED
  BY <1>1, ReturnCodeStep

LEMMA ReadPastKeysStep == ASSUME IInv, ReadPastKeys PROVE IInv'
<1>1. /\ UNCHANGED <<tree, setup, op, pc, frame, answer>>
      /\ faults' = faults \cup {"past keys"} /\ status' = "corrupt"
  BY DEF ReadPastKeys
<1>2. MemorySafe'
  BY <1>1 DEF MemorySafe
<1> QED
  BY <1>1, <1>2, AfterStopping

LEMMA UncheckedAllocationCrashesStep == ASSUME IInv, UncheckedAllocationCrashes PROVE IInv'
<1>1. /\ UNCHANGED <<tree, setup, op, pc, frame, answer>>
      /\ faults' = faults \cup {"unchecked"} /\ status' = "crashed"
  BY DEF UncheckedAllocationCrashes
<1>2. MemorySafe'
  BY <1>1 DEF MemorySafe
<1> QED
  BY <1>1, <1>2, AfterStopping

LEMMA AllocationCrashesStep == ASSUME IInv, AllocationCrashes PROVE IInv'
<1>1. /\ UNCHANGED <<tree, setup, op, pc, frame, answer>> /\ UNCHANGED setup
      /\ faults' = faults /\ status' = "crashed" /\ ~setup.storage
  BY DEF AllocationCrashes
<1>2. MemorySafe'
  BY <1>1 DEF MemorySafe
<1> QED
  BY <1>1, <1>2, AfterStopping

LEMMA RrnClashesStep == ASSUME IInv, RrnClashes PROVE IInv'
<1>1. /\ UNCHANGED <<tree, setup, op, pc, frame, answer>>
      /\ faults' = faults /\ status' = "clashed"
  BY DEF RrnClashes
<1>2. MemorySafe'
  BY <1>1 DEF MemorySafe
<1> QED
  BY <1>1, <1>2, AfterStopping

LEMMA AllocationFailsStep == ASSUME IInv, AllocationFails PROVE IInv'
<1>1. status = "running" /\ Return("memory") /\ UNCHANGED <<tree, status, setup>>
      /\ faults' \in {faults, faults \cup {"mem"}}
  BY DEF AllocationFails, Allocating
<1> QED
  BY <1>1, ReturnCodeStep

LEMMA StaleReadStep == ASSUME IInv, StaleRead PROVE IInv'
<1>1. /\ UNCHANGED <<tree, setup, op, pc, frame, answer>>
      /\ faults' = faults /\ status' = "corrupt" /\ status = "running"
      /\ ~(ToSet(cache) \subseteq alive)
  BY DEF StaleRead
<1>2. ~Benign
  BY <1>1 DEF IInv, Whole, Stored
<1>3. MemorySafe'
  BY <1>1, <1>2 DEF MemorySafe, Benign
<1> QED
  BY <1>1, <1>3, AfterStopping

LEMMA FindLeafStep == ASSUME IInv, FindLeaf PROVE IInv'
<1>1. /\ status = "running" /\ pc = "find" /\ curr \in alive /\ heap[curr].leaf
      /\ UNCHANGED <<tree, status, setup, faults>> /\ faults' = faults
  BY DEF FindLeaf, At
<1>2. curr \in Nodes /\ seen \in Seq(Keys)
  BY <1>1 DEF IInv, StoreTypes, CallTypes
<1>3. CASE pc' = "remove" /\ Found(heap[curr], op.key) /\ UNCHANGED <<op, frame, answer>>
  <2>1. /\ curr' = curr /\ seen' = seen
        /\ UNCHANGED <<op, path, promo, r_child, answer>>
    BY <1>3 DEF frame
  <2> QED
    BY <1>1, <1>2, <1>3, <2>1, GoStep
<1>4. CASE Return("found") \/ Return("not found")
  BY <1>1, <1>4, ReturnCodeStep
<1> QED
  BY <1>3, <1>4 DEF FindLeaf

(* A range query collects keys. *)
Turn(p, from, i, before) ==
  CASE i = 0 -> <<>>
    [] i > 0 /\ p.keys[i] >= from -> Append(before, p.keys[i])
    [] OTHER -> before

LEMMA InRangeLoop ==
  ASSUME NEW C, NEW p \in NodeOf(Keys, C), NEW from, NEW to
  PROVE  \E g : /\ InRange(p, from, to) = g[RangePos(p, to)]
               /\ g[0] = <<>>
               /\ \A i \in 1 .. RangePos(p, to) : g[i] = Turn(p, from, i, g[i - 1])
<1> DEFINE n == RangePos(p, to)
           V == Seq(Keys)
           G == [x \in Nat \X V |->
                   IF x[1] \in 1 .. Len(p.keys) THEN Turn(p, from, x[1], x[2]) ELSE x[2]]
           IsLoop(f) == f = [i \in 0 .. n |-> Turn(p, from, i, f[i - 1])]
<1>1. p.keys \in Seq(Keys) /\ n \in 0 .. Len(p.keys) /\ n \in Nat
  <2>1. n \in 0 .. Len(p.keys)
    BY RangePosRange
  <2> QED
    BY <2>1 DEF NodeOf
<1>2. PICK none \in V : none = <<>>
  <2>1. <<>> \in V
    OBVIOUS
  <2> QED
    BY <2>1
<1>3. InRange(p, from, to) = (CHOOSE f : IsLoop(f))[n]
  BY DEF InRange, Turn
<1>4. \A i \in 1 .. Len(p.keys), s \in V : Turn(p, from, i, s) \in V
  <2>1. \A i \in 1 .. Len(p.keys) : p.keys[i] \in Keys /\ i # 0
    BY <1>1
  <2> QED
    BY <2>1 DEF Turn
<1>5. G \in [Nat \X V -> V]
  BY <1>4
<1> HIDE DEF n, V
<1>6. PICK f : LoopOf(f, V, none, G, n)
  <2>1. n \in Nat /\ none \in V
    BY <1>1, <1>2
  <2> HIDE DEF G
  <2> QED
    BY <1>5, <2>1, LoopExists
<1>7. IsLoop(f)
  <2>1. ASSUME NEW i \in 1 .. n PROVE f[i] = Turn(p, from, i, f[i - 1])
    <3>1. f[i] = G[<<i, f[i - 1]>>]
      BY <1>6 DEF LoopOf
    <3>2. i \in Nat /\ f[i - 1] \in V /\ i \in 1 .. Len(p.keys)
      BY <1>1, <1>6 DEF LoopOf
    <3> QED
      BY <3>1, <3>2
  <2>2. f[0] = Turn(p, from, 0, f[0 - 1])
    BY <1>2, <1>6 DEF Turn, LoopOf
  <2>3. \A i \in 0 .. n : f[i] = Turn(p, from, i, f[i - 1])
    BY <1>1, <2>1, <2>2
  <2> QED
    BY <1>6, <2>3 DEF LoopOf
<1>8. PICK g : g = (CHOOSE h : IsLoop(h))
  OBVIOUS
<1>9. IsLoop(g)
  BY <1>7, <1>8
<1>10. g[0] = <<>> /\ \A i \in 1 .. n : g[i] = Turn(p, from, i, g[i - 1])
  <2>1. \A i \in 0 .. n : g[i] = Turn(p, from, i, g[i - 1])
    BY <1>9
  <2>2. g[0] = <<>>
    BY <1>1, <2>1 DEF Turn
  <2>3. \A i \in 1 .. n : i \in 0 .. n
    BY <1>1
  <2> QED
    BY <2>1, <2>2, <2>3
<1> QED
  BY <1>3, <1>8, <1>10 DEF n

LEMMA InRangeTyped ==
  ASSUME NEW C, NEW p \in NodeOf(Keys, C), NEW from, NEW to
  PROVE  InRange(p, from, to) \in Seq(Keys)
<1>1. p.keys \in Seq(Keys) /\ RangePos(p, to) \in 0 .. Len(p.keys)
  BY RangePosRange DEF NodeOf
<1>2. PICK n \in 0 .. Len(p.keys) : n = RangePos(p, to)
  BY <1>1
<1>3. PICK g : /\ InRange(p, from, to) = g[n] /\ g[0] = <<>>
               /\ \A i \in 1 .. n : g[i] = Turn(p, from, i, g[i - 1])
  BY <1>2, InRangeLoop
<1>4. g[0] \in Seq(Keys) /\ \A i \in 1 .. n : g[i - 1] \in Seq(Keys) => g[i] \in Seq(Keys)
  <2>1. \A i \in 1 .. n : p.keys[i] \in Keys /\ i # 0
    BY <1>1, <1>2
  <2>2. g[0] \in Seq(Keys)
    BY <1>3
  <2>3. ASSUME NEW i \in 1 .. n, g[i - 1] \in Seq(Keys) PROVE g[i] \in Seq(Keys)
    <3>1. g[i] = Turn(p, from, i, g[i - 1]) /\ p.keys[i] \in Keys /\ i # 0
      BY <1>3, <2>1
    <3> QED
      BY <2>3, <3>1 DEF Turn
  <2> QED
    BY <2>2, <2>3
<1>5. \A i \in 0 .. n : g[i] \in Seq(Keys)
  <2>1. n \in Nat
    BY <1>1, <1>2
  <2> QED
    BY <1>4, <2>1, LoopStays
<1> QED
  BY <1>3, <1>5

-----------------------------------------------------------------------------
(* A position of a node that is not a leaf leads to one of its children.   *)
LEMMA ChildAt ==
  ASSUME IInv, NEW n \in Nodes, ~heap[n].leaf, NEW pos \in 0 .. Len(heap[n].keys)
  PROVE  /\ heap[n].children[pos + 1] \in ToSet(heap[n].children)
         /\ pos \in 0 .. Order - 1
<1>1. heap[n] \in NodeOf(Keys, Nat) /\ Shaped(heap[n])
  BY DEF IInv, StoreTypes, Shapes
<1>2. Len(heap[n].keys) \in Nat /\ Len(heap[n].keys) <= Order - 1
      /\ heap[n].children \in Seq(Nat) /\ Len(heap[n].children) = Len(heap[n].keys) + 1
  BY <1>1 DEF NodeOf, Shaped
<1>3. pos + 1 \in DOMAIN heap[n].children
  BY <1>2
<1> QED
  BY <1>2, <1>3, HalfBounds DEF ToSet

LEMMA FindInternalStep == ASSUME IInv, FindInternal PROVE IInv'
<1> DEFINE p == heap[curr]
           rrn == p.children[SearchPos(p, op.key) + 1]
<1>1. /\ status = "running" /\ pc = "find" /\ curr \in alive /\ ~p.leaf
      /\ UNCHANGED tree /\ UNCHANGED setup /\ UNCHANGED faults
  BY DEF FindInternal, At
<1>2. /\ StoreTypes /\ CallTypes /\ Numbers /\ curr \in Nodes /\ seen \in Seq(Keys)
  BY <1>1 DEF IInv, StoreTypes, CallTypes
<1>3. rrn \in ToSet(p.children)
  <2>1. p \in NodeOf(Keys, Nat)
    BY <1>2 DEF StoreTypes
  <2>2. SearchPos(p, op.key) \in 0 .. Len(p.keys)
    BY <2>1, SearchPosRange
  <2> QED
    BY <1>1, <1>2, <2>2, ChildAt
<1>4. Load(rrn) # NoNode => Load(rrn) \in Nodes /\ Load(rrn) \in alive
  BY <1>2, LoadProps
<1>5. Benign => Load(rrn) # NoNode
  <2>1. ASSUME Benign PROVE ToSet(cache) \subseteq alive /\ \E leaf : Fits(curr, leaf)
    BY <1>1, <2>1 DEF IInv, Whole, Stored
  <2> QED
    BY <1>2, <1>3, <2>1, FitLoad
<1>6. CASE \E code : Return(code) /\ UNCHANGED status
  BY <1>1, <1>6, ReturnCodeStep
<1>7. CASE Load(rrn) # NoNode /\ curr' = Load(rrn)
           /\ UNCHANGED <<op, pc, path, promo, r_child, seen, answer, status>>
  <2> DEFINE child == Load(rrn)
  <2>1. child \in Nodes /\ child \in alive /\ curr' = child /\ pc' = pc /\ seen' = seen
    BY <1>4, <1>7
  <2> HIDE DEF child, rrn
  <2> QED
    BY <1>1, <1>2, <1>7, <2>1, GoStep
<1>8. CASE Load(rrn) = NoNode /\ status' = "crashed" /\ UNCHANGED <<op, pc, frame, answer>>
  <2>1. MemorySafe'
    BY <1>1, <1>5, <1>8 DEF MemorySafe, Benign
  <2> QED
    BY <1>1, <1>8, <2>1, AfterStopping
<1>9. \/ \E code : Return(code) /\ UNCHANGED status
      \/ /\ Load(rrn) # NoNode /\ curr' = Load(rrn)
         /\ UNCHANGED <<op, pc, path, promo, r_child, seen, answer, status>>
      \/ Load(rrn) = NoNode /\ status' = "crashed" /\ UNCHANGED <<op, pc, frame, answer>>
  BY DEF FindInternal
<1> QED
  BY <1>6, <1>7, <1>8, <1>9

LEMMA RangeDownStep == ASSUME IInv, RangeDown PROVE IInv'
<1> DEFINE p == heap[curr]
           rrn == p.children[RangePos(p, op.from) + 1]
<1>1. /\ status = "running" /\ pc = "range" /\ curr \in alive /\ ~p.leaf
      /\ UNCHANGED <<tree, status, setup, faults>> /\ faults' = faults
  BY DEF RangeDown, At
<1>2. /\ StoreTypes /\ seen \in Seq(Keys)
  BY <1>1 DEF IInv, CallTypes
<1>3. Load(rrn) # NoNode => Load(rrn) \in Nodes /\ Load(rrn) \in alive
  BY <1>2, LoadProps
<1>4. CASE ReturnKeys("keys", seen)
  BY <1>1, <1>2, <1>4, ReturnStep
<1>5. CASE Load(rrn) # NoNode /\ curr' = Load(rrn)
           /\ UNCHANGED <<op, pc, path, promo, r_child, seen, answer>>
  <2> DEFINE child == Load(rrn)
  <2>1. child \in Nodes /\ child \in alive /\ curr' = child /\ pc' = pc /\ seen' = seen
    BY <1>3, <1>5
  <2> HIDE DEF child, rrn
  <2> QED
    BY <1>1, <1>2, <1>5, <2>1, GoStep
<1> QED
  BY <1>4, <1>5 DEF RangeDown

LEMMA RangeLeafStep == ASSUME IInv, RangeLeaf PROVE IInv'
<1> DEFINE p == heap[curr]
           found == seen \o InRange(p, op.from, op.to)
           next == Load(p.next_leaf)
<1>1. /\ status = "running" /\ pc = "range" /\ curr \in alive
      /\ UNCHANGED <<tree, status, setup, faults>> /\ faults' = faults
  BY DEF RangeLeaf, At
<1>2. /\ StoreTypes /\ seen \in Seq(Keys) /\ p \in NodeOf(Keys, Nat)
  BY <1>1 DEF IInv, StoreTypes, CallTypes
<1>3. next # NoNode => next \in Nodes /\ next \in alive
  BY <1>2, LoadProps
<1>4. found \in Seq(Keys)
  <2>1. InRange(p, op.from, op.to) \in Seq(Keys)
    BY <1>2, InRangeTyped
  <2> QED
    BY <1>2, <2>1
<1>5. \/ ReturnKeys("keys", seen)
      \/ ReturnKeys("keys", found)
      \/ /\ next # NoNode /\ curr' = next /\ seen' = found
         /\ UNCHANGED <<op, pc, path, promo, r_child, answer>>
  BY DEF RangeLeaf, Past
<1> HIDE DEF found, next, p
<1>6. CASE ReturnKeys("keys", seen)
  BY <1>1, <1>2, <1>6, ReturnStep
<1>7. CASE ReturnKeys("keys", found)
  BY <1>1, <1>4, <1>7, ReturnStep
<1>8. CASE /\ next # NoNode /\ curr' = next /\ seen' = found
           /\ UNCHANGED <<op, pc, path, promo, r_child, answer>>
  BY <1>1, <1>3, <1>4, <1>8, GoStep
<1> QED
  BY <1>5, <1>6, <1>7, <1>8

-----------------------------------------------------------------------------
(* The descent to a leaf meets no node twice: from the same node it would  *)
(* go on in the same way, and never get to the leaf.                       *)
LEMMA PathDistinct ==
  ASSUME IInv, pc = "descend", heap[curr].leaf
  PROVE  /\ \A i \in DOMAIN path : path[i].node # curr
         /\ \A i, j \in DOMAIN path : i # j => path[i].node # path[j].node
<1> DEFINE n == Len(path)
           next(i) == LoadIn(heap, alive, cache,
                             heap[path[i].node].children[path[i].pos + 1])
           T == {d \in Nat : \E i, j \in 1 .. n :
                   i < j /\ path[i].node = path[j].node /\ d = n - j}
<1>1. n \in Nat /\ DOMAIN path = 1 .. n
  BY DEF IInv, CallTypes
<1>2. \A i \in 1 .. n : /\ ~heap[path[i].node].leaf
                        /\ path[i].pos = SearchPos(heap[path[i].node], promo)
                        /\ next(i) = IF i = n THEN curr ELSE path[i + 1].node
  BY <1>1 DEF IInv, Frames
<1>3. \A i, j \in 1 .. n : path[i].node = path[j].node => next(i) = next(j)
  BY <1>2
<1> HIDE DEF next, n
<1>4. T = {}
  <2>1. SUFFICES ASSUME T # {} PROVE FALSE
    OBVIOUS
  <2>2. PICK d \in T : \A e \in T : d <= e
    <3>1. T \in SUBSET Nat
      OBVIOUS
    <3> HIDE DEF T
    <3> QED
      BY <2>1, <3>1, HasLeast
  <2>3. PICK i \in 1 .. n, j \in 1 .. n :
          i < j /\ path[i].node = path[j].node /\ d = n - j /\ d \in Nat
    BY <2>2
  <2>4. next(i) = path[i + 1].node /\ i + 1 \in 1 .. n /\ next(i) = next(j)
    BY <1>1, <1>2, <1>3, <2>3
  <2>5. CASE j = n
    BY <1>2, <2>3, <2>4, <2>5
  <2>6. CASE j # n
    <3>1. j + 1 \in 1 .. n /\ next(j) = path[j + 1].node /\ i + 1 < j + 1
      BY <1>1, <1>2, <2>3, <2>6
    <3>2. n - (j + 1) \in Nat /\ n - (j + 1) < d
      BY <1>1, <2>3, <3>1
    <3>3. n - (j + 1) \in T
      BY <2>4, <3>1, <3>2
    <3> QED
      BY <2>2, <2>3, <3>2, <3>3
  <2> QED
    BY <2>5, <2>6
<1>5. \A i, j \in 1 .. n : i < j => path[i].node # path[j].node
  <2>1. \A j \in 1 .. n : n - j \in Nat
    BY <1>1
  <2> QED
    BY <1>4, <2>1
<1>6. \A i, j \in 1 .. n : i # j => i < j \/ j < i
  BY <1>1
<1> QED
  BY <1>1, <1>2, <1>5, <1>6

LEMMA DescendStep == ASSUME IInv, Descend PROVE IInv'
<1> DEFINE p == heap[curr]
           pos == SearchPos(p, promo)
           rrn == p.children[pos + 1]
           child == Load(rrn)
<1>1. /\ status = "running" /\ pc = "descend" /\ curr \in alive
      /\ UNCHANGED <<tree, status, setup, faults>> /\ faults' = faults
      /\ heap' = heap /\ alive' = alive /\ root' = root /\ cache' = cache
  BY DEF Descend, At, tree
<1>2. /\ StoreTypes /\ CallTypes /\ Numbers /\ Control /\ Frames /\ curr \in Nodes
  BY <1>1 DEF IInv, StoreTypes
<1>3. p \in NodeOf(Keys, Nat) /\ pos \in 0 .. Len(p.keys)
  <2>1. p \in NodeOf(Keys, Nat)
    BY <1>2 DEF StoreTypes
  <2> QED
    BY <2>1, SearchPosRange
<1>4. CASE \E code : Return(code)
  BY <1>1, <1>4, ReturnCodeStep
<1>5. CASE p.leaf /\ pc' = (IF Full(p) THEN "split" ELSE "leaf") /\ UNCHANGED <<op, frame, answer>>
  <2>1. /\ curr' = curr /\ path' = path /\ promo' = promo /\ r_child' = r_child
        /\ seen' = seen /\ op' = op /\ answer' = answer
    BY <1>5 DEF frame
  <2>2. CallTypes'
    BY <1>2, <2>1 DEF CallTypes
  <2>3. Control'
    BY <1>1, <1>2, <1>5, <2>1 DEF Control
  <2>4. Frames'
    BY <1>1, <1>2, <1>5, <2>1, PathDistinct DEF Frames
  <2>5. r_child = NoNode
    BY <1>1, <1>2 DEF Control
  <2>6. Called => Called'
    BY <1>1, <1>5, <2>1, <2>5 DEF Called, Fits
  <2> QED
    BY <1>1, <2>2, <2>3, <2>4, <2>6, AfterMoving
<1>6. CASE /\ ~p.leaf /\ child # NoNode
           /\ path' = Append(path, [node |-> curr, pos |-> pos])
           /\ curr' = child
           /\ UNCHANGED <<op, pc, promo, r_child, seen, answer>>
  <2>1. rrn \in ToSet(p.children) /\ pos \in 0 .. Order - 1
    BY <1>2, <1>3, <1>6, ChildAt
  <2>2. child \in Nodes /\ child \in alive
    BY <1>2, <1>6, LoadProps
  <2> DEFINE n == Len(path)
             here == [node |-> curr, pos |-> pos]
  <2>3. here \in [node : Nodes, pos : 0 .. Order - 1] /\ here.node = curr /\ here.pos = pos
    BY <1>2, <2>1
  <2>4. /\ n \in Nat /\ DOMAIN path = 1 .. n /\ (path = <<>> <=> n = 0)
        /\ path \in Seq([node : Nodes, pos : 0 .. Order - 1])
    BY <1>2 DEF CallTypes
  <2> HIDE DEF here
  <2>5. /\ path' \in Seq([node : Nodes, pos : 0 .. Order - 1])
        /\ Len(path') = n + 1 /\ DOMAIN path' = 1 .. n + 1 /\ path' # <<>>
        /\ \A i \in 1 .. n : path'[i] = path[i]
        /\ path'[n + 1] = here
    <3>1. path' = Append(path, here)
      BY <1>6 DEF here
    <3> QED
      BY <2>3, <2>4, <3>1
  <2> HIDE DEF child, rrn, pos, n
  <2>6. CallTypes'
    BY <1>2, <1>6, <2>2, <2>5 DEF CallTypes
  <2>7. child # NoNode /\ r_child = NoNode
    BY <1>1, <1>2, <1>6 DEF Control
  <2>8. Control'
    BY <1>1, <1>2, <1>6, <2>7 DEF Control
  <2>9. ~heap[curr].leaf /\ pos <= Len(heap[curr].keys)
    BY <1>3, <1>6 DEF NodeOf
  <2>10. LoadIn(heap, alive, cache, heap[here.node].children[here.pos + 1]) = child
    BY <2>3, LoadIsLoadIn DEF child, rrn
  <2>11. here.pos = SearchPos(heap[here.node], promo)
    BY <2>3 DEF pos
  <2>12. \A i \in 1 .. n :
           /\ ~heap[path[i].node].leaf /\ path[i].pos <= Len(heap[path[i].node].keys)
           /\ path[i].pos = SearchPos(heap[path[i].node], promo)
           /\ LoadIn(heap, alive, cache, heap[path[i].node].children[path[i].pos + 1])
                = IF i = n THEN curr ELSE path[i + 1].node
    BY <1>1, <1>2, <2>4 DEF Frames, n
  <2>13. root = IF path = <<>> THEN curr ELSE path[1].node
    BY <1>1, <1>2 DEF Frames
  <2>14. root = path'[1].node
    <3>1. CASE path = <<>>
      BY <2>3, <2>4, <2>5, <2>13, <3>1
    <3>2. CASE path # <<>>
      <4>1. 1 \in 1 .. n
        BY <2>4, <3>2
      <4> QED
        BY <2>5, <2>13, <3>2, <4>1
    <3> QED
      BY <3>1, <3>2
  <2>15. ASSUME NEW i \in 1 .. n + 1
         PROVE  /\ ~heap[path'[i].node].leaf /\ path'[i].pos <= Len(heap[path'[i].node].keys)
                /\ path'[i].pos = SearchPos(heap[path'[i].node], promo)
                /\ LoadIn(heap, alive, cache, heap[path'[i].node].children[path'[i].pos + 1])
                     = IF i = n + 1 THEN child ELSE path'[i + 1].node
    <3>1. CASE i = n + 1
      BY <2>3, <2>4, <2>5, <2>9, <2>10, <2>11, <3>1
    <3>2. CASE i = n /\ n \in 1 .. n
      <4>1. path'[n + 1].node = curr /\ path'[n] = path[n] /\ n # n + 1
        BY <2>3, <2>4, <2>5, <3>2
      <4> QED
        BY <2>12, <3>2, <4>1
    <3>3. CASE i \in 1 .. n /\ i # n
      <4>1. i + 1 \in 1 .. n /\ path'[i + 1] = path[i + 1] /\ path'[i] = path[i] /\ i # n + 1
        BY <2>4, <2>5, <3>3
      <4> QED
        BY <2>12, <3>3, <4>1
    <3> QED
      BY <2>4, <3>1, <3>2, <3>3
  <2>16. Frames'
    BY <1>1, <1>6, <2>5, <2>14, <2>15 DEF Frames
  <2>17. ASSUME Benign, Stored, Called PROVE Called'
    <3>1. PICK leaf \in BOOLEAN : Fits(curr, leaf)
      BY <1>1, <2>17 DEF Stored
    <3>2. heap[child].leaf = leaf
      <4>1. ToSet(cache) \subseteq alive
        BY <2>17 DEF Stored
      <4>2. rrn \in ToSet(heap[curr].children)
        BY <2>1 DEF rrn
      <4> QED
        BY <1>2, <3>1, <4>1, <4>2, FitLoad DEF child
    <3>3. \A i \in 1 .. n : path[i].node \in alive /\ Fits(path[i].node, FALSE)
      <4>1. heap[curr].leaf = FALSE
        BY <1>3, <1>6 DEF NodeOf
      <4> QED
        BY <1>1, <2>4, <2>17, <4>1 DEF Called, n
    <3>4. \A i \in 1 .. n + 1 :
            /\ path'[i].node \in alive
            /\ Fits(path'[i].node, IF i = n + 1 THEN heap[child].leaf ELSE FALSE)
      <4>1. \A i \in 1 .. n + 1 : i = n + 1 \/ (i \in 1 .. n /\ i # n + 1)
        BY <2>4
      <4> QED
        BY <1>1, <2>3, <2>5, <3>1, <3>2, <3>3, <4>1
    <3> QED
      BY <1>1, <1>6, <2>2, <2>5, <2>7, <3>4 DEF Called, Fits
  <2> QED
    BY <1>1, <2>6, <2>8, <2>16, <2>17, AfterMoving
<1> QED
  BY <1>4, <1>5, <1>6 DEF Descend

-----------------------------------------------------------------------------
LEMMA AfterReturningCode ==
  ASSUME StoreTypes', Shapes', Numbers', Kept', MemorySafe', Benign' => Stored',
         NEW code, Return(code)
  PROVE  IInv'
<1>1. <<>> \in Seq(Keys)
  OBVIOUS
<1>2. PICK keys \in Seq(Keys) : keys = <<>>
  BY <1>1
<1>3. ReturnKeys(code, keys)
  BY <1>2 DEF Return
<1> QED
  BY <1>3, AfterReturning

(* A live node gets other keys, children or another link, and is written.  *)
LEMMA RewriteOne ==
  ASSUME IInv, status = "running", UNCHANGED <<root, status, setup>>, free_rrn' \in Seq(Nat),
         NEW n \in alive, NEW q \in NodeOf(Keys, Nat), Shaped(q),
         q.rrn = heap[n].rrn, q.leaf = heap[n].leaf,
         NEW m \in Successes(1), NEW extra \in SUBSET {"rebalanced"},
         WriteAs([heap EXCEPT ![n] = q], alive, <<n>>, m, {}, extra),
         Stored /\ Called => \/ q.leaf
                             \/ \E leaf \in BOOLEAN : q \in NodeOf(Keys, RrnsIn(heap, cache, leaf))
  PROVE  /\ StoreTypes' /\ Shapes' /\ Numbers' /\ Kept' /\ MemorySafe'
         /\ Benign' => Stored' /\ alive' = alive
         /\ heap' = [heap EXCEPT ![n] = q]
         /\ m \in {0, 1}
<1> DEFINE h == [heap EXCEPT ![n] = q]
           W == IF m = 1 THEN {n} ELSE {}
           new == extra \cup (IF m = 1 THEN {} ELSE {"io"})
           kept == IF m = 1 THEN alive ELSE alive \ {}
<1>1. StoreTypes /\ Shapes /\ Numbers /\ Kept /\ Whole
  BY DEF IInv
<1>2. /\ n \in Nodes /\ alive \in SUBSET Nodes /\ heap \in [Nodes -> NodeOf(Keys, Nat)]
      /\ root \in Nodes \cup {NoNode} /\ root' = root /\ status' = status /\ setup' = setup
  BY <1>1 DEF StoreTypes
<1>3. h \in [Nodes -> NodeOf(Keys, Nat)] /\ h[n] = q /\ \A x \in Nodes : x # n => h[x] = heap[x]
  BY <1>2
<1>4. kept = alive /\ W \in SUBSET alive /\ new \in SUBSET {"io", "rebalanced"}
  OBVIOUS
<1> HIDE DEF h
<1>5. \A x \in Nodes : Shaped(h[x])
  BY <1>1, <1>3 DEF Shapes
<1>6. \A x \in alive : h[x].rrn = heap[x].rrn /\ h[x].leaf = heap[x].leaf
  BY <1>2, <1>3
<1>7. (\A x \in alive : h[x].rrn \in Nat) /\ Distinct(h, alive)
  BY <1>1, <1>6 DEF Numbers, Distinct
<1>8. m \in {0, 1} /\ Outcome(h, kept, W, new)
  BY <1>1, <1>2, <1>7, WriteOne DEF h
<1>9. Outcome(h, alive, W, new)
  BY <1>4, <1>8
<1>10. alive \subseteq ToSet(cache) \cup W \cup {root'}
  BY <1>1, <1>2 DEF Kept
<1>11. ASSUME Benign', Stored, Called
       PROVE  /\ root' \in alive \cup {NoNode}
              /\ alive \subseteq ToSet(cache) \cup W \cup (IF "io" \in faults' THEN {root'} ELSE {})
              /\ \A x \in alive : \/ x \in alive /\ h[x] = heap[x]
                                  \/ h[x].leaf
                                  \/ \E leaf \in BOOLEAN :
                                       h[x] \in NodeOf(Keys, RrnsIn(heap, cache, leaf))
  <2>1. faults \subseteq faults'
    BY <1>9 DEF Outcome
  <2>2. \A x \in alive : x = n \/ h[x] = heap[x]
    BY <1>2, <1>3
  <2> QED
    BY <1>2, <1>3, <1>11, <2>1, <2>2 DEF Stored
<1> HIDE DEF W, new, kept
<1>12. /\ StoreTypes' /\ Shapes' /\ Numbers' /\ Kept' /\ MemorySafe'
       /\ Benign' => Stored' /\ alive' = alive
  BY <1>2, <1>3, <1>4, <1>5, <1>6, <1>7, <1>9, <1>10, <1>11, AfterWriting
<1>13. heap' = h
  BY <1>9 DEF Outcome
<1> QED
  BY <1>8, <1>12, <1>13 DEF h

LEMMA LeafInsertStep == ASSUME IInv, LeafInsert PROVE IInv'
<1> DEFINE p == heap[curr]
           q == InsertInNode(p, promo, NoRrn, SearchPos(p, promo))
<1>1. PICK m \in Successes(1) :
        /\ Write([heap EXCEPT ![curr] = q], alive, <<curr>>, m, {})
        /\ Return(IF m = 1 THEN "ok" ELSE "io")
  BY DEF LeafInsert
<1>2. /\ status = "running" /\ pc = "leaf" /\ curr \in alive
      /\ UNCHANGED <<root, status, setup>> /\ free_rrn' = free_rrn
  BY DEF LeafInsert, At
<1>3. StoreTypes /\ CallTypes /\ Shapes /\ Control
  BY DEF IInv
<1>4. curr \in Nodes /\ p \in NodeOf(Keys, Nat) /\ Shaped(p) /\ p.leaf /\ ~Full(p)
      /\ promo \in Keys /\ free_rrn' \in Seq(Nat)
  BY <1>2, <1>3 DEF StoreTypes, Shapes, Control
<1>5. PICK pos \in 0 .. Len(p.keys) : pos = SearchPos(p, promo)
  BY <1>4, SearchPosRange
<1>6. PICK node : node = InsertInNode(p, promo, NoRrn, pos)
  OBVIOUS
<1>7. WriteAs([heap EXCEPT ![curr] = node], alive, <<curr>>, m, {}, {})
  BY <1>1, <1>5, <1>6 DEF Write
<1> HIDE DEF p, q
<1>8. node \in NodeOf(Keys, Nat) /\ Shaped(node) /\ node.rrn = p.rrn /\ node.leaf = p.leaf
  <2>1. p \in NodeOf(Keys, Nat) /\ Shaped(p) /\ ~Full(p) /\ promo \in Keys
    BY <1>4
  <2>2. p.leaf \/ NoRrn \in Nat
    BY <1>4
  <2> QED
    BY <1>6, <2>1, <2>2, TakesKey
<1>9. /\ StoreTypes' /\ Shapes' /\ Numbers' /\ Kept' /\ MemorySafe'
      /\ Benign' => Stored'
  <2>1. {} \in SUBSET {"rebalanced"}
    OBVIOUS
  <2>2. node.leaf
    BY <1>4, <1>8
  <2> QED
    BY <1>2, <1>4, <1>7, <1>8, <2>1, <2>2, RewriteOne DEF p
<1> QED
  BY <1>1, <1>9, AfterReturningCode

-----------------------------------------------------------------------------
(* A new node gets an rrn no live node has.                                *)
LEMMA NewNodeAdds ==
  ASSUME IInv, RrnIsFresh, Unused # {}, NEW h \in [Nodes -> NodeOf(Keys, Nat)],
         h[NewNode].rrn = NextRrn, \A x \in alive : h[x].rrn = heap[x].rrn
  PROVE  /\ alive \cup {NewNode} \in SUBSET Nodes
         /\ (alive \cup {NewNode}) \ {NewNode} = alive
         /\ \A x \in alive \cup {NewNode} : h[x].rrn \in Nat
         /\ Distinct(h, alive \cup {NewNode}) /\ Distinct(h, alive)
<1>1. StoreTypes /\ Numbers
  BY DEF IInv
<1>2. NewNode \in Nodes /\ NewNode \notin alive
  BY <1>1, NewNodeProps
<1>3. NextRrn \in Nat
  BY <1>1, NextRrnProps
<1>4. \A x \in alive : h[x].rrn \in Nat /\ h[x].rrn # NextRrn
  BY <1>1 DEF Numbers, RrnIsFresh
<1>5. Distinct(h, alive)
  BY <1>1 DEF Numbers, Distinct
<1>6. Distinct(h, alive \cup {NewNode})
  BY <1>4, <1>5 DEF Distinct
<1> QED
  BY <1>1, <1>2, <1>3, <1>4, <1>5, <1>6 DEF StoreTypes

(* The new roots that insertion makes. *)
RootLeaf(rrn, key)       == [Blank EXCEPT !.rrn = rrn, !.keys = <<key>>]
RootNode(rrn, key, a, b) == [Blank EXCEPT !.rrn = rrn, !.leaf = FALSE, !.keys = <<key>>,
                                          !.children = <<a, b>>]

MadeNode(rrn, leaf, ks, cs) ==
  [rrn |-> rrn, leaf |-> leaf, keys |-> ks, children |-> cs, next_leaf |-> NoRrn]

LEMMA NodeMade ==
  ASSUME NEW C, NEW rrn \in Nat, NEW leaf \in BOOLEAN, NEW ks \in Seq(Keys), NEW cs \in Seq(C),
         Len(ks) = 1, Len(cs) = IF leaf THEN 0 ELSE 2,
         NEW u, u = MadeNode(rrn, leaf, ks, cs)
  PROVE  u \in NodeOf(Keys, C) /\ Shaped(u) /\ u.rrn = rrn /\ u.leaf = leaf
<1>1. /\ u.rrn = rrn /\ u.leaf = leaf /\ u.keys = ks /\ u.children = cs
      /\ u \in NodeOf(Keys, C)
  BY DEF MadeNode, NodeOf
<1>2. Len(u.keys) = 1 /\ Len(u.children) = (IF u.leaf THEN 0 ELSE 2)
  BY <1>1
<1>3. 1 <= Order - 1
  BY HalfBounds
<1>4. Shaped(u)
  BY <1>2, <1>3 DEF Shaped
<1> QED
  BY <1>1, <1>4

LEMMA RootLeafProps ==
  ASSUME NEW key \in Keys, NEW rrn \in Nat, NEW u, u = RootLeaf(rrn, key)
  PROVE  u \in NodeOf(Keys, Nat) /\ Shaped(u) /\ u.rrn = rrn /\ u.leaf
<1>1. PICK ks \in Seq(Keys) : ks = <<key>> /\ Len(ks) = 1
  <2>1. <<key>> \in Seq(Keys) /\ Len(<<key>>) = 1
    OBVIOUS
  <2> QED
    BY <2>1
<1>2. PICK cs \in Seq(Nat) : cs = <<>> /\ Len(cs) = 0
  <2>1. <<>> \in Seq(Nat) /\ Len(<<>>) = 0
    OBVIOUS
  <2> QED
    BY <2>1
<1>3. u = MadeNode(rrn, TRUE, ks, cs)
  <2>1. u = MadeNode(rrn, TRUE, <<key>>, <<>>)
    BY DEF Blank, RootLeaf, MadeNode
  <2> QED
    BY <1>1, <1>2, <2>1
<1>4. PICK leaf \in BOOLEAN : leaf = TRUE
  OBVIOUS
<1>5. Len(ks) = 1 /\ Len(cs) = (IF leaf THEN 0 ELSE 2) /\ u = MadeNode(rrn, leaf, ks, cs)
  BY <1>1, <1>2, <1>3, <1>4
<1>6. u \in NodeOf(Keys, Nat) /\ Shaped(u) /\ u.rrn = rrn /\ u.leaf = leaf
  BY <1>5, NodeMade
<1> QED
  BY <1>4, <1>6

LEMMA RootNodeProps ==
  ASSUME NEW C, NEW key \in Keys, NEW rrn \in Nat, NEW a \in C, NEW b \in C,
         NEW u, u = RootNode(rrn, key, a, b)
  PROVE  u \in NodeOf(Keys, C) /\ Shaped(u) /\ u.rrn = rrn
<1>1. PICK ks \in Seq(Keys) : ks = <<key>> /\ Len(ks) = 1
  <2>1. <<key>> \in Seq(Keys) /\ Len(<<key>>) = 1
    OBVIOUS
  <2> QED
    BY <2>1
<1>2. PICK cs \in Seq(C) : cs = <<a, b>> /\ Len(cs) = 2
  <2>1. <<a, b>> \in Seq(C) /\ Len(<<a, b>>) = 2
    OBVIOUS
  <2> QED
    BY <2>1
<1>3. u = MadeNode(rrn, FALSE, ks, cs)
  <2>1. u = MadeNode(rrn, FALSE, <<key>>, <<a, b>>)
    BY DEF Blank, RootNode, MadeNode
  <2> QED
    BY <1>1, <1>2, <2>1
<1>4. PICK leaf \in BOOLEAN : leaf = FALSE
  OBVIOUS
<1>5. Len(ks) = 1 /\ Len(cs) = (IF leaf THEN 0 ELSE 2) /\ u = MadeNode(rrn, leaf, ks, cs)
  BY <1>1, <1>2, <1>3, <1>4
<1> QED
  BY <1>5, NodeMade

LEMMA FirstRootStep == ASSUME IInv, FirstRoot PROVE IInv'
<1> DEFINE u == RootLeaf(NextRrn, promo)
           h == [heap EXCEPT ![NewNode] = u]
           live == alive \cup {NewNode}
<1>1. PICK m \in Successes(1) : Write(h, live, <<NewNode>>, m, {})
                                /\ Return(IF m = 1 THEN "ok" ELSE "io")
  BY DEF FirstRoot, RootLeaf
<1>2. /\ status = "running" /\ pc = "first" /\ RrnIsFresh /\ Unused # {}
      /\ status' = status /\ setup' = setup /\ root' = NewNode /\ free_rrn' = RestRrn
  BY DEF FirstRoot, CanAllocate
<1>3. StoreTypes /\ Shapes /\ Control /\ Numbers /\ Kept
  BY DEF IInv
<1>4. promo \in Keys /\ root = NoNode
  BY <1>2, <1>3 DEF Control
<1>5. NextRrn \in Nat /\ RestRrn \in Seq(Nat) /\ NewNode \in Nodes /\ NewNode \notin alive
  BY <1>2, <1>3, NextRrnProps, NewNodeProps
<1>6. PICK node : node = u
  OBVIOUS
<1>7. node \in NodeOf(Keys, Nat) /\ Shaped(node) /\ node.rrn = NextRrn /\ node.leaf
  BY <1>4, <1>5, <1>6, RootLeafProps
<1> HIDE DEF u
<1>8. /\ h \in [Nodes -> NodeOf(Keys, Nat)] /\ h[NewNode] = node
      /\ \A x \in Nodes : x # NewNode => h[x] = heap[x]
  BY <1>3, <1>5, <1>6, <1>7 DEF StoreTypes
<1>9. (\A x \in Nodes : Shaped(h[x])) /\ (\A x \in alive : h[x] = heap[x])
  BY <1>3, <1>5, <1>7, <1>8 DEF Shapes, StoreTypes
<1> HIDE DEF h
<1>10. /\ live \in SUBSET Nodes /\ Distinct(h, live)
       /\ \A x \in live : h[x].rrn \in Nat
  BY <1>2, <1>7, <1>8, <1>9, NewNodeAdds
<1> DEFINE W == IF m = 1 THEN {NewNode} ELSE {}
           new == {} \cup (IF m = 1 THEN {} ELSE {"io"})
           kept == IF m = 1 THEN live ELSE live \ {}
<1>11. m \in {0, 1} /\ Outcome(h, kept, W, new)
  <2>1. WriteAs(h, live, <<NewNode>>, m, {}, {}) /\ NewNode \in live
    BY <1>1 DEF Write
  <2> QED
    BY <1>3, <1>10, <2>1, WriteOne
<1>12. kept = live /\ W \in SUBSET live /\ new \in SUBSET {"io", "rebalanced"}
       /\ alive \subseteq live /\ root' \in live
  BY <1>2
<1>13. live \subseteq ToSet(cache) \cup W \cup {root'} /\ alive \subseteq ToSet(cache)
  <2>1. NoNode \notin alive
    <3>1. NoNode \notin Nodes
      BY DEF Nodes, NoNode
    <3> QED
      BY <1>3, <3>1 DEF StoreTypes
  <2>2. alive \subseteq ToSet(cache)
    BY <1>3, <1>4, <2>1 DEF Kept
  <2> QED
    BY <1>2, <2>2
<1>14. ASSUME Benign', Stored
       PROVE  /\ root' \in live \cup {NoNode}
              /\ live \subseteq ToSet(cache) \cup W \cup (IF "io" \in faults' THEN {root'} ELSE {})
              /\ \A x \in live : \/ x \in alive /\ h[x] = heap[x]
                                 \/ h[x].leaf
                                 \/ \E leaf \in BOOLEAN :
                                      h[x] \in NodeOf(Keys, RrnsIn(heap, cache, leaf))
  <2>1. m # 1 => "io" \in faults'
    BY <1>11 DEF Outcome
  <2>2. alive \subseteq ToSet(cache)
    BY <1>13
  <2>3. \A x \in live : x = NewNode \/ x \in alive
    OBVIOUS
  <2> QED
    BY <1>2, <1>7, <1>8, <1>9, <2>1, <2>2, <2>3
<1>15. Outcome(h, live, W, new)
  BY <1>11, <1>12
<1>16. \A x \in alive : h[x].rrn = heap[x].rrn /\ h[x].leaf = heap[x].leaf
  BY <1>9
<1>17. root' \in Nodes \cup {NoNode} /\ free_rrn' \in Seq(Nat)
       /\ status' \in {"running", "exited"}
  BY <1>2, <1>5
<1> HIDE DEF W, new, kept, live
<1>18. /\ StoreTypes' /\ Shapes' /\ Numbers' /\ Kept' /\ MemorySafe'
       /\ Benign' => Stored'
  BY <1>2, <1>8, <1>9, <1>10, <1>12, <1>13, <1>14, <1>15, <1>16, <1>17, AfterWriting
<1> QED
  BY <1>1, <1>18, AfterReturningCode

LEMMA NewRootStep == ASSUME IInv, NewRoot PROVE IInv'
<1> DEFINE a == heap[root].rrn
           b == heap[r_child].rrn
           u == RootNode(NextRrn, promo, a, b)
           h == [heap EXCEPT ![NewNode] = u]
           live == alive \cup {NewNode}
<1>1. PICK m \in Successes(1) :
        /\ Write(h, live, <<NewNode>>, m, {NewNode})
        /\ Return(IF m = 1 THEN "ok" ELSE "io")
        /\ root' = IF m = 1 THEN NewNode ELSE root
        /\ status' = IF m = 1 THEN status ELSE "exited"
  BY DEF NewRoot, RootNode
<1>2. /\ status = "running" /\ pc = "newroot" /\ curr \in alive /\ r_child \in alive
      /\ RrnIsFresh /\ Unused # {} /\ setup' = setup /\ free_rrn' = RestRrn
  BY DEF NewRoot, CanAllocate, At
<1>3. StoreTypes /\ Shapes /\ Control /\ Numbers /\ Kept
  BY DEF IInv
<1>4. promo \in Keys /\ curr = root /\ root \in ToSet(cache) /\ root \in alive
  BY <1>2, <1>3 DEF Control
<1>5. /\ NextRrn \in Nat /\ RestRrn \in Seq(Nat) /\ NewNode \in Nodes /\ NewNode \notin alive
      /\ a \in Nat /\ b \in Nat
  BY <1>2, <1>3, <1>4, NextRrnProps, NewNodeProps DEF Numbers
<1>6. PICK node : node = u
  OBVIOUS
<1> HIDE DEF a, b
<1>7. node \in NodeOf(Keys, Nat) /\ Shaped(node) /\ node.rrn = NextRrn
  <2>1. promo \in Keys
    BY <1>4
  <2>2. NextRrn \in Nat /\ a \in Nat /\ b \in Nat
    BY <1>5
  <2>3. node = RootNode(NextRrn, promo, a, b)
    BY <1>6
  <2> HIDE DEF u
  <2>4. PICK C : C = Nat
    OBVIOUS
  <2>5. NextRrn \in Nat /\ a \in C /\ b \in C
    BY <2>2, <2>4
  <2> HIDE DEF h, live
  <2>6. PICK rrn \in Nat, x \in C, y \in C, key \in Keys : rrn = NextRrn /\ x = a /\ y = b /\ key = promo
    BY <2>1, <2>5
  <2>7. node = RootNode(rrn, key, x, y)
    BY <2>3, <2>6
  <2>8. node \in NodeOf(Keys, C) /\ Shaped(node) /\ node.rrn = rrn
    BY <2>6, <2>7, RootNodeProps
  <2> QED
    BY <2>4, <2>6, <2>8
<1>8. /\ h \in [Nodes -> NodeOf(Keys, Nat)] /\ h[NewNode] = node
      /\ \A x \in Nodes : x # NewNode => h[x] = heap[x]
  <2> HIDE DEF u
  <2> QED
    BY <1>3, <1>5, <1>6, <1>7 DEF StoreTypes
<1>9. (\A x \in Nodes : Shaped(h[x])) /\ (\A x \in alive : h[x] = heap[x])
  BY <1>3, <1>5, <1>7, <1>8 DEF Shapes, StoreTypes
<1> HIDE DEF h
<1>10. /\ live \in SUBSET Nodes /\ live \ {NewNode} = alive
       /\ Distinct(h, live) /\ Distinct(h, alive)
       /\ \A x \in live : h[x].rrn \in Nat
  BY <1>2, <1>7, <1>8, <1>9, NewNodeAdds
<1> DEFINE W == IF m = 1 THEN {NewNode} ELSE {}
           new == {} \cup (IF m = 1 THEN {} ELSE {"io"})
           kept == IF m = 1 THEN live ELSE live \ {NewNode}
<1>11. m \in {0, 1} /\ Outcome(h, kept, W, new)
  <2>1. WriteAs(h, live, <<NewNode>>, m, {NewNode}, {}) /\ NewNode \in live
    BY <1>1 DEF Write
  <2> QED
    BY <1>3, <1>10, <2>1, WriteOne
<1>12. /\ kept \in SUBSET Nodes /\ W \in SUBSET kept /\ new \in SUBSET {"io", "rebalanced"}
       /\ alive \subseteq kept /\ kept \subseteq live /\ (kept = alive \/ NewNode \in W)
       /\ root' \in kept
  BY <1>1, <1>4, <1>10
<1>13. kept \subseteq ToSet(cache) \cup W \cup {root'} /\ alive \subseteq ToSet(cache)
       /\ kept \subseteq ToSet(cache) \cup W
  <2>1. alive \subseteq ToSet(cache)
    BY <1>3, <1>4 DEF Kept
  <2> QED
    BY <1>12, <2>1
<1>14. (\A x \in kept : h[x].rrn \in Nat) /\ Distinct(h, kept)
  BY <1>10, <1>12 DEF Distinct
<1>15. ASSUME Stored, Called
       PROVE  \A x \in kept : \/ x \in alive /\ h[x] = heap[x]
                              \/ h[x].leaf
                              \/ \E leaf \in BOOLEAN :
                                   h[x] \in NodeOf(Keys, RrnsIn(heap, cache, leaf))
  <2>1. r_child \in ToSet(cache) /\ heap[r_child].leaf = heap[root].leaf
    <3>1. r_child # NoNode
      BY <1>2, <1>3 DEF Control
    <3> QED
      BY <1>2, <1>4, <1>15, <3>1 DEF Called
  <2>2. PICK leaf \in BOOLEAN : leaf = heap[root].leaf
    BY <1>3, <1>4 DEF StoreTypes, NodeOf
  <2>3. a \in RrnsIn(heap, cache, leaf) /\ b \in RrnsIn(heap, cache, leaf)
    BY <1>4, <2>1, <2>2 DEF RrnsIn, a, b
  <2>4. node \in NodeOf(Keys, RrnsIn(heap, cache, leaf))
    BY <1>4, <1>5, <1>6, <2>3, RootNodeProps
  <2>5. \A x \in kept : x \in alive \/ x = NewNode
    BY <1>12
  <2> QED
    BY <1>8, <1>9, <2>4, <2>5
<1>16. \A x \in alive : h[x].rrn = heap[x].rrn /\ h[x].leaf = heap[x].leaf
  BY <1>9
<1>17. root' \in Nodes \cup {NoNode} /\ free_rrn' \in Seq(Nat)
       /\ status' \in {"running", "exited"}
  BY <1>1, <1>2, <1>3, <1>5 DEF StoreTypes
<1> HIDE DEF W, new, kept, live
<1>18. kept \subseteq ToSet(cache) \cup W \cup (IF "io" \in faults' THEN {root'} ELSE {})
       /\ root' \in kept \cup {NoNode}
  BY <1>12, <1>13
<1>19. /\ StoreTypes' /\ Shapes' /\ Numbers' /\ Kept' /\ MemorySafe'
       /\ Benign' => Stored'
  BY <1>2, <1>8, <1>9, <1>11, <1>12, <1>13, <1>14, <1>15, <1>16, <1>17, <1>18, AfterWriting
<1> QED
  BY <1>1, <1>19, AfterReturningCode

-----------------------------------------------------------------------------
(* The two halves of the node that is split.                               *)
LEMMA SplitNodes ==
  ASSUME IInv, pc = "split", curr \in alive, RrnIsFresh, Unused # {},
         NEW u, u = LeftHalf(heap[curr], promo, ChildRrn, NextRrn),
         NEW v, v = RightHalf(heap[curr], promo, ChildRrn, NextRrn)
  PROVE  /\ u \in NodeOf(Keys, Nat) /\ Shaped(u) /\ u.rrn = heap[curr].rrn
         /\ v \in NodeOf(Keys, Nat) /\ Shaped(v) /\ v.rrn = NextRrn
         /\ u.leaf = heap[curr].leaf /\ v.leaf = heap[curr].leaf
         /\ Promoted(heap[curr], promo) \in Keys
         /\ Stored /\ Called =>
              \/ heap[curr].leaf
              \/ \E leaf \in BOOLEAN :
                   u \in NodeOf(Keys, RrnsIn(heap, cache, leaf))
                     /\ v \in NodeOf(Keys, RrnsIn(heap, cache, leaf))
<1> DEFINE p == heap[curr]
<1>1. StoreTypes /\ CallTypes /\ Shapes /\ Control
  BY DEF IInv
<1>2. curr \in Nodes /\ NextRrn \in Nat
  BY <1>1, NextRrnProps DEF StoreTypes
<1>3. /\ p \in NodeOf(Keys, Nat) /\ Shaped(p) /\ Full(p) /\ promo \in Keys
      /\ p.leaf <=> r_child = NoNode
  BY <1>1, <1>2 DEF StoreTypes, Shapes, Control
<1> HIDE DEF p
<1>4. PICK key \in Keys, rrn \in Nat, r \in {ChildRrn} : key = promo /\ rrn = NextRrn
  BY <1>2, <1>3
<1>5. u = LeftHalf(p, key, r, rrn) /\ v = RightHalf(p, key, r, rrn)
  BY <1>4 DEF p
<1>6. ASSUME NEW C, p \in NodeOf(Keys, C), p.leaf \/ r \in C
      PROVE  /\ u \in NodeOf(Keys, C) /\ Shaped(u) /\ u.rrn = p.rrn /\ u.leaf = p.leaf
             /\ v \in NodeOf(Keys, C) /\ Shaped(v) /\ v.rrn = rrn /\ v.leaf = p.leaf
             /\ Promoted(p, key) \in Keys
  <2>1. Shaped(p) /\ Full(p)
    BY <1>3
  <2> QED
    BY <1>5, <1>6, <2>1, SplitProps
<1>7. PICK C : C = Nat
  OBVIOUS
<1>8. p.leaf \/ r \in C
  <2>1. r_child # NoNode => heap[r_child].rrn \in Nat
    BY <1>1 DEF Control
  <2> QED
    BY <1>3, <1>4, <1>7, <2>1 DEF ChildRrn
<1>9. p \in NodeOf(Keys, C)
  BY <1>3, <1>7
<1>10. /\ u \in NodeOf(Keys, C) /\ Shaped(u) /\ u.rrn = p.rrn /\ u.leaf = p.leaf
       /\ v \in NodeOf(Keys, C) /\ Shaped(v) /\ v.rrn = rrn /\ v.leaf = p.leaf
       /\ Promoted(p, key) \in Keys
  BY <1>6, <1>8, <1>9
<1>11. ASSUME Stored, Called, ~p.leaf
       PROVE  \E leaf \in BOOLEAN :
                u \in NodeOf(Keys, RrnsIn(heap, cache, leaf))
                  /\ v \in NodeOf(Keys, RrnsIn(heap, cache, leaf))
  <2>1. r_child \in ToSet(cache) /\ r_child \in Nodes /\ Fits(curr, heap[r_child].leaf)
    BY <1>1, <1>3, <1>11 DEF Called, CallTypes
  <2>2. PICK leaf \in BOOLEAN : leaf = heap[r_child].leaf
    BY <1>1, <2>1 DEF StoreTypes, NodeOf
  <2>3. p \in NodeOf(Keys, RrnsIn(heap, cache, leaf))
    BY <2>1, <2>2 DEF Fits, FitsIn, p
  <2>4. p.leaf \/ r \in RrnsIn(heap, cache, leaf)
    BY <1>3, <1>4, <1>11, <2>1, <2>2 DEF ChildRrn, RrnsIn
  <2> QED
    BY <1>6, <2>3, <2>4
<1> QED
  BY <1>4, <1>7, <1>10, <1>11 DEF p

(* A frame is of a node and a position.                                    *)
LEMMA FrameTyped ==
  ASSUME CallTypes
  PROVE  \A i \in DOMAIN path : path[i].node \in Nodes /\ path[i].pos \in 0 .. Order - 1
<1> DEFINE F == [node : Nodes, pos : 0 .. Order - 1]
<1>1. \A f \in F : f.node \in Nodes /\ f.pos \in 0 .. Order - 1
  OBVIOUS
<1>2. path \in Seq(F)
  BY DEF CallTypes
<1> HIDE DEF F
<1>3. \A i \in DOMAIN path : path[i] \in F
  BY <1>2
<1> QED
  BY <1>1, <1>3

LEMMA SplitStep == ASSUME IInv, Split PROVE IInv'
<1> DEFINE a == LeftHalf(heap[curr], promo, ChildRrn, NextRrn)
           b == RightHalf(heap[curr], promo, ChildRrn, NextRrn)
           h == [heap EXCEPT ![curr] = a, ![NewNode] = b]
           live == alive \cup {NewNode}
<1>1. PICK m \in Successes(2) :
        /\ Write(h, live, <<curr, NewNode>>, m, {NewNode})
        /\ \/ /\ m = 2
              /\ promo'   = Promoted(heap[curr], promo)
              /\ r_child' = NewNode
              /\ pc' = IF path = <<>> THEN "newroot" ELSE "ascend"
              /\ UNCHANGED <<op, curr, path, seen, answer>>
           \/ m < 2 /\ Return("io")
  BY DEF Split
<1>2. /\ status = "running" /\ pc = "split" /\ curr \in alive
      /\ RrnIsFresh /\ Unused # {} /\ setup' = setup /\ free_rrn' = RestRrn
      /\ root' = root /\ status' = status
  BY DEF Split, CanAllocate, At
<1>3. StoreTypes /\ CallTypes /\ Shapes /\ Control /\ Numbers /\ Kept /\ Frames
  BY DEF IInv
<1>4. /\ NextRrn \in Nat /\ RestRrn \in Seq(Nat) /\ NewNode \in Nodes /\ NewNode \notin alive
      /\ heap[NewNode] = Blank /\ curr \in Nodes /\ NewNode # curr
  BY <1>2, <1>3, NextRrnProps, NewNodeProps DEF StoreTypes
<1>5. PICK u, v : u = a /\ v = b
  OBVIOUS
<1>6. /\ u \in NodeOf(Keys, Nat) /\ Shaped(u) /\ u.rrn = heap[curr].rrn
      /\ v \in NodeOf(Keys, Nat) /\ Shaped(v) /\ v.rrn = NextRrn
      /\ u.leaf = heap[curr].leaf /\ v.leaf = heap[curr].leaf
      /\ Promoted(heap[curr], promo) \in Keys
      /\ Stored /\ Called =>
           \/ heap[curr].leaf
           \/ \E leaf \in BOOLEAN :
                u \in NodeOf(Keys, RrnsIn(heap, cache, leaf))
                  /\ v \in NodeOf(Keys, RrnsIn(heap, cache, leaf))
  BY <1>2, <1>5, SplitNodes
<1> HIDE DEF a, b
<1>7. /\ h \in [Nodes -> NodeOf(Keys, Nat)] /\ h[curr] = u /\ h[NewNode] = v
      /\ \A x \in Nodes : x # NewNode /\ x # curr => h[x] = heap[x]
  BY <1>3, <1>4, <1>5, <1>6 DEF StoreTypes
<1> HIDE DEF h
<1>8. /\ \A x \in Nodes : Shaped(h[x])
      /\ \A x \in alive : h[x].rrn = heap[x].rrn /\ h[x].leaf = heap[x].leaf
  BY <1>3, <1>4, <1>6, <1>7 DEF Shapes, StoreTypes
<1>9. /\ live \in SUBSET Nodes /\ live \ {NewNode} = alive
      /\ Distinct(h, live) /\ Distinct(h, alive)
      /\ \A x \in live : h[x].rrn \in Nat
  BY <1>2, <1>6, <1>7, <1>8, NewNodeAdds
<1> DEFINE new == {} \cup (IF m = 2 THEN {} ELSE {"io"})
           kept == IF m = 2 THEN live ELSE live \ {NewNode}
           W == Firsts(curr, NewNode, m)
<1>10. m \in {0, 1, 2} /\ Outcome(h, kept, W, new)
  <2>1. WriteAs(h, live, <<curr, NewNode>>, m, {NewNode}, {}) /\ NewNode \in live /\ curr \in live
    BY <1>1, <1>2 DEF Write
  <2> QED
    BY <1>3, <1>9, <2>1, WriteTwo
<1>11. /\ kept \in SUBSET Nodes /\ W \in SUBSET kept /\ new \in SUBSET {"io", "rebalanced"}
       /\ alive \subseteq kept /\ kept \subseteq live /\ (kept = alive \/ NewNode \in W)
       /\ m = 2 => kept = live /\ W = {curr, NewNode}
  BY <1>2, <1>9, <1>10 DEF Firsts
<1>12. kept \subseteq ToSet(cache) \cup W \cup {root'}
  BY <1>2, <1>3, <1>11 DEF Kept
<1>13. (\A x \in kept : h[x].rrn \in Nat) /\ Distinct(h, kept)
  BY <1>9, <1>11 DEF Distinct
<1>14. ASSUME Benign', Stored, Called
       PROVE  /\ root' \in kept \cup {NoNode}
              /\ kept \subseteq ToSet(cache) \cup W \cup (IF "io" \in faults' THEN {root'} ELSE {})
              /\ \A x \in kept : \/ x \in alive /\ h[x] = heap[x]
                                 \/ h[x].leaf
                                 \/ \E leaf \in BOOLEAN :
                                      h[x] \in NodeOf(Keys, RrnsIn(heap, cache, leaf))
  <2>1. faults \subseteq faults'
    BY <1>10 DEF Outcome
  <2>2. root' \in kept \cup {NoNode}
    BY <1>2, <1>11, <1>14 DEF Stored
  <2>3. kept \subseteq ToSet(cache) \cup W \cup (IF "io" \in faults' THEN {root'} ELSE {})
    BY <1>2, <1>11, <1>14, <2>1 DEF Stored
  <2>4. \A x \in kept : x = NewNode \/ x = curr \/ (x \in alive /\ h[x] = heap[x])
    BY <1>7, <1>11
  <2> QED
    BY <1>6, <1>7, <1>14, <2>2, <2>3, <2>4
<1>15. root' \in Nodes \cup {NoNode} /\ free_rrn' \in Seq(Nat)
       /\ status' \in {"running", "exited"}
  BY <1>2, <1>3, <1>4 DEF StoreTypes
<1> HIDE DEF new, kept, live, W
<1>16. /\ StoreTypes' /\ Shapes' /\ Numbers' /\ Kept' /\ MemorySafe'
       /\ Benign' => /\ Stored /\ Called /\ Stored'
                     /\ alive' = kept /\ ToSet(cache') = ToSet(cache) \cup W
                     /\ \A leaf : NodeOf(Keys, RrnsIn(heap, cache, leaf))
                                    \subseteq NodeOf(Keys, RrnsIn(heap', cache', leaf))
  BY <1>2, <1>7, <1>8, <1>10, <1>11, <1>12, <1>13, <1>14, <1>15, AfterWriting
<1>17. CASE m < 2 /\ Return("io")
  BY <1>16, <1>17, AfterReturningCode
<1>18. CASE /\ m = 2
            /\ promo'   = Promoted(heap[curr], promo)
            /\ r_child' = NewNode
            /\ pc' = IF path = <<>> THEN "newroot" ELSE "ascend"
            /\ UNCHANGED <<op, curr, path, seen, answer>>
  <2>1. W = {curr, NewNode} /\ kept = alive \cup {NewNode} /\ heap' = h
    BY <1>10, <1>11, <1>18 DEF live, Outcome
  <2>2. \A n \in alive' : n \in W => n \in ToSet(cache')
    BY <1>10 DEF Outcome
  <2>3. NewNode # NoNode
    BY <1>4 DEF Nodes, NoNode
  <2>4. /\ op' = op /\ curr' = curr /\ path' = path /\ seen' = seen /\ answer' = answer
        /\ r_child' = NewNode /\ promo' \in Keys
        /\ pc' = IF path = <<>> THEN "newroot" ELSE "ascend"
    BY <1>6, <1>18
  <2>5. CallTypes'
    BY <1>3, <1>4, <2>4 DEF CallTypes
  <2>6. root = (IF path = <<>> THEN curr ELSE path[1].node)
    BY <1>2, <1>3 DEF Frames
  <2>7. Control'
    <3>1. curr # NoNode /\ op # NoOp
      BY <1>2, <1>3 DEF Control
    <3>2. h[NewNode].rrn \in Nat
      BY <1>4, <1>6, <1>7
    <3> QED
      BY <1>2, <2>1, <2>2, <2>3, <2>4, <2>6, <3>1, <3>2 DEF Control
  <2>8. \A i \in DOMAIN path : /\ path[i].node \in Nodes /\ path[i].node # curr
                               /\ path[i].node # NewNode
                               /\ h[path[i].node] = heap[path[i].node]
    <3>1. ASSUME NEW i \in DOMAIN path
          PROVE  /\ path[i].node \in Nodes /\ path[i].node # curr
                 /\ ~heap[path[i].node].leaf
      <4>1. path[i].node \in Nodes
        BY <1>3, <3>1, FrameTyped
      <4>3. path[i].node # curr /\ ~heap[path[i].node].leaf
        BY <1>2, <1>3, <3>1 DEF Frames
      <4> QED
        BY <4>1, <4>3
    <3>2. heap[NewNode].leaf
      BY <1>4 DEF Blank
    <3>3. \A i \in DOMAIN path : path[i].node # NewNode
      BY <3>1, <3>2
    <3> QED
      BY <1>7, <3>1, <3>3
  <2>9. Frames'
    <3>1. \A i \in DOMAIN path :
            ~heap[path[i].node].leaf /\ path[i].pos <= Len(heap[path[i].node].keys)
      BY <1>3 DEF Frames
    <3>2. \A i, j \in DOMAIN path : i # j => path[i].node # path[j].node
      BY <1>2, <1>3 DEF Frames
    <3> QED
      BY <1>2, <2>1, <2>4, <2>6, <2>8, <3>1, <3>2 DEF Frames
  <2>10. ASSUME Benign' PROVE Called'
    <3>1. /\ Stored /\ Called /\ alive' = alive \cup {NewNode}
          /\ ToSet(cache') = ToSet(cache) \cup {curr, NewNode}
          /\ \A leaf : NodeOf(Keys, RrnsIn(heap, cache, leaf))
                         \subseteq NodeOf(Keys, RrnsIn(heap', cache', leaf))
      BY <1>16, <2>1, <2>10
    <3>2. \A i \in DOMAIN path :
            /\ path[i].node \in alive'
            /\ Fits(path[i].node, IF i = Len(path) THEN heap[curr].leaf ELSE FALSE)
      BY <1>2, <3>1 DEF Called
    <3>3. \A i \in DOMAIN path : \A leaf :
            Fits(path[i].node, leaf) => FitsIn(heap', cache', path[i].node, leaf)
      BY <2>1, <2>8, <3>1 DEF Fits, FitsIn
    <3>4. heap'[curr].leaf = heap[curr].leaf /\ heap'[NewNode].leaf = heap[curr].leaf
      BY <1>6, <1>7, <2>1
    <3>5. curr \in alive'
      BY <1>2, <3>1
    <3>6. pc' = "newroot" => root' = curr
      BY <1>2, <2>4, <2>6
    <3> QED
      BY <2>4, <3>1, <3>2, <3>3, <3>4, <3>5, <3>6 DEF Called, Fits
  <2> QED
    BY <1>16, <2>5, <2>7, <2>9, <2>10 DEF IInv, Whole
<1> QED
  BY <1>1, <1>17, <1>18

-----------------------------------------------------------------------------
(* The frame above, when the node has split.                               *)
LEMMA FrameAbove ==
  ASSUME IInv, pc = "ascend", NEW parent, parent = Last(path).node
  PROVE  /\ path # <<>> /\ Len(path) \in Nat \ {0} /\ DOMAIN path = 1 .. Len(path)
         /\ Last(path) = path[Len(path)] /\ parent = path[Len(path)].node
         /\ parent \in Nodes /\ heap[parent].leaf = FALSE
         /\ Last(path).pos \in 0 .. Len(heap[parent].keys)
         /\ promo \in Keys /\ r_child \in Nodes /\ r_child # NoNode /\ ChildRrn \in Nat
         /\ ChildRrn = heap[r_child].rrn
         /\ Stored /\ Called =>
              \E leaf \in BOOLEAN : /\ Fits(parent, leaf) /\ leaf = heap[r_child].leaf
                                    /\ ChildRrn \in RrnsIn(heap, cache, leaf)
<1>1. StoreTypes /\ CallTypes /\ Control /\ Frames
  BY DEF IInv
<1>2. path # <<>> /\ Len(path) \in Nat \ {0} /\ DOMAIN path = 1 .. Len(path)
      /\ Last(path) = path[Len(path)]
  <2>1. path \in Seq([node : Nodes, pos : 0 .. Order - 1]) /\ path # <<>>
    BY <1>1 DEF CallTypes, Frames
  <2>2. Len(path) \in Nat \ {0} /\ DOMAIN path = 1 .. Len(path)
    BY <2>1
  <2>3. Last(path) = path[Len(path)]
    BY <2>1, EndProps
  <2> QED
    BY <2>1, <2>2, <2>3
<1>3. PICK n \in DOMAIN path : n = Len(path)
  BY <1>2
<1>4. parent \in Nodes /\ path[n].pos \in 0 .. Order - 1 /\ parent = path[n].node
      /\ Last(path) = path[n]
  BY <1>1, <1>2, <1>3, FrameTyped
<1>5. ~heap[parent].leaf /\ path[n].pos <= Len(heap[parent].keys)
  BY <1>1, <1>4 DEF Frames
<1>6. heap[parent] \in NodeOf(Keys, Nat)
  BY <1>1, <1>4 DEF StoreTypes
<1>7. heap[parent].leaf = FALSE /\ Len(heap[parent].keys) \in Nat
  BY <1>5, <1>6 DEF NodeOf
<1>8. path[n].pos \in 0 .. Len(heap[parent].keys)
  BY <1>4, <1>5, <1>7, HalfBounds
<1>9. /\ promo \in Keys /\ r_child \in Nodes /\ r_child # NoNode /\ ChildRrn \in Nat
      /\ ChildRrn = heap[r_child].rrn
  BY <1>1 DEF Control, CallTypes, ChildRrn
<1>10. ASSUME Stored, Called
       PROVE  \E leaf \in BOOLEAN : /\ Fits(parent, leaf) /\ leaf = heap[r_child].leaf
                                    /\ ChildRrn \in RrnsIn(heap, cache, leaf)
  <2>1. /\ r_child \in ToSet(cache) /\ Fits(path[n].node, heap[curr].leaf)
        /\ heap[r_child].leaf = heap[curr].leaf
    BY <1>3, <1>9, <1>10 DEF Called
  <2>2. PICK leaf \in BOOLEAN : leaf = heap[r_child].leaf
    BY <1>1, <1>9 DEF StoreTypes, NodeOf
  <2>3. ChildRrn \in RrnsIn(heap, cache, leaf)
    BY <1>9, <2>1, <2>2 DEF RrnsIn
  <2> QED
    BY <1>4, <2>1, <2>2, <2>3
<1> QED
  BY <1>2, <1>3, <1>4, <1>7, <1>8, <1>9, <1>10

LEMMA AscendStep == ASSUME IInv, Ascend PROVE IInv'
<1> DEFINE above == Last(path).node
<1>1. PICK parent : parent = above
  OBVIOUS
<1>2. /\ status = "running" /\ pc = "ascend" /\ curr \in alive
      /\ parent \in alive /\ r_child \in alive
      /\ root' = root /\ status' = status /\ setup' = setup /\ free_rrn' = free_rrn
  BY <1>1 DEF Ascend, At
<1>3. /\ path # <<>> /\ Len(path) \in Nat \ {0} /\ DOMAIN path = 1 .. Len(path)
      /\ Last(path) = path[Len(path)] /\ parent = path[Len(path)].node
      /\ parent \in Nodes /\ heap[parent].leaf = FALSE
      /\ Last(path).pos \in 0 .. Len(heap[parent].keys)
      /\ promo \in Keys /\ r_child \in Nodes /\ r_child # NoNode /\ ChildRrn \in Nat
      /\ ChildRrn = heap[r_child].rrn
      /\ Stored /\ Called =>
           \E leaf \in BOOLEAN : /\ Fits(parent, leaf) /\ leaf = heap[r_child].leaf
                                 /\ ChildRrn \in RrnsIn(heap, cache, leaf)
  BY <1>1, <1>2, FrameAbove
<1>4. StoreTypes /\ CallTypes /\ Shapes /\ Control /\ Frames
  BY DEF IInv
<1>5. CASE /\ ~Full(heap[parent])
           /\ \E m \in Successes(1) :
                /\ Write([heap EXCEPT ![parent] =
                            InsertInNode(heap[parent], promo, ChildRrn, Last(path).pos)],
                         alive, <<parent>>, m, {})
                /\ Return(IF m = 1 THEN "ok" ELSE "io")
  <2>1. PICK m \in Successes(1) :
          /\ Write([heap EXCEPT ![parent] =
                      InsertInNode(heap[parent], promo, ChildRrn, Last(path).pos)],
                   alive, <<parent>>, m, {})
          /\ Return(IF m = 1 THEN "ok" ELSE "io")
    BY <1>5
  <2>2. PICK p, pos, r, key :
          /\ p = heap[parent] /\ pos = Last(path).pos /\ r = ChildRrn /\ key = promo
          /\ pos \in 0 .. Len(p.keys) /\ r \in Nat /\ key \in Keys
    <3>1. PICK p, pos, r, key : p = heap[parent] /\ pos = Last(path).pos /\ r = ChildRrn /\ key = promo
      OBVIOUS
    <3>2. pos \in 0 .. Len(p.keys) /\ r \in Nat /\ key \in Keys
      BY <1>3, <3>1
    <3> QED
      BY <3>1, <3>2
  <2>3. PICK q : q = InsertInNode(p, key, r, pos)
    OBVIOUS
  <2>4. WriteAs([heap EXCEPT ![parent] = q], alive, <<parent>>, m, {}, {})
    BY <2>1, <2>2, <2>3 DEF Write
  <2>5. /\ p \in NodeOf(Keys, Nat) /\ Shaped(p) /\ ~Full(p) /\ p.leaf = FALSE
        /\ pos \in 0 .. Len(p.keys)
    BY <1>3, <1>4, <1>5, <2>2 DEF StoreTypes, Shapes
  <2>6. ASSUME NEW C, p \in NodeOf(Keys, C), r \in C
        PROVE  q \in NodeOf(Keys, C) /\ Shaped(q) /\ q.rrn = p.rrn /\ q.leaf = p.leaf
    <3>1. p.leaf \/ r \in C
      BY <2>6
    <3>2. Shaped(p) /\ ~Full(p) /\ pos \in 0 .. Len(p.keys) /\ key \in Keys
      BY <2>2, <2>5
    <3> QED
      BY <2>3, <2>6, <3>1, <3>2, TakesKey
  <2>7. PICK C : C = Nat
    OBVIOUS
  <2>8. q \in NodeOf(Keys, C) /\ Shaped(q) /\ q.rrn = p.rrn /\ q.leaf = p.leaf
    <3>1. p \in NodeOf(Keys, C) /\ r \in C
      BY <2>2, <2>5, <2>7
    <3> QED
      BY <2>6, <3>1
  <2>9. Stored /\ Called => \/ q.leaf
                            \/ \E leaf \in BOOLEAN : q \in NodeOf(Keys, RrnsIn(heap, cache, leaf))
    <3>1. ASSUME Stored, Called
          PROVE  \E leaf \in BOOLEAN : q \in NodeOf(Keys, RrnsIn(heap, cache, leaf))
      <4>1. PICK leaf \in BOOLEAN : Fits(parent, leaf) /\ ChildRrn \in RrnsIn(heap, cache, leaf)
        BY <1>3, <3>1
      <4>2. p \in NodeOf(Keys, RrnsIn(heap, cache, leaf)) /\ r \in RrnsIn(heap, cache, leaf)
        BY <2>2, <4>1 DEF Fits, FitsIn
      <4> QED
        BY <2>6, <4>2
    <3> QED
      BY <3>1
  <2>10. q \in NodeOf(Keys, Nat) /\ free_rrn' \in Seq(Nat)
         /\ q.rrn = heap[parent].rrn /\ q.leaf = heap[parent].leaf /\ Shaped(q)
    BY <1>2, <1>4, <2>2, <2>7, <2>8 DEF StoreTypes
  <2>11. PICK extra \in SUBSET {"rebalanced"} : extra = {}
    OBVIOUS
  <2>12. WriteAs([heap EXCEPT ![parent] = q], alive, <<parent>>, m, {}, extra)
    BY <2>4, <2>11
  <2>13. /\ StoreTypes' /\ Shapes' /\ Numbers' /\ Kept' /\ MemorySafe'
         /\ Benign' => Stored'
    BY <1>2, <2>9, <2>10, <2>12, RewriteOne
  <2> QED
    BY <2>1, <2>13, AfterReturningCode
<1>6. CASE /\ Full(heap[parent])
           /\ curr' = parent
           /\ path' = Front(path)
           /\ pc'   = "split"
           /\ UNCHANGED <<heap, cache, alive, op, promo, r_child, seen, answer, faults>>
  <2> DEFINE n == Len(path)
  <2>1. /\ n \in Nat \ {0} /\ DOMAIN path = 1 .. n /\ parent = path[n].node
        /\ path \in Seq([node : Nodes, pos : 0 .. Order - 1])
    BY <1>3, <1>4 DEF CallTypes
  <2>2. /\ path' \in Seq([node : Nodes, pos : 0 .. Order - 1])
        /\ Len(path') = n - 1 /\ \A i \in 1 .. n - 1 : path'[i] = path[i]
    BY <1>3, <1>6, <2>1, EndProps
  <2> HIDE DEF n
  <2>3. DOMAIN path' = 1 .. n - 1 /\ (path' = <<>> <=> n = 1)
    BY <2>1, <2>2
  <2>4. CallTypes'
    BY <1>3, <1>4, <1>6, <2>2 DEF CallTypes
  <2>5. parent # NoNode
    BY <1>3 DEF Nodes, NoNode
  <2>6. op # NoOp /\ heap[r_child].rrn \in Nat
    BY <1>2, <1>3, <1>4 DEF Control
  <2>7. Control'
    BY <1>2, <1>3, <1>6, <2>5, <2>6 DEF Control
  <2>8. /\ root = path[1].node
        /\ \A i \in 1 .. n : /\ ~heap[path[i].node].leaf
                             /\ path[i].pos <= Len(heap[path[i].node].keys)
        /\ \A i, j \in 1 .. n : i # j => path[i].node # path[j].node
    BY <1>2, <1>3, <1>4, <2>1 DEF Frames
  <2>9. \A i \in 1 .. n - 1 : i \in 1 .. n /\ i # n
    BY <2>1
  <2>10. n = 1 \/ 1 \in 1 .. n - 1
    BY <2>1
  <2>11. root' = IF path' = <<>> THEN curr' ELSE path'[1].node
    BY <1>2, <1>6, <2>1, <2>2, <2>3, <2>8, <2>10
  <2>12. Frames'
    BY <1>6, <2>1, <2>2, <2>3, <2>8, <2>9, <2>11 DEF Frames
  <2>13. ASSUME Stored, Called PROVE Called'
    <3>1. \A i \in 1 .. n : path[i].node \in alive
      BY <2>1, <2>13 DEF Called
    <3>2. \A i \in 1 .. n - 1 : Fits(path[i].node, FALSE)
      BY <1>2, <2>1, <2>9, <2>13 DEF Called, n
    <3>3. Fits(parent, heap[r_child].leaf) /\ r_child \in ToSet(cache)
      BY <1>3, <2>13 DEF Called
    <3>4. \A i \in 1 .. n - 1 : path'[i].node \in alive /\ Fits(path'[i].node, FALSE)
      BY <2>2, <2>9, <3>1, <3>2
    <3>5. \A i \in DOMAIN path' :
            /\ path'[i].node \in alive
            /\ Fits(path'[i].node, IF i = Len(path') THEN heap[parent].leaf ELSE FALSE)
      BY <1>3, <2>3, <3>4
    <3>6. /\ heap' = heap /\ cache' = cache /\ alive' = alive /\ pc' = "split"
          /\ r_child' = r_child /\ curr' = parent
      BY <1>6
    <3> QED
      BY <1>2, <3>3, <3>5, <3>6 DEF Called, Fits
  <2>14. UNCHANGED <<tree, status, setup>> /\ faults' = faults
    BY <1>2, <1>6 DEF tree
  <2> QED
    BY <1>2, <2>4, <2>7, <2>12, <2>13, <2>14, AfterMoving
<1> QED
  BY <1>1, <1>5, <1>6 DEF Ascend

-----------------------------------------------------------------------------
LEMMA GivesDataRrn ==
  ASSUME StoreTypes, NEW key \in Keys, free_rrn' = <<DataRrn[key]>> \o free_rrn
  PROVE  free_rrn' \in Seq(Nat)
<1>1. PICK r \in Nat, s \in Seq(Nat) : r = DataRrn[key] /\ s = free_rrn
  BY KeysAssumption DEF StoreTypes
<1>2. <<r>> \o s \in Seq(Nat)
  OBVIOUS
<1> QED
  BY <1>1, <1>2

LEMMA RemoveKeyStep == ASSUME IInv, RemoveKey PROVE IInv'
<1>1. PICK q : q = WithoutKey(heap[curr], op.key)
  OBVIOUS
<1>2. /\ status = "running" /\ pc = "remove" /\ curr \in alive
      /\ free_rrn' = <<DataRrn[op.key]>> \o free_rrn /\ status' = status /\ setup' = setup
  BY DEF RemoveKey, At
<1>3. StoreTypes /\ CallTypes /\ Shapes /\ Control /\ Numbers /\ Kept /\ Frames
  BY DEF IInv
<1>4. /\ curr \in Nodes /\ heap[curr] \in NodeOf(Keys, Nat) /\ Shaped(heap[curr])
      /\ heap[curr].leaf /\ op.key \in Keys /\ Found(heap[curr], op.key)
      /\ path = <<>> /\ r_child = NoNode /\ op # NoOp /\ curr # NoNode
  BY <1>2, <1>3 DEF StoreTypes, Shapes, Control, Frames
<1>5. PICK p, key : p = heap[curr] /\ key = op.key
  OBVIOUS
<1>6. free_rrn' \in Seq(Nat)
  <2>1. key \in Keys /\ free_rrn' = <<DataRrn[key]>> \o free_rrn
    BY <1>2, <1>4, <1>5
  <2> QED
    BY <1>3, <2>1, GivesDataRrn
<1>7. /\ q \in NodeOf(Keys, Nat) /\ Shaped(q) /\ q.rrn = p.rrn /\ q.leaf = p.leaf
  <2>1. PICK C : C = Nat
    OBVIOUS
  <2>2. p \in NodeOf(Keys, C) /\ Shaped(p) /\ p.leaf /\ Found(p, key)
    BY <1>4, <1>5, <2>1
  <2>3. q = WithoutKey(p, key)
    BY <1>1, <1>5
  <2>4. q \in NodeOf(Keys, C)
    BY <2>2, <2>3, WithoutKeyProps
  <2>5. Shaped(q) /\ q.rrn = p.rrn
    BY <2>2, <2>3, WithoutKeyProps
  <2>6. q.leaf = p.leaf
    BY <2>2, <2>3, WithoutKeyProps
  <2> QED
    BY <2>1, <2>4, <2>5, <2>6
<1> DEFINE h == [heap EXCEPT ![curr] = q]
<1>8. h \in [Nodes -> NodeOf(Keys, Nat)] /\ h[curr] = q /\ \A x \in Nodes : x # curr => h[x] = heap[x]
  BY <1>3, <1>4, <1>7 DEF StoreTypes
<1>9. \/ /\ curr = root
         /\ heap' = h
         /\ alive' = alive \ {curr}
         /\ root' = NoNode
         /\ faults' = faults \cup {"stale"}
         /\ Return("ok")
         /\ UNCHANGED cache
      \/ /\ \E m \in Successes(1) :
              /\ Write(h, alive, <<curr>>, m, {})
              /\ IF m = 1 /\ curr # root /\ Len(q.keys) < Half
                   THEN pc' = "underflow" /\ UNCHANGED <<op, frame, answer>>
                   ELSE Return(IF m = 1 THEN "ok" ELSE "io")
         /\ UNCHANGED root
  BY <1>1, <1>8 DEF RemoveKey
<1>10. CASE /\ curr = root
            /\ heap' = h
            /\ alive' = alive \ {curr}
            /\ root' = NoNode
            /\ faults' = faults \cup {"stale"}
            /\ Return("ok")
            /\ UNCHANGED cache
  <2> HIDE DEF h
  <2>1. StoreTypes'
    BY <1>2, <1>3, <1>6, <1>8, <1>10 DEF StoreTypes
  <2>2. Shapes'
    BY <1>3, <1>7, <1>8, <1>10 DEF Shapes
  <2>3. Numbers'
    <3>1. \A x \in alive' : x \in alive /\ heap'[x] = heap[x]
      BY <1>3, <1>8, <1>10 DEF StoreTypes
    <3> QED
      BY <1>3, <3>1 DEF Numbers, Distinct
  <2>4. Kept'
    BY <1>3, <1>10 DEF Kept
  <2>5. MemorySafe'
    BY <1>2 DEF MemorySafe
  <2>6. ~Benign'
    BY <1>10 DEF Benign
  <2> QED
    BY <1>10, <2>1, <2>2, <2>3, <2>4, <2>5, <2>6, AfterReturningCode
<1>11. CASE /\ \E m \in Successes(1) :
                 /\ Write(h, alive, <<curr>>, m, {})
                 /\ IF m = 1 /\ curr # root /\ Len(q.keys) < Half
                      THEN pc' = "underflow" /\ UNCHANGED <<op, frame, answer>>
                      ELSE Return(IF m = 1 THEN "ok" ELSE "io")
            /\ UNCHANGED root
  <2>1. PICK m \in Successes(1) :
          /\ Write(h, alive, <<curr>>, m, {})
          /\ IF m = 1 /\ curr # root /\ Len(q.keys) < Half
               THEN pc' = "underflow" /\ UNCHANGED <<op, frame, answer>>
               ELSE Return(IF m = 1 THEN "ok" ELSE "io")
    BY <1>11
  <2>2. /\ StoreTypes' /\ Shapes' /\ Numbers' /\ Kept' /\ MemorySafe'
        /\ Benign' => Stored' /\ alive' = alive
        /\ heap' = h
    <3>1. PICK extra \in SUBSET {"rebalanced"} : extra = {}
      OBVIOUS
    <3>2. WriteAs([heap EXCEPT ![curr] = q], alive, <<curr>>, m, {}, extra)
      BY <2>1, <3>1 DEF Write
    <3>3. UNCHANGED <<root, status, setup>> /\ q.leaf /\ q.rrn = heap[curr].rrn
          /\ q.leaf = heap[curr].leaf
      BY <1>2, <1>4, <1>5, <1>7, <1>11
    <3>4. q \in NodeOf(Keys, Nat) /\ Shaped(q)
      BY <1>7
    <3> QED
      BY <1>2, <1>6, <3>2, <3>3, <3>4, RewriteOne
  <2> HIDE DEF h
  <2>3. CASE Return(IF m = 1 THEN "ok" ELSE "io")
    BY <2>2, <2>3, AfterReturningCode
  <2>4. CASE /\ Len(q.keys) < Half
             /\ pc' = "underflow" /\ UNCHANGED <<op, frame, answer>>
    <3>1. /\ op' = op /\ curr' = curr /\ path' = path /\ promo' = promo
          /\ r_child' = r_child /\ seen' = seen /\ answer' = answer /\ pc' = "underflow"
      BY <2>4 DEF frame
    <3>2. CallTypes'
      BY <1>3, <3>1 DEF CallTypes
    <3>3. heap'[curr].leaf /\ Len(heap'[curr].keys) < Half
      BY <1>4, <1>5, <1>7, <1>8, <2>2, <2>4
    <3>4. Control'
      BY <1>4, <3>1, <3>3 DEF Control
    <3>5. Frames'
      BY <1>4, <3>1 DEF Frames
    <3>6. Benign' => Called'
      BY <1>2, <1>4, <2>2, <3>1 DEF Called
    <3> QED
      BY <2>2, <3>2, <3>4, <3>5, <3>6 DEF IInv, Whole
  <2> QED
    BY <2>1, <2>3, <2>4
<1> QED
  BY <1>9, <1>10, <1>11

-----------------------------------------------------------------------------
(* The nodes one level below those of nodes; find_parent only looks at     *)
(* live ones, if the root is one.                                          *)
Below(e, nodes) ==
  (IF e = 0 THEN {root}
   ELSE UNION {{Load(c) : c \in ToSet(heap[n].children)} : n \in nodes}) \ {NoNode}

(* A level is the last turn of a loop that goes down from the root. *)
LEMMA LevelLoop ==
  ASSUME StoreTypes, root \in alive \cup {NoNode}, NEW d \in Nat
  PROVE  \E g : Level(d) = g[d] /\ \A i \in 0 .. d : g[i] = Below(i, g[i - 1])
<1> DEFINE V == SUBSET Nodes
           G == [x \in Nat \X V |-> Below(x[1], x[2])]
           IsLoop(f) == f = [e \in 0 .. d |-> Below(e, f[e - 1])]
<1>1. Level(d) = (CHOOSE f : IsLoop(f))[d]
  BY DEF Level, Below
<1>2. alive \subseteq Nodes
  BY DEF StoreTypes
<1>3. \A e : \A nodes : e # 0 => Below(e, nodes) \subseteq alive
  <2>1. \A c : Load(c) \in alive \cup {NoNode}
    BY LoadProps
  <2> QED
    BY <2>1 DEF Below
<1>4. \A nodes : Below(0, nodes) = {root} \ {NoNode}
  BY DEF Below
<1>5. G \in [Nat \X V -> V]
  <2>1. \A e : \A nodes : Below(e, nodes) \in V
    <3>1. \A e : \A nodes : Below(e, nodes) \subseteq alive
      BY <1>3, <1>4
    <3> QED
      BY <1>2, <3>1
  <2> HIDE DEF V
  <2> QED
    BY <2>1
<1>6. PICK first \in V : first = {root} \ {NoNode}
  BY <1>2
<1> HIDE DEF V
<1>7. PICK f : LoopOf(f, V, first, G, d)
  <2> HIDE DEF G
  <2> QED
    BY <1>5, LoopExists
<1>8. IsLoop(f)
  <2>1. ASSUME NEW i \in 1 .. d PROVE f[i] = Below(i, f[i - 1])
    <3>1. f[i] = G[<<i, f[i - 1]>>]
      BY <1>7 DEF LoopOf
    <3>2. i \in Nat /\ f[i - 1] \in V
      BY <1>7 DEF LoopOf
    <3> QED
      BY <3>1, <3>2
  <2>2. f[0] = Below(0, f[0 - 1])
    BY <1>4, <1>6, <1>7 DEF LoopOf
  <2>3. \A i \in 0 .. d : f[i] = Below(i, f[i - 1])
    BY <2>1, <2>2
  <2> QED
    BY <1>7, <2>3 DEF LoopOf
<1>9. PICK g : g = (CHOOSE h : IsLoop(h))
  OBVIOUS
<1>10. IsLoop(g)
  BY <1>8, <1>9
<1>11. Level(d) = g[d] /\ \A i \in 0 .. d : g[i] = Below(i, g[i - 1])
  BY <1>1, <1>9, <1>10
<1> QED
  BY <1>11

LEMMA LevelAlive ==
  ASSUME StoreTypes, root \in alive \cup {NoNode}, NEW d \in Nat
  PROVE  Level(d) \subseteq alive
<1>1. PICK g : Level(d) = g[d] /\ \A i \in 0 .. d : g[i] = Below(i, g[i - 1])
  BY LevelLoop
<1>2. \A e : \A nodes : Below(e, nodes) \subseteq alive
  <2>1. \A c : Load(c) \in alive \cup {NoNode}
    BY LoadProps
  <2> QED
    BY <2>1 DEF Below
<1>3. PICK L : L = SUBSET alive
  OBVIOUS
<1>4. g[0] \in L /\ \A i \in 1 .. d : g[i - 1] \in L => g[i] \in L
  <2>1. \A i \in 0 .. d : g[i] \in L
    BY <1>1, <1>2, <1>3
  <2>2. 0 \in 0 .. d /\ \A i \in 1 .. d : i \in 0 .. d
    OBVIOUS
  <2> QED
    BY <2>1, <2>2
<1>5. \A i \in 0 .. d : g[i] \in L
  BY <1>4, LoopStays
<1> QED
  BY <1>1, <1>3, <1>5

LEMMA ReachedAlive ==
  ASSUME StoreTypes, root \in alive \cup {NoNode}
  PROVE  Reached \subseteq alive
<1>1. \A d \in 0 .. Cardinality(alive) : d \in Nat
  OBVIOUS
<1>2. \A d \in Nat : Level(d) \subseteq alive
  BY LevelAlive
<1> QED
  BY <1>1, <1>2 DEF Reached

(* A sibling is a live cached node; where the tree is stored, one on the   *)
(* same level.                                                             *)
LEMMA BesideProps ==
  ASSUME StoreTypes, Numbers, NEW d \in {-1, 1}, Beside(d) # NoNode
  PROVE  /\ Beside(d) \in ToSet(cache) /\ Beside(d) \in alive /\ Beside(d) \in Nodes
         /\ Stored /\ curr \in alive => heap[Beside(d)].leaf = heap[curr].leaf
<1>1. PICK q : /\ q \in Parents(curr)
               /\ Beside(d) = Sibling(q, curr, d)
  BY DEF Beside
<1> DEFINE c == heap[q].children
           pos == Min({i \in DOMAIN c : c[i] = heap[curr].rrn})
<1>2. pos + d \in DOMAIN c /\ Beside(d) = Load(c[pos + d])
  BY <1>1 DEF Sibling
<1>3. PICK rrn : rrn = c[pos + d] /\ rrn \in ToSet(c) /\ Beside(d) = Load(rrn)
  <2> HIDE DEF pos
  <2> QED
    BY <1>2 DEF ToSet
<1> HIDE DEF pos
<1>4. Beside(d) \in ToSet(cache) /\ Beside(d) \in alive /\ Beside(d) \in Nodes
  BY <1>3, LoadProps
<1>5. ASSUME Stored, curr \in alive PROVE heap[Beside(d)].leaf = heap[curr].leaf
  <2>1. Reached \subseteq alive /\ ToSet(cache) \subseteq alive
    BY <1>5, ReachedAlive DEF Stored
  <2>2. q \in alive /\ heap[curr].rrn \in ToSet(c)
    BY <1>1, <2>1 DEF Parents
  <2>3. PICK leaf \in BOOLEAN : Fits(q, leaf)
    BY <1>5, <2>2 DEF Stored
  <2>4. heap[Load(rrn)].leaf = leaf
    BY <1>3, <2>1, <2>3, FitLoad
  <2>5. Load(heap[curr].rrn) # NoNode /\ heap[Load(heap[curr].rrn)].leaf = leaf
    BY <2>1, <2>2, <2>3, FitLoad
  <2>6. Load(heap[curr].rrn) \in alive /\ heap[Load(heap[curr].rrn)].rrn = heap[curr].rrn
    BY <2>5, LoadProps
  <2>7. Load(heap[curr].rrn) = curr
    BY <1>5, <2>6 DEF Numbers, Distinct
  <2> QED
    BY <1>3, <2>4, <2>5, <2>7
<1> QED
  BY <1>4, <1>5

-----------------------------------------------------------------------------
LEMMA NodeTyped ==
  ASSUME StoreTypes, Shapes, NEW n \in Nodes
  PROVE  /\ heap[n] \in NodeOf(Keys, Nat) /\ Shaped(heap[n])
         /\ heap[n].keys \in Seq(Keys) /\ Len(heap[n].keys) \in Nat
<1>1. heap[n] \in NodeOf(Keys, Nat) /\ Shaped(heap[n])
  BY DEF StoreTypes, Shapes
<1>2. heap[n].keys \in Seq(Keys)
  BY <1>1 DEF NodeOf
<1>3. Len(heap[n].keys) \in Nat
  BY <1>2
<1> QED
  BY <1>1, <1>2, <1>3

(* Two leaves, one short of keys and one with none to give, fit in one.    *)
LEMMA RoomForBoth ==
  ASSUME NEW a \in Nat, NEW b \in Nat, a < Half, b <= Half
  PROVE  a + b <= 2 * Half /\ b + a <= 2 * Half /\ a < Order - 1
  BY HalfBounds

LEMMA RedistributeStep ==
  ASSUME IInv, At("underflow"), UNCHANGED <<root, status, setup>>,
         NEW donor \in alive, heap[donor].leaf, Len(heap[donor].keys) > Half,
         NEW from_left \in BOOLEAN, Redistribute(donor, from_left)
  PROVE  IInv'
<1>1. /\ status = "running" /\ pc = "underflow" /\ curr \in alive
      /\ root' = root /\ status' = status /\ setup' = setup
  BY DEF At
<1>2. StoreTypes /\ Shapes /\ Numbers /\ Kept /\ Control
  BY DEF IInv
<1>3. /\ curr \in Nodes /\ donor \in Nodes /\ alive \in SUBSET Nodes
      /\ heap[curr].leaf /\ Len(heap[curr].keys) < Half
  BY <1>1, <1>2 DEF StoreTypes, Control
<1>4. /\ heap[curr] \in NodeOf(Keys, Nat) /\ Shaped(heap[curr])
      /\ heap[donor] \in NodeOf(Keys, Nat) /\ Shaped(heap[donor])
      /\ Len(heap[curr].keys) \in Nat /\ Len(heap[donor].keys) \in Nat
      /\ heap[donor].keys \in Seq(Keys)
  BY <1>2, <1>3, NodeTyped
<1>5. donor # curr /\ Len(heap[curr].keys) < Order - 1 /\ Len(heap[donor].keys) >= 1
  BY <1>3, <1>4, HalfBounds
<1>6. PICK d, p : d = heap[donor] /\ p = heap[curr]
  OBVIOUS
<1>7. PICK u, v : u = DonorAfter(d, from_left) /\ v = ReceiverAfter(d, p, from_left)
  OBVIOUS
<1> DEFINE h == [heap EXCEPT ![donor] = u, ![curr] = v]
<1>8. PICK m \in Successes(2) :
        /\ WriteAs([heap EXCEPT
                      ![donor] = DonorAfter(@, from_left),
                      ![curr]  = ReceiverAfter(heap[donor], @, from_left)],
                   alive, <<donor, curr>>, m, {}, {"rebalanced"})
        /\ Return(IF m = 2 THEN "ok" ELSE "io")
  BY DEF Redistribute
<1>9. [heap EXCEPT ![donor] = DonorAfter(@, from_left),
                   ![curr]  = ReceiverAfter(heap[donor], @, from_left)] = h
  BY <1>2, <1>3, <1>5, <1>6, <1>7 DEF StoreTypes
<1>10. UNCHANGED free_rrn
  BY DEF Redistribute
<1>11. PICK C : C = Nat
  OBVIOUS
<1>12. u \in NodeOf(Keys, C) /\ Shaped(u) /\ u.rrn = d.rrn /\ u.leaf = d.leaf
  <2>1. d \in NodeOf(Keys, C) /\ Shaped(d) /\ d.leaf /\ Len(d.keys) >= 1
    BY <1>4, <1>5, <1>6, <1>11
  <2>2. u \in NodeOf(Keys, C)
    BY <1>7, <2>1, DonorProps
  <2>3. Shaped(u) /\ u.rrn = d.rrn
    BY <1>7, <2>1, DonorProps
  <2>4. u.leaf = d.leaf
    BY <1>7, <2>1, DonorProps
  <2> QED
    BY <2>2, <2>3, <2>4
<1>13. v \in NodeOf(Keys, C) /\ Shaped(v) /\ v.rrn = p.rrn /\ v.leaf = p.leaf
  <2>1. p \in NodeOf(Keys, C) /\ Shaped(p) /\ p.leaf /\ Len(p.keys) < Order - 1
    BY <1>3, <1>4, <1>5, <1>6, <1>11
  <2>2. d.keys \in Seq(Keys) /\ Len(d.keys) >= 1
    BY <1>4, <1>5, <1>6
  <2>3. v \in NodeOf(Keys, C)
    BY <1>7, <2>1, <2>2, ReceiverProps
  <2>4. Shaped(v) /\ v.rrn = p.rrn
    BY <1>7, <2>1, <2>2, ReceiverProps
  <2>5. v.leaf = p.leaf
    BY <1>7, <2>1, <2>2, ReceiverProps
  <2> QED
    BY <2>3, <2>4, <2>5
<1>14. /\ u \in NodeOf(Keys, Nat) /\ Shaped(u) /\ u.rrn = heap[donor].rrn /\ u.leaf
       /\ v \in NodeOf(Keys, Nat) /\ Shaped(v) /\ v.rrn = heap[curr].rrn /\ v.leaf
       /\ u.leaf = heap[donor].leaf /\ v.leaf = heap[curr].leaf
  BY <1>3, <1>6, <1>11, <1>12, <1>13
<1>15. /\ h \in [Nodes -> NodeOf(Keys, Nat)] /\ h[donor] = u /\ h[curr] = v
       /\ \A x \in Nodes : x # donor /\ x # curr => h[x] = heap[x]
  BY <1>2, <1>3, <1>5, <1>14 DEF StoreTypes
<1> HIDE DEF h
<1>16. /\ \A x \in Nodes : Shaped(h[x])
       /\ \A x \in alive : h[x].rrn = heap[x].rrn /\ h[x].leaf = heap[x].leaf
  BY <1>2, <1>3, <1>14, <1>15 DEF Shapes
<1>17. (\A x \in alive : h[x].rrn \in Nat) /\ Distinct(h, alive)
  BY <1>2, <1>16 DEF Numbers, Distinct
<1> DEFINE new == {"rebalanced"} \cup (IF m = 2 THEN {} ELSE {"io"})
           W == Firsts(donor, curr, m)
           kept == IF m = 2 THEN alive ELSE alive \ {}
<1>18. Outcome(h, kept, W, new)
  <2>1. WriteAs(h, alive, <<donor, curr>>, m, {}, {"rebalanced"})
    BY <1>8, <1>9
  <2> QED
    BY <1>1, <1>2, <1>3, <1>17, <2>1, WriteTwo
<1>19. kept = alive /\ W \in SUBSET alive /\ new \in SUBSET {"io", "rebalanced"}
  BY <1>1 DEF Firsts
<1>20. Outcome(h, alive, W, new)
  BY <1>18, <1>19
<1>21. alive \subseteq ToSet(cache) \cup W \cup {root'}
  BY <1>1, <1>2 DEF Kept
<1>22. ASSUME Benign', Stored, Called
       PROVE  /\ root' \in alive \cup {NoNode}
              /\ alive \subseteq ToSet(cache) \cup W \cup (IF "io" \in faults' THEN {root'} ELSE {})
              /\ \A x \in alive : \/ x \in alive /\ h[x] = heap[x]
                                  \/ h[x].leaf
                                  \/ \E leaf \in BOOLEAN :
                                       h[x] \in NodeOf(Keys, RrnsIn(heap, cache, leaf))
  <2>1. faults \subseteq faults'
    BY <1>20 DEF Outcome
  <2>2. \A x \in alive : x = donor \/ x = curr \/ h[x] = heap[x]
    BY <1>3, <1>15
  <2> QED
    BY <1>1, <1>14, <1>15, <1>22, <2>1, <2>2 DEF Stored
<1>23. root' \in Nodes \cup {NoNode} /\ free_rrn' \in Seq(Nat)
       /\ status' \in {"running", "exited"} /\ alive \subseteq alive
  BY <1>1, <1>2, <1>10 DEF StoreTypes
<1> HIDE DEF W, new, kept
<1>24. /\ StoreTypes' /\ Shapes' /\ Numbers' /\ Kept' /\ MemorySafe'
       /\ Benign' => Stored'
  BY <1>1, <1>3, <1>15, <1>16, <1>17, <1>19, <1>20, <1>21, <1>22, <1>23, AfterWriting
<1> QED
  BY <1>8, <1>24, AfterReturningCode

LEMMA MergeStep ==
  ASSUME IInv, At("underflow"), UNCHANGED <<root, status, setup>>,
         NEW left \in alive, NEW right \in alive, heap[left].leaf, heap[right].leaf,
         Len(heap[left].keys) + Len(heap[right].keys) <= 2 * Half, Merge(left, right)
  PROVE  IInv'
<1>1. status = "running"
  BY DEF At
<1>2. StoreTypes /\ Shapes /\ Numbers
  BY DEF IInv
<1>3. PICK p, d : p = heap[left] /\ d = heap[right]
  OBVIOUS
<1>4. PICK q : q = MergedLeft(p, d)
  OBVIOUS
<1>5. PICK m \in Successes(1) :
        /\ WriteAs([heap EXCEPT ![left] = q], alive, <<left>>, m, {}, {"rebalanced"})
        /\ free_rrn' = IF m = 1 THEN <<heap[right].rrn>> \o free_rrn ELSE free_rrn
        /\ Return(IF m = 1 THEN "ok" ELSE "io")
  BY <1>3, <1>4 DEF Merge
<1>6. left \in Nodes /\ right \in Nodes /\ d.rrn \in Nat
  BY <1>2, <1>3 DEF StoreTypes, Numbers
<1>7. PICK C : C = Nat
  OBVIOUS
<1>8. /\ p \in NodeOf(Keys, C) /\ Shaped(p) /\ p.leaf
      /\ d \in NodeOf(Keys, C) /\ Shaped(d) /\ d.leaf
      /\ Len(p.keys) + Len(d.keys) <= Order - 1
  <2>1. Len(heap[left].keys) \in Nat /\ Len(heap[right].keys) \in Nat
    BY <1>2, <1>6, NodeTyped
  <2>2. \A x, y \in Nat : x + y <= 2 * Half => x + y <= Order - 1
    BY HalfBounds
  <2>3. Len(p.keys) + Len(d.keys) <= Order - 1
    BY <1>3, <2>1, <2>2
  <2> QED
    BY <1>2, <1>3, <1>6, <1>7, <2>3 DEF StoreTypes, Shapes
<1>9. q \in NodeOf(Keys, C) /\ Shaped(q) /\ q.rrn = p.rrn /\ q.leaf = p.leaf
  <2>1. q \in NodeOf(Keys, C)
    BY <1>4, <1>8, MergeProps
  <2>2. Shaped(q)
    BY <1>4, <1>8, MergeProps
  <2>3. q.rrn = p.rrn
    BY <1>4 DEF MergedLeft
  <2>4. q.leaf = p.leaf
    BY <1>4, <1>8, MergeProps
  <2> QED
    BY <2>1, <2>2, <2>3, <2>4
<1>10. /\ q \in NodeOf(Keys, Nat) /\ Shaped(q) /\ q.rrn = heap[left].rrn /\ q.leaf = heap[left].leaf
       /\ q.leaf
  BY <1>3, <1>7, <1>8, <1>9
<1>11. free_rrn' \in Seq(Nat)
  <2>1. PICK r \in Nat, s \in Seq(Nat) : r = heap[right].rrn /\ s = free_rrn
    BY <1>2, <1>3, <1>6 DEF StoreTypes
  <2>2. <<r>> \o s \in Seq(Nat)
    OBVIOUS
  <2> QED
    BY <1>5, <2>1, <2>2
<1>12. /\ StoreTypes' /\ Shapes' /\ Numbers' /\ Kept' /\ MemorySafe'
       /\ Benign' => Stored'
  <2>1. PICK extra \in SUBSET {"rebalanced"} : extra = {"rebalanced"}
    OBVIOUS
  <2>2. WriteAs([heap EXCEPT ![left] = q], alive, <<left>>, m, {}, extra)
    BY <1>5, <2>1
  <2> QED
    BY <1>1, <1>10, <1>11, <2>2, RewriteOne
<1> QED
  BY <1>5, <1>12, AfterReturningCode

LEMMA UnderflowStep == ASSUME IInv, Underflow PROVE IInv'
<1>1. PICK left, right : left = Beside(-1) /\ right = Beside(1)
  OBVIOUS
<1>2. At("underflow") /\ Needed \subseteq Usable /\ UNCHANGED <<root, status, setup>>
  BY DEF Underflow
<1>3. pc = "underflow" /\ curr \in alive
  BY <1>2 DEF At
<1>4. StoreTypes /\ Shapes /\ Control
  BY DEF IInv
<1>5. curr \in Nodes /\ heap[curr].leaf /\ Len(heap[curr].keys) < Half
  BY <1>3, <1>4 DEF StoreTypes, Control
<1>6. Helper # NoNode => Helper \in alive /\ heap[Helper].leaf
  BY <1>2, <1>3 DEF Needed, Usable
<1>7. \A n \in Nodes : Len(heap[n].keys) \in Nat
  BY <1>4, NodeTyped
<1>8. Helper = IF CanGive(left) \/ (left # NoNode /\ ~CanGive(right)) THEN left ELSE right
  BY <1>1 DEF Helper
<1>9. CASE CanGive(left) /\ Redistribute(left, TRUE)
  <2>1. left \in alive /\ heap[left].leaf /\ Len(heap[left].keys) > Half
    BY <1>6, <1>8, <1>9 DEF CanGive
  <2> QED
    BY <1>2, <1>9, <2>1, RedistributeStep
<1>10. CASE ~CanGive(left) /\ CanGive(right) /\ Redistribute(right, FALSE)
  <2>1. right \in alive /\ heap[right].leaf /\ Len(heap[right].keys) > Half
    BY <1>6, <1>8, <1>10 DEF CanGive
  <2> QED
    BY <1>2, <1>10, <2>1, RedistributeStep
<1>11. ASSUME NEW n \in alive, ~CanGive(n), n # NoNode
       PROVE  /\ Len(heap[n].keys) + Len(heap[curr].keys) <= 2 * Half
              /\ Len(heap[curr].keys) + Len(heap[n].keys) <= 2 * Half
  <2>1. n \in Nodes
    BY <1>4 DEF StoreTypes
  <2>2. PICK a \in Nat, b \in Nat : a = Len(heap[curr].keys) /\ b = Len(heap[n].keys)
    BY <1>5, <1>7, <2>1
  <2>3. a < Half /\ b <= Half
    BY <1>5, <1>11, <2>2, HalfBounds DEF CanGive
  <2> QED
    BY <2>2, <2>3, RoomForBoth
<1>12. CASE ~CanGive(left) /\ ~CanGive(right) /\ left # NoNode /\ Merge(left, curr)
  <2>1. left \in alive /\ heap[left].leaf
    BY <1>6, <1>8, <1>12
  <2>2. Len(heap[left].keys) + Len(heap[curr].keys) <= 2 * Half
    BY <1>11, <1>12, <2>1
  <2> QED
    BY <1>2, <1>3, <1>5, <1>12, <2>1, <2>2, MergeStep
<1>13. CASE /\ ~CanGive(left) /\ ~CanGive(right) /\ left = NoNode /\ right # NoNode
            /\ Merge(curr, right)
  <2>1. right \in alive /\ heap[right].leaf
    BY <1>6, <1>8, <1>13
  <2>2. Len(heap[curr].keys) + Len(heap[right].keys) <= 2 * Half
    BY <1>11, <1>13, <2>1
  <2> QED
    BY <1>2, <1>3, <1>5, <1>13, <2>1, <2>2, MergeStep
<1>14. CASE Return("ok") /\ UNCHANGED <<heap, cache, alive, free_rrn, faults>>
  <2>1. UNCHANGED <<tree, status, setup>> /\ faults' = faults /\ status = "running"
    BY <1>2, <1>14 DEF tree, At
  <2> QED
    BY <1>14, <2>1, ReturnCodeStep
<1> QED
  BY <1>1, <1>9, <1>10, <1>12, <1>13, <1>14 DEF Underflow

-----------------------------------------------------------------------------
(* While nothing was evicted, the nodes a step works on are never freed.   *)
LEMMA NeededUsable ==
  ASSUME IInv, status = "running", Benign
  PROVE  Needed \subseteq Usable
<1>1. StoreTypes /\ CallTypes /\ Numbers /\ Control /\ Frames /\ Stored /\ Called
  BY DEF IInv, Whole
<1>2. curr \in alive \cup {NoNode} /\ ToSet(cache) \subseteq alive
  BY <1>1 DEF Stored, Called
<1>3. pc \in {"ascend", "newroot"} => r_child \in alive
  BY <1>1, <1>2 DEF Control, Called
<1>4. pc = "ascend" => Last(path).node \in alive
  <2>1. ASSUME pc = "ascend" PROVE Last(path).node \in alive
    <3>1. path # <<>> /\ \A i \in DOMAIN path : path[i].node \in alive
      BY <1>1, <2>1 DEF Frames, Called
    <3>2. path \in Seq([node : Nodes, pos : 0 .. Order - 1])
      BY <1>1 DEF CallTypes
    <3>3. Last(path) = path[Len(path)] /\ Len(path) \in DOMAIN path
      BY <3>1, <3>2, EndProps
    <3> QED
      BY <3>1, <3>3
  <2> QED
    BY <2>1
<1>5. ASSUME pc = "underflow"
      PROVE  /\ heap[curr].leaf
             /\ Helper # NoNode => Helper \in alive /\ heap[Helper].leaf
  <2>1. heap[curr].leaf /\ curr \in alive
    BY <1>1, <1>2, <1>5 DEF Control
  <2>2. PICK d \in {-1, 1} : Helper = Beside(d)
    BY DEF Helper
  <2>3. Beside(d) # NoNode => Beside(d) \in alive /\ heap[Beside(d)].leaf = heap[curr].leaf
    BY <1>1, <2>1, BesideProps
  <2> QED
    BY <2>1, <2>2, <2>3
<1> QED
  BY <1>2, <1>3, <1>4, <1>5 DEF Needed, Usable

LEMMA UseAfterFreeStep == ASSUME IInv, UseAfterFree PROVE IInv'
<1>1. /\ UNCHANGED <<tree, setup, op, pc, frame, answer>>
      /\ faults' = faults /\ status' = "corrupt" /\ status = "running"
      /\ ~(Needed \subseteq Usable)
  BY DEF UseAfterFree
<1>2. ~Benign
  BY <1>1, NeededUsable
<1>3. MemorySafe'
  BY <1>1, <1>2 DEF MemorySafe, Benign
<1> QED
  BY <1>1, <1>3, AfterStopping

LEMMA NextStep == ASSUME IInv, [Next]_vars PROVE IInv'
<1>1. CASE \E k \in Keys : InsertCall(k) \/ SearchCall(k) \/ RemoveCall(k)
  BY <1>1, InsertCallStep, FindCallStep
<1>2. CASE \E from, to \in Keys : RangeCall(from, to)
  BY <1>2, RangeCallStep
<1>3. CASE FirstRoot \/ Descend \/ LeafInsert \/ Split \/ Ascend \/ NewRoot
  BY <1>3, FirstRootStep, DescendStep, LeafInsertStep, SplitStep, AscendStep, NewRootStep
<1>4. CASE AllocationFails \/ AllocationCrashes \/ RrnClashes
  BY <1>4, AllocationFailsStep, AllocationCrashesStep, RrnClashesStep
<1>5. CASE FindNoRoot \/ FindInternal \/ FindLeaf \/ ReadPastKeys
  BY <1>5, FindNoRootStep, FindInternalStep, FindLeafStep, ReadPastKeysStep
<1>6. CASE RemoveKey \/ Underflow
  BY <1>6, RemoveKeyStep, UnderflowStep
<1>7. CASE RangeDown \/ RangeLeaf \/ RangeNoRoot
  BY <1>7, RangeDownStep, RangeLeafStep, RangeNoRootStep
<1>8. CASE UncheckedAllocationCrashes \/ UseAfterFree \/ StaleRead
  BY <1>8, UncheckedAllocationCrashesStep, UseAfterFreeStep, StaleReadStep
<1>9. CASE UNCHANGED vars
  <2>1. /\ UNCHANGED heap /\ UNCHANGED alive /\ UNCHANGED root /\ UNCHANGED cache
        /\ UNCHANGED free_rrn /\ UNCHANGED setup /\ UNCHANGED op /\ UNCHANGED pc
        /\ UNCHANGED curr /\ UNCHANGED path /\ UNCHANGED promo /\ UNCHANGED r_child
        /\ UNCHANGED seen /\ UNCHANGED answer /\ UNCHANGED status /\ UNCHANGED faults
    BY <1>9 DEF vars, tree, frame
  <2>2. StoreTypes' /\ CallTypes'
    BY <2>1 DEF IInv, StoreTypes, CallTypes
  <2>3. Shapes' /\ Numbers' /\ Kept'
    BY <2>1 DEF IInv, Shapes, Numbers, Kept
  <2>4. Control' /\ Frames'
    BY <2>1 DEF IInv, Control, Frames
  <2>5. MemorySafe'
    BY <2>1 DEF IInv, MemorySafe
  <2>6. Whole'
    <3>1. Benign' /\ status' = "running" => Benign /\ status = "running"
      BY <2>1 DEF Benign
    <3>2. Stored => Stored'
      BY <2>1 DEF Stored, Fits
    <3>3. Called => Called'
      BY <2>1 DEF Called, Fits
    <3> QED
      BY <3>1, <3>2, <3>3 DEF IInv, Whole
  <2> QED
    BY <2>2, <2>3, <2>4, <2>5, <2>6 DEF IInv
<1> QED
  BY <1>1, <1>2, <1>3, <1>4, <1>5, <1>6, <1>7, <1>8, <1>9 DEF Next, Step

-----------------------------------------------------------------------------
(* The two ways to begin. *)
LEMMA BlankTyped == Blank \in NodeOf(Keys, Nat) /\ Shaped(Blank)
<1>1. PICK ks \in Seq(Keys), cs \in Seq(Nat) :
        ks = <<>> /\ cs = <<>> /\ Len(ks) = 0 /\ Len(cs) = 0
  <2>1. <<>> \in Seq(Keys) /\ <<>> \in Seq(Nat) /\ Len(<<>>) = 0
    OBVIOUS
  <2> QED
    BY <2>1
<1>2. Blank = [rrn |-> NoRrn, leaf |-> TRUE, keys |-> ks, children |-> cs, next_leaf |-> NoRrn]
  BY <1>1 DEF Blank
<1>3. Blank \in NodeOf(Keys, Nat)
  BY <1>2 DEF NodeOf
<1>4. 0 <= Order - 1
  BY HalfBounds
<1>5. Blank.leaf /\ Blank.keys = ks /\ Blank.children = cs
  BY <1>2
<1>6. Shaped(Blank)
  BY <1>1, <1>4, <1>5 DEF Shaped
<1> QED
  BY <1>3, <1>6

LEMMA IdleTyped ==
  ASSUME Idle
  PROVE  /\ CallTypes /\ Control /\ Frames /\ Called /\ MemorySafe
         /\ status = "running" /\ faults = {}
<1>1. CallTypes
  <2>1. <<>> \in Seq([node : Nodes, pos : 0 .. Order - 1]) /\ <<>> \in Seq(Keys)
    OBVIOUS
  <2> QED
    BY <2>1 DEF Idle, CallTypes, NoAnswer
<1>2. Control
  BY DEF Idle, Control
<1>3. Frames
  BY DEF Idle, Frames
<1>4. Called
  BY DEF Idle, Called
<1> QED
  BY <1>1, <1>2, <1>3, <1>4 DEF Idle, MemorySafe

LEMMA InitIInv == ASSUME Init PROVE IInv
<1>1. /\ CallTypes /\ Control /\ Frames /\ Called /\ MemorySafe
      /\ status = "running" /\ faults = {}
  BY IdleTyped DEF Init
<1>2. /\ heap = [n \in Nodes |-> Blank] /\ alive = {} /\ root = NoNode /\ cache = <<>>
      /\ free_rrn = <<0>> /\ setup \in Setups
  BY DEF Init
<1>3. cache \in Seq(Nodes) /\ free_rrn \in Seq(Nat) /\ ToSet(cache) = {}
  <2>1. <<>> \in Seq(Nodes) /\ <<0>> \in Seq(Nat)
    OBVIOUS
  <2>2. ToSet(<<>>) = {}
    BY DEF ToSet
  <2> QED
    BY <1>2, <2>1, <2>2
<1>4. StoreTypes
  BY <1>1, <1>2, <1>3, BlankTyped DEF StoreTypes
<1>5. Shapes
  BY <1>2, BlankTyped DEF Shapes
<1>6. Numbers /\ Kept
  BY <1>2 DEF Numbers, Distinct, Kept
<1>7. Stored
  BY <1>2, <1>3 DEF Stored, NoTwice
<1> QED
  BY <1>1, <1>4, <1>5, <1>6, <1>7 DEF IInv, Whole

LEMMA WarmInitIInv == ASSUME WarmInit PROVE IInv
<1>1. /\ CallTypes /\ Control /\ Frames /\ Called /\ MemorySafe
      /\ status = "running" /\ faults = {}
  BY IdleTyped DEF WarmInit
<1>2. PICK k \in Keys :
        heap = [n \in Nodes |-> IF n = 1 THEN [Blank EXCEPT !.rrn = 0, !.keys = <<k>>] ELSE Blank]
  BY DEF WarmInit
<1>3. /\ alive = {1} /\ root = 1 /\ cache = <<1>>
      /\ setup \in Setups /\ free_rrn = setup.free_rrn
  BY DEF WarmInit
<1>4. PICK u : u = RootLeaf(0, k)
  OBVIOUS
<1>5. u \in NodeOf(Keys, Nat) /\ Shaped(u) /\ u.rrn = 0 /\ u.leaf
  BY <1>4, RootLeafProps
<1>6. heap = [n \in Nodes |-> IF n = 1 THEN u ELSE Blank]
  BY <1>2, <1>4 DEF RootLeaf
<1>7. 1 \in Nodes
  BY BTreeBounds DEF Nodes
<1>8. cache \in Seq(Nodes) /\ ToSet(cache) = {1} /\ NoTwice(cache)
  <2>1. PICK n \in Nodes : n = 1
    BY <1>7
  <2>2. <<n>> \in Seq(Nodes) /\ DOMAIN <<n>> = {1} /\ <<n>>[1] = n
    OBVIOUS
  <2>3. cache = <<n>>
    BY <1>3, <2>1
  <2>4. cache \in Seq(Nodes) /\ DOMAIN cache = {1} /\ cache[1] = 1
    BY <2>1, <2>2, <2>3
  <2>5. ToSet(cache) = {1}
    BY <2>4 DEF ToSet
  <2>6. NoTwice(cache)
    BY <2>4 DEF NoTwice
  <2> QED
    BY <2>4, <2>5, <2>6
<1>9. free_rrn \in Seq(Nat)
  BY <1>3, SetupsAssumption
<1>10. StoreTypes
  BY <1>1, <1>3, <1>5, <1>6, <1>7, <1>8, <1>9, BlankTyped DEF StoreTypes
<1>11. Shapes
  BY <1>5, <1>6, BlankTyped DEF Shapes
<1>12. heap[1] = u
  BY <1>6, <1>7
<1>13. Numbers /\ Kept
  BY <1>3, <1>5, <1>8, <1>12 DEF Numbers, Distinct, Kept
<1>14. Fits(1, TRUE)
  <2>1. u \in NodeOf(Keys, RrnsIn(heap, cache, TRUE))
    BY <1>5, LeafFits
  <2> QED
    BY <1>12, <2>1 DEF Fits, FitsIn
<1>15. Stored
  BY <1>3, <1>8, <1>14 DEF Stored
<1> QED
  BY <1>1, <1>10, <1>11, <1>13, <1>15 DEF IInv, Whole

-----------------------------------------------------------------------------
(* A call that has looked no node up yet is still at the root; once it     *)
(* has, the root is internal, and stays so while the call goes on.         *)
RootInternal == root # NoNode /\ ~heap[root].leaf

Lookups ==
  /\ lost \in BOOLEAN
  /\ status = "running" =>
       /\ pc = "idle" => ~lost
       /\ pc \in {"descend", "find"} /\ ~lost => curr = root
       /\ lost /\ pc # "range" => RootInternal

LEMMA ReturnLookups == ASSUME NEW code, NEW keys, ReturnKeys(code, keys) PROVE Lookups'
BY DEF ReturnKeys, Lookups

LEMMA StopLookups ==
  ASSUME Lookups, status' # "running", lost' \in {lost, FALSE} PROVE Lookups'
BY DEF Lookups

(* Nothing but the place in the call changes, or leaves that stay leaves. *)
LEMMA MoveLookups ==
  ASSUME Lookups, status = "running", pc \notin {"idle", "range"},
         lost' = lost, root' = root,
         RootInternal => ~heap'[root].leaf, pc' \notin {"idle", "descend", "find"}
  PROVE  Lookups'
BY DEF Lookups, RootInternal

(* A call goes on to a child of the node it is at. *)
LEMMA LookupLookups ==
  ASSUME Lookups, StoreTypes, status = "running", pc \in {"descend", "find"}, curr \in Nodes,
         ~heap[curr].leaf, lost' = TRUE, root' = root, heap' = heap, pc' = pc
  PROVE  Lookups'
<1>1. \A n \in Nodes : n # NoNode
  BY DEF Nodes, NoNode
<1>2. RootInternal
  BY <1>1 DEF Lookups, RootInternal
<1> QED
  BY <1>2 DEF Lookups, RootInternal

LEMMA RangeLookups ==
  ASSUME pc' = "range", lost' \in BOOLEAN PROVE Lookups'
BY DEF Lookups

LEMMA CallLookups ==
  ASSUME Lookups, Ready, NEW request, NEW where, NEW key, Call(request, where, key)
  PROVE  Lookups'
<1>1. lost' = lost /\ ~lost /\ curr' = root /\ root' = root /\ status' = status
  BY DEF Call, Ready, Lookups, tree
<1> QED
  BY <1>1 DEF Lookups

LEMMA LeftHalfLeaf ==
  ASSUME NEW C, NEW p \in NodeOf(Keys, C), NEW key, NEW r, NEW rrn
  PROVE  LeftHalf(p, key, r, rrn).leaf = p.leaf
<1>1. PICK ks, cs : /\ ks = SubSeq(Overfull(p, key, r).keys, 1, IF p.leaf THEN Half + 1 ELSE Half)
                    /\ cs = SubSeq(Overfull(p, key, r).children, 1, Half + 1)
  OBVIOUS
<1>2. LeftHalf(p, key, r, rrn) = IF p.leaf THEN [p EXCEPT !.keys = ks, !.next_leaf = rrn]
                                 ELSE [p EXCEPT !.keys = ks, !.children = cs]
  BY <1>1 DEF LeftHalf
<1> QED
  BY <1>2 DEF NodeOf

LEMMA SplitLookups == ASSUME IInv, Lookups, Split PROVE Lookups'
<1>1. /\ status = "running" /\ pc = "split" /\ curr \in alive /\ Unused # {}
      /\ root' = root /\ StoreTypes
  BY DEF Split, At, CanAllocate, IInv
<1>2. PICK u \in Nodes : u = NewNode /\ heap[u] = Blank
  BY <1>1, NewNodeProps DEF IInv
<1>3. PICK q, r : q = LeftHalf(heap[curr], promo, ChildRrn, NextRrn)
               /\ r = RightHalf(heap[curr], promo, ChildRrn, NextRrn)
  OBVIOUS
<1>4. curr \in Nodes /\ q.leaf = heap[curr].leaf
  <2>1. curr \in Nodes /\ heap[curr] \in NodeOf(Keys, Nat)
    BY <1>1 DEF StoreTypes
  <2> QED
    BY <1>3, <2>1, LeftHalfLeaf
<1>5. PICK m \in Successes(2) :
        /\ heap' = [heap EXCEPT ![curr] = q, ![u] = r]
        /\ \/ lost' = lost /\ pc' \in {"newroot", "ascend"}
           \/ Return("io")
  BY <1>2, <1>3 DEF Split, Write, WriteAs
<1>6. ASSUME RootInternal PROVE ~heap'[root].leaf
  <2>1. heap[u].leaf
    BY <1>2 DEF Blank
  <2>2. root # u /\ root \in Nodes
    BY <1>1, <1>6, <2>1 DEF RootInternal, StoreTypes
  <2> QED
    BY <1>1, <1>4, <1>5, <1>6, <2>2 DEF StoreTypes, RootInternal
<1> QED
  BY <1>1, <1>5, <1>6, MoveLookups, ReturnLookups DEF Return

LEMMA RemoveLookups == ASSUME IInv, Lookups, RemoveKey PROVE Lookups'
<1>1. status = "running" /\ pc = "remove" /\ curr \in alive /\ StoreTypes /\ curr \in Nodes
  BY DEF RemoveKey, At, IInv, StoreTypes
<1>2. PICK q : q = WithoutKey(heap[curr], op.key)
  OBVIOUS
<1>3. q.leaf = heap[curr].leaf
  <2>1. PICK ks : q = [heap[curr] EXCEPT !.keys = ks]
    BY <1>2 DEF WithoutKey
  <2> QED
    BY <1>1, <2>1 DEF StoreTypes, NodeOf
<1>4. \/ \E code : Return(code)
      \/ /\ heap' = [heap EXCEPT ![curr] = q] /\ root' = root
         /\ pc' = "underflow" /\ lost' = lost
  BY <1>2 DEF RemoveKey, Write, WriteAs, frame
<1>5. CASE \E code : Return(code)
  BY <1>5, ReturnLookups DEF Return
<1>6. CASE /\ heap' = [heap EXCEPT ![curr] = q] /\ root' = root
           /\ pc' = "underflow" /\ lost' = lost
  <2>1. RootInternal => ~heap'[root].leaf
    BY <1>1, <1>3, <1>6 DEF RootInternal, StoreTypes
  <2> QED
    BY <1>1, <1>6, <2>1, MoveLookups
<1> QED
  BY <1>4, <1>5, <1>6

LEMMA NextLookups == ASSUME IInv, Lookups, [Next]_vars PROVE Lookups'
<1>1. StoreTypes /\ alive \subseteq Nodes
  BY DEF IInv, StoreTypes
<1>2. ASSUME NEW code, NEW keys, ReturnKeys(code, keys) PROVE Lookups'
  BY <1>2, ReturnLookups
<1>3. ASSUME NEW k \in Keys, InsertCall(k) \/ SearchCall(k) \/ RemoveCall(k) PROVE Lookups'
  BY <1>3, CallLookups DEF InsertCall, SearchCall, RemoveCall, FindCall
<1>4. ASSUME NEW from \in Keys, NEW to \in Keys, RangeCall(from, to) PROVE Lookups'
  BY <1>4, CallLookups DEF RangeCall
<1>5. CASE FirstRoot \/ LeafInsert \/ AllocationFails \/ FindNoRoot \/ RangeNoRoot
  BY <1>2, <1>5 DEF FirstRoot, LeafInsert, AllocationFails, FindNoRoot, RangeNoRoot, Return
<1>6. CASE Underflow
  BY <1>2, <1>6 DEF Underflow, Redistribute, Merge, Return
<1>7. CASE NewRoot
  BY <1>2, <1>7 DEF NewRoot, Return
<1>8. CASE Descend
  <2>1. /\ status = "running" /\ pc = "descend" /\ curr \in Nodes
        /\ root' = root /\ heap' = heap
    BY <1>1, <1>8 DEF Descend, At, tree
  <2>2. \/ \E code : Return(code)
        \/ pc' \in {"split", "leaf"} /\ lost' = lost
        \/ ~heap[curr].leaf /\ lost' = TRUE /\ pc' = pc
    BY <1>8 DEF Descend, frame
  <2>3. CASE pc' \in {"split", "leaf"} /\ lost' = lost
    BY <2>1, <2>3, MoveLookups DEF RootInternal
  <2> QED
    BY <1>1, <1>2, <2>1, <2>2, <2>3, LookupLookups DEF Return
<1>9. CASE Ascend
  <2>1. /\ status = "running" /\ pc = "ascend" /\ root' = root
    BY <1>9 DEF Ascend, At
  <2>2. \/ \E code : Return(code)
        \/ pc' = "split" /\ lost' = lost /\ heap' = heap
    BY <1>9 DEF Ascend
  <2>3. CASE pc' = "split" /\ lost' = lost /\ heap' = heap
    BY <2>1, <2>3, MoveLookups DEF RootInternal
  <2> QED
    BY <1>2, <2>2, <2>3 DEF Return
<1>10. CASE FindInternal
  <2>1. /\ status = "running" /\ pc = "find" /\ curr \in Nodes /\ ~heap[curr].leaf
        /\ root' = root /\ heap' = heap
    BY <1>1, <1>10 DEF FindInternal, At, tree
  <2>2. \/ \E code : Return(code)
        \/ lost' = TRUE /\ pc' = pc
        \/ status' # "running" /\ lost' = lost
    BY <1>10 DEF FindInternal, frame
  <2> QED
    BY <1>1, <1>2, <2>1, <2>2, LookupLookups, StopLookups DEF Return
<1>11. CASE FindLeaf
  <2>1. /\ status = "running" /\ pc = "find" /\ root' = root /\ heap' = heap
    BY <1>11 DEF FindLeaf, At, tree
  <2>2. \/ \E code : Return(code)
        \/ pc' = "remove" /\ lost' = lost
    BY <1>11 DEF FindLeaf, frame
  <2>3. CASE pc' = "remove" /\ lost' = lost
    BY <2>1, <2>3, MoveLookups DEF RootInternal
  <2> QED
    BY <1>2, <2>2, <2>3 DEF Return
<1>12. CASE RangeDown \/ RangeLeaf
  <2>1. pc = "range"
    BY <1>12 DEF RangeDown, RangeLeaf, At
  <2>2. \/ \E keys : ReturnKeys("keys", keys)
        \/ pc' = pc /\ lost' = TRUE
    BY <1>12 DEF RangeDown, RangeLeaf
  <2> QED
    BY <1>2, <2>1, <2>2, RangeLookups
<1>13. CASE \/ AllocationCrashes \/ RrnClashes \/ ReadPastKeys
            \/ UncheckedAllocationCrashes \/ UseAfterFree \/ StaleRead
  <2>1. status' # "running" /\ lost' = lost
    BY <1>13 DEF AllocationCrashes, RrnClashes, ReadPastKeys, UncheckedAllocationCrashes,
                 UseAfterFree, StaleRead, frame
  <2> QED
    BY <2>1, StopLookups
<1>14. CASE UNCHANGED vars
  BY <1>14 DEF vars, tree, frame, Lookups, RootInternal
<1> QED
  BY <1>3, <1>4, <1>5, <1>6, <1>7, <1>8, <1>9, <1>10, <1>11, <1>12, <1>13, <1>14, SplitLookups,
     RemoveLookups DEF Next, Step

-----------------------------------------------------------------------------
(* What the invariants say, in the words of BTree. *)
LEMMA InvTypes == ASSUME IInv, Lookups PROVE TypeOK
<1>1. StoreTypes /\ CallTypes /\ Control
  BY DEF IInv
<1>2. DOMAIN heap = Nodes /\ \A n \in Nodes : NodeType(heap[n])
  BY <1>1 DEF StoreTypes, NodeOf, NodeType
<1>3. \A i \in DOMAIN path : path[i].node \in Nodes /\ path[i].pos \in 0 .. Order - 1
  BY <1>1, FrameTyped
<1> QED
  BY <1>1, <1>2, <1>3 DEF StoreTypes, CallTypes, Control, Lookups, TypeOK

LEMMA InvBounds == ASSUME IInv PROVE NodeBounds
<1>1. StoreTypes /\ Shapes
  BY DEF IInv
<1>2. \A n \in alive : Shaped(heap[n])
  BY <1>1 DEF StoreTypes, Shapes
<1> QED
  BY <1>2 DEF NodeBounds, Shaped

LEMMA InvKept == ASSUME IInv, Lookups PROVE NoNodeLost
BY DEF IInv, Kept, Lookups, RootInternal, NoNodeLost

LEMMA InvCache == ASSUME IInv PROVE CacheHoldsTree
<1>1. SUFFICES ASSUME Benign, status = "running"
               PROVE  /\ \A n \in alive : Load(heap[n].rrn) = n \/ (n = root /\ "io" \in faults)
                      /\ \A i, j \in DOMAIN cache :
                           i # j => heap[cache[i]].rrn # heap[cache[j]].rrn
  BY DEF CacheHoldsTree, Benign
<1>2. StoreTypes /\ Numbers /\ Stored
  BY <1>1 DEF IInv, Whole
<1>3. ASSUME NEW n \in alive, ~(n = root /\ "io" \in faults) PROVE Load(heap[n].rrn) = n
  <2>1. n \in ToSet(cache)
    BY <1>2, <1>3 DEF Stored
  <2>2. Load(heap[n].rrn) # NoNode
    BY <1>2, <2>1, LoadProps
  <2>3. Load(heap[n].rrn) \in alive /\ heap[Load(heap[n].rrn)].rrn = heap[n].rrn
    BY <1>2, <2>2, LoadProps
  <2> QED
    BY <1>2, <2>3 DEF Numbers, Distinct
<1>4. ASSUME NEW i \in DOMAIN cache, NEW j \in DOMAIN cache, i # j
      PROVE  heap[cache[i]].rrn # heap[cache[j]].rrn
  <2>1. cache[i] \in ToSet(cache) /\ cache[j] \in ToSet(cache)
    BY DEF ToSet
  <2>2. cache[i] \in alive /\ cache[j] \in alive /\ cache[i] # cache[j]
    BY <1>2, <1>4, <2>1 DEF Stored, NoTwice
  <2> QED
    BY <1>2, <2>2 DEF Numbers, Distinct
<1> QED
  BY <1>3, <1>4

(* However the tree begins, and with or without fairness. *)
Specs == Spec \/ WarmSpec \/ AnySpec \/ FairSpec

LEMMA Inductive == Specs => []IInv
<1>1. Init => IInv
  BY InitIInv
<1>2. WarmInit => IInv
  BY WarmInitIInv
<1>3. IInv /\ [Next]_vars => IInv'
  BY NextStep
<1> QED
  BY <1>1, <1>2, <1>3, PTL DEF Specs, Spec, WarmSpec, AnySpec, FairSpec

LEMMA LookupsInductive == Specs => []Lookups
<1>1. Init \/ WarmInit => Lookups
  BY DEF Init, WarmInit, Idle, Lookups
<1>2. IInv /\ Lookups /\ [Next]_vars => Lookups'
  BY NextLookups
<1> QED
  BY <1>1, <1>2, Inductive, PTL DEF Specs, Spec, WarmSpec, AnySpec, FairSpec

(* Every variable keeps its type, whatever fails. *)
THEOREM TypeCorrect == Specs => []TypeOK
<1>1. IInv /\ Lookups => TypeOK
  BY InvTypes
<1> QED
  BY <1>1, Inductive, LookupsInductive, PTL

(* No operation writes past the keys or the children of a node            *)
(* (insert_in_btree_node, split, redistribute and merge), and an internal  *)
(* node always has one child more than it has keys.                        *)
THEOREM ArraysKept == Specs => []NodeBounds
<1>1. IInv => NodeBounds
  BY InvBounds
<1> QED
  BY <1>1, Inductive, PTL

(* No node of the tree that write_index_record failed on, or that the      *)
(* cache pushed out, is left allocated and unreachable.  The objects that  *)
(* load_btree_node takes for its lookups are, with every hit; but none is  *)
(* lost by an insertion, a search or a removal in a tree of one leaf.      *)
THEOREM NodesKept == Specs => []NoNodeLost
<1>1. IInv /\ Lookups => NoNodeLost
  BY InvKept
<1> QED
  BY <1>1, Inductive, LookupsInductive, PTL

(* load_btree_node, which never reads the disk, finds every node of a tree *)
(* that lost none to the cache.                                            *)
THEOREM TreeInCache == Specs => []CacheHoldsTree
<1>1. IInv => CacheHoldsTree
  BY InvCache
<1> QED
  BY <1>1, Inductive, PTL

(* Only an eviction, an emptied root, the removal of an absent key or an   *)
(* allocation that the code does not check leads to freed memory or to a   *)
(* NULL node; failed writes, an alloc_btree_node that gets no memory and   *)
(* rebalancing do not.                                                     *)
THEOREM MemoryKept == Specs => []MemorySafe
<1>1. IInv => MemorySafe
  BY DEF IInv
<1> QED
  BY <1>1, Inductive, PTL
=============================================================================
