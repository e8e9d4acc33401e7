------------------------------- MODULE BTree --------------------------------
(***************************************************************************)
(* The B+-tree index (src/modules/ds/BTree.c): insertion with splits,      *)
(* search, range query and removal with redistribution and merging, over   *)
(* node objects that are found through the cache by their rrn.  One call   *)
(* is in progress at a time; pc is where it is, and each action is the     *)
(* stretch of code up to the next node it works on.                        *)
(*                                                                         *)
(* As built, alloc_btree_node leaves keys and children NULL and writes     *)
(* through them, keys are copied to identifiers that point nowhere, and    *)
(* the cache compares a byte copy of a pointer as if it were a node.  The  *)
(* build with storage FALSE is that program.  TRUE supposes that a node    *)
(* comes with its arrays, a key with its identifier, and that              *)
(* compare_btree_nodes compares the rrns of two nodes; all the rest is as  *)
(* in the source.                                                          *)
(*                                                                         *)
(* Where the code goes on with a freed node, a shared rrn or a sibling on  *)
(* another level the model stops: status says why.                         *)
(***************************************************************************)
EXTENDS BTreeNode, FiniteSets

CONSTANTS
  Keys,           \* key identifiers
  DataRrn,        \* the data_register_rrn each key is inserted with
  Setups,         \* what a behaviour may be set up with, see setup
  MaxNodes,       \* bound: node objects ever allocated
  MaxFree,        \* bound: a removal starts with at most this many free rrns
  NoOp            \* no call in progress

NoNode == 0
Nodes  == 1 .. MaxNodes

ASSUME KeysAssumption == Keys \subseteq Nat \ {0} /\ DataRrn \in [Keys -> Nat]
ASSUME SetupsAssumption ==
  Setups \subseteq [capacity : Nat \ {0}, storage : BOOLEAN, failures : SUBSET {"io", "mem"},
                    free_rrn : Seq(Nat), reserve : Nat \ {0}]
ASSUME BTreeBounds == MaxNodes \in Nat \ {0} /\ MaxFree \in Nat

(* The calls there are. *)
Requests == [kind : {"insert", "search", "remove"}, key : Keys]
              \cup [kind : {"range"}, from : Keys, to : Keys]

ASSUME NoOpAssumption == NoOp \notin Requests

VARIABLES
  heap,      \* the node objects, the freed ones included
  alive,     \* those not freed
  root,      \* b->root
  cache,     \* b->cache.gq, oldest first
  setup,     \* b->cache.cache_capacity, the build, what may fail: "io" (index
             \* writes), "mem" (g_alloc); of a warm start, the free rrns; and a
             \* bound: the unused node objects an insertion starts with
  free_rrn,  \* b->io.index->free_rrn, head first
  op,        \* the call in progress
  pc,        \* where it is
  curr,      \* the node it is at
  path,      \* the frames of insert_key above curr: node and position
  promo,     \* the key to insert at curr, or promoted from it
  r_child,   \* the node right of promo
  seen,      \* the keys a range query has found
  lost,      \* the call has lost a node object that it took to look one up
  answer,    \* what the last call returned
  status,    \* the process: running, exited, crashed, corrupt or clashed
  faults     \* history: the faults of the code met so far

tree  == <<heap, alive, root, cache, free_rrn>>
frame == <<curr, path, promo, r_child, seen, lost>>
vars  == <<tree, setup, op, pc, frame, answer, status, faults>>

Blank    == [rrn |-> NoRrn, leaf |-> TRUE, keys |-> <<>>, children |-> <<>>,
             next_leaf |-> NoRrn]
NoAnswer == [code |-> "none", keys |-> <<>>]

Idle ==
  /\ op = NoOp
  /\ pc = "idle"
  /\ curr = NoNode
  /\ path = <<>>
  /\ promo = 0
  /\ r_child = NoNode
  /\ seen = <<>>
  /\ lost = FALSE
  /\ answer = NoAnswer
  /\ status = "running"
  /\ faults = {}

(* create_btree_from_file over an empty data file: no root, rrn 0 free. *)
Init ==
  /\ heap = [n \in Nodes |-> Blank]
  /\ alive = {}
  /\ root = NoNode
  /\ cache = <<>>
  /\ free_rrn = <<0>>
  /\ setup \in Setups
  /\ Idle

(* The same tree later: one key left in the root leaf, which has rrn 0,    *)
(* after insertions and removals of keys whose data rrns are free now.     *)
WarmInit ==
  /\ \E k \in Keys :
       heap = [n \in Nodes |-> IF n = 1 THEN [Blank EXCEPT !.rrn = 0, !.keys = <<k>>]
                                        ELSE Blank]
  /\ alive = {1}
  /\ root = 1
  /\ cache = <<1>>
  /\ setup \in {s \in Setups : s.storage}
  /\ free_rrn = setup.free_rrn
  /\ Idle

-----------------------------------------------------------------------------
(* alloc_btree_node returns an object never used before. *)
Unused  == {n \in Nodes : heap[n] = Blank}
NewNode == Min(Unused)

(* get_free_rrn: the head of the list, or the size of the empty list. *)
NextRrn == IF free_rrn = <<>> THEN 0 ELSE Head(free_rrn)
RestRrn == IF free_rrn = <<>> THEN <<>> ELSE Tail(free_rrn)

RrnIsFresh == \A n \in alive : heap[n].rrn # NextRrn

(* search_gq with compare_btree_nodes: the oldest entry with that rrn. *)
Hits(rrn) == {i \in DOMAIN cache : cache[i] \in alive /\ heap[cache[i]].rrn = rrn}

(* load_btree_node: a miss is NULL, the disk is never read.  A new node    *)
(* object is taken before the cache is looked at; a miss gives it back,    *)
(* and a hit forgets it: where a call goes on from a hit, lost is set.     *)
Load(rrn) == IF Hits(rrn) = {} THEN NoNode ELSE cache[Min(Hits(rrn))]

(* Mutant of Put: the new entry is not compared with the cached ones. *)
PutAlways(s, h, n) ==
  LET c == Append(s.cache, n) IN
  IF Len(c) >= setup.capacity
  THEN [cache |-> Tail(c), alive |-> s.alive \ {Head(c)}]
  ELSE [s EXCEPT !.cache = c]

(* The end of write_index_record for node n of h: cached unless its rrn    *)
(* is; a full cache pops and frees its oldest node, whoever uses it.       *)
Put(s, h, n) ==
  LET c == Append(s.cache, n) IN
  CASE \E m \in ToSet(s.cache) \cap s.alive : h[m].rrn = h[n].rrn -> s
    [] OTHER -> IF Len(c) >= setup.capacity
                THEN [cache |-> Tail(c), alive |-> s.alive \ {Head(c)}]
                ELSE [s EXCEPT !.cache = c]

(* The nodes d levels below the root, as far as they can be loaded. *)
Level(d) ==
  LET level[e \in 0 .. d] ==
        (IF e = 0 THEN {root}
         ELSE UNION {{Load(c) : c \in ToSet(heap[n].children)} : n \in level[e - 1]})
          \ {NoNode}
  IN  level[d]

Reached == UNION {Level(d) : d \in 0 .. Cardinality(alive)}

(* How many of n writes succeed before one fails. *)
Successes(n) == IF "io" \in setup.failures THEN 0 .. n ELSE {n}

(* The first m of the one or two nodes ns are written. *)
PutFirst(s, h, ns, m) ==
  CASE m = 0 -> s
    [] m = 1 -> Put(s, h, ns[1])
    [] m = 2 -> Put(Put(s, h, ns[1]), h, ns[2])

(* Mutant of WriteAs: a node that cannot be written is not freed. *)
WriteAsKeepsNode(h, live, ns, m, dropped, extra) ==
  LET s == PutFirst([cache |-> cache, alive |-> live], h, ns, m)
  IN  /\ heap'  = h
      /\ cache' = s.cache
      /\ alive' = s.alive
      /\ faults' = faults \cup extra \cup (IF m = Len(ns) THEN {} ELSE {"io"})

(* The nodes ns of h are written in this order, the first m successfully;  *)
(* the nodes in dropped are freed when one fails.  extra is what the call  *)
(* itself adds to the history.                                             *)
WriteAs(h, live, ns, m, dropped, extra) ==
  LET s == PutFirst([cache |-> cache, alive |-> live], h, ns, m)
  IN  /\ heap'  = h
      /\ cache' = s.cache
      /\ alive' = IF m = Len(ns) THEN s.alive ELSE s.alive \ dropped
      /\ faults' = faults \cup extra
                          \cup (IF s.alive = live THEN {} ELSE {"evicted"})
                          \cup (IF m = Len(ns) THEN {} ELSE {"io"})

Write(h, live, ns, m, dropped) == WriteAs(h, live, ns, m, dropped, {})

(* The call returns. *)
ReturnKeys(code, keys) ==
  /\ op'      = NoOp
  /\ pc'      = "idle"
  /\ curr'    = NoNode
  /\ path'    = <<>>
  /\ promo'   = 0
  /\ r_child' = NoNode
  /\ seen'    = <<>>
  /\ lost'    = FALSE
  /\ answer'  = [code |-> code, keys |-> keys]

Return(code) == ReturnKeys(code, <<>>)

Ready == status = "running" /\ pc = "idle"

(* A call starts at the root. *)
Call(request, where, key) ==
  /\ op'     = request
  /\ pc'     = where
  /\ curr'   = root
  /\ promo'  = key
  /\ answer' = NoAnswer
  /\ UNCHANGED <<tree, path, r_child, seen, lost, status, setup, faults>>

(* The rrn of the child to insert with promo. *)
ChildRrn == IF r_child = NoNode THEN NoRrn ELSE heap[r_child].rrn

(* The node curr is at, while the code may use it. *)
At(where) == status = "running" /\ pc = where /\ curr \in alive

-----------------------------------------------------------------------------
(* b_insert. *)
InsertCall(k) ==
  /\ Ready
  /\ Cardinality(Unused) >= setup.reserve
  /\ Call([kind |-> "insert", key |-> k],
          IF root = NoNode THEN "first" ELSE "descend", k)

(* Bound: there is an unused node object. *)
CanAllocate == status = "running" /\ setup.storage /\ RrnIsFresh /\ Unused # {}

(* An empty tree: the new root is a leaf with the one key.  It stays the   *)
(* root even when it cannot be written.                                    *)
FirstRoot ==
  /\ pc = "first"
  /\ CanAllocate
  /\ \E m \in Successes(1) :
       LET h == [heap EXCEPT ![NewNode] =
                   [Blank EXCEPT !.rrn = NextRrn, !.keys = <<promo>>]]
       IN  /\ Write(h, alive \cup {NewNode}, <<NewNode>>, m, {})
           /\ Return(IF m = 1 THEN "ok" ELSE "io")
  /\ root' = NewNode
  /\ free_rrn' = RestRrn
  /\ UNCHANGED <<status, setup>>

(* insert_key at a node on the way down. *)
Descend ==
  /\ At("descend")
  /\ LET p == heap[curr]
         pos == SearchPos(p, promo)
         child == Load(p.children[pos + 1])
     IN  \/ /\ Found(p, promo)
            /\ Return("duplicate")
         \/ /\ ~Found(p, promo) /\ p.leaf
            /\ pc' = IF Full(p) THEN "split" ELSE "leaf"
            /\ UNCHANGED <<op, frame, answer>>
         \/ /\ ~Found(p, promo) /\ ~p.leaf /\ child # NoNode
            /\ path' = Append(path, [node |-> curr, pos |-> pos])
            /\ curr' = child
            /\ lost' = TRUE
            /\ UNCHANGED <<op, pc, promo, r_child, seen, answer>>
         \/ /\ ~Found(p, promo) /\ ~p.leaf /\ child = NoNode
            /\ Return("io")
  /\ UNCHANGED <<tree, status, setup, faults>>

(* Mutant of LeafInsert: a leaf that cannot be written is freed. *)
LeafInsertFrees ==
  /\ At("leaf")
  /\ \E m \in Successes(1) :
       LET h == [heap EXCEPT ![curr] =
                   InsertInNode(@, promo, NoRrn, SearchPos(@, promo))]
       IN  /\ Write(h, alive, <<curr>>, m, {curr})
           /\ Return(IF m = 1 THEN "ok" ELSE "io")
  /\ UNCHANGED <<root, free_rrn, status, setup>>

(* A leaf with room takes the key. *)
LeafInsert ==
  /\ At("leaf")
  /\ \E m \in Successes(1) :
       LET h == [heap EXCEPT ![curr] =
                   InsertInNode(@, promo, NoRrn, SearchPos(@, promo))]
       IN  /\ Write(h, alive, <<curr>>, m, {})
           /\ Return(IF m = 1 THEN "ok" ELSE "io")
  /\ UNCHANGED <<root, free_rrn, status, setup>>

(* split: the old node keeps the lower half, a new one gets the upper; the *)
(* new one is freed when either cannot be written.                         *)
Split ==
  /\ At("split")
  /\ CanAllocate
  /\ \E m \in Successes(2) :
       LET p == heap[curr]
           h == [heap EXCEPT
                   ![curr]    = LeftHalf(p, promo, ChildRrn, NextRrn),
                   ![NewNode] = RightHalf(p, promo, ChildRrn, NextRrn)]
       IN  /\ Write(h, alive \cup {NewNode}, <<curr, NewNode>>, m, {NewNode})
           /\ \/ /\ m = 2
                 /\ promo'   = Promoted(p, promo)
                 /\ r_child' = NewNode
                 /\ pc' = IF path = <<>> THEN "newroot" ELSE "ascend"
                 /\ UNCHANGED <<op, curr, path, seen, lost, answer>>
              \/ m < 2 /\ Return("io")
  /\ free_rrn' = RestRrn
  /\ UNCHANGED <<root, status, setup>>

(* Back in the frame above: its node takes the promoted key, or splits. *)
Ascend ==
  /\ At("ascend")
  /\ {Last(path).node, r_child} \subseteq alive
  /\ LET parent == Last(path).node IN
     \/ /\ ~Full(heap[parent])
        /\ \E m \in Successes(1) :
             LET h == [heap EXCEPT ![parent] =
                         InsertInNode(@, promo, ChildRrn, Last(path).pos)]
             IN  /\ Write(h, alive, <<parent>>, m, {})
                 /\ Return(IF m = 1 THEN "ok" ELSE "io")
     \/ /\ Full(heap[parent])
        /\ curr' = parent
        /\ path' = Front(path)
        /\ pc'   = "split"
        /\ UNCHANGED <<heap, cache, alive, op, promo, r_child, seen, lost, answer, faults>>
  /\ UNCHANGED <<root, free_rrn, status, setup>>

(* The root has split: a root above it, or the end of the process. *)
NewRoot ==
  /\ At("newroot")
  /\ r_child \in alive
  /\ CanAllocate
  /\ \E m \in Successes(1) :
       LET h == [heap EXCEPT ![NewNode] =
                   [Blank EXCEPT !.rrn = NextRrn, !.leaf = FALSE, !.keys = <<promo>>,
                                 !.children = <<heap[root].rrn, heap[r_child].rrn>>]]
       IN  /\ Write(h, alive \cup {NewNode}, <<NewNode>>, m, {NewNode})
           /\ Return(IF m = 1 THEN "ok" ELSE "io")
           /\ root' = IF m = 1 THEN NewNode ELSE root
           /\ status' = IF m = 1 THEN status ELSE "exited"
  /\ free_rrn' = RestRrn
  /\ UNCHANGED setup

Allocating == status = "running" /\ (pc = "first" \/ At("split") \/ At("newroot"))

(* Mutant of AllocationFails: the old node is cut before there is a new one. *)
AllocationFailsLate ==
  /\ Allocating
  /\ "mem" \in setup.failures
  /\ heap' = IF pc = "split"
             THEN [heap EXCEPT ![curr] = LeftHalf(@, promo, ChildRrn, NoRrn)]
             ELSE heap
  /\ faults' = faults \cup (IF r_child = NoNode THEN {} ELSE {"mem"})
  /\ Return("memory")
  /\ UNCHANGED <<alive, root, cache, free_rrn, status, setup>>

(* alloc_btree_node gets no memory.  Once a node has been split its upper  *)
(* half is lost to the tree.                                               *)
AllocationFails ==
  /\ Allocating
  /\ "mem" \in setup.failures
  /\ faults' = faults \cup (IF r_child = NoNode THEN {} ELSE {"mem"})
  /\ Return("memory")
  /\ UNCHANGED <<tree, status, setup>>

(* As built, alloc_btree_node writes through a NULL array. *)
AllocationCrashes ==
  /\ Allocating
  /\ ~setup.storage
  /\ status' = "crashed"
  /\ UNCHANGED <<tree, setup, op, pc, frame, answer, faults>>

(* get_free_rrn hands out an rrn that a live node already has. *)
RrnClashes ==
  /\ Allocating
  /\ setup.storage
  /\ ~RrnIsFresh
  /\ status' = "clashed"
  /\ UNCHANGED <<tree, setup, op, pc, frame, answer, faults>>

-----------------------------------------------------------------------------
(* b_search, for its caller or for b_remove.  Without a root, b_search is  *)
(* NULL and b_remove an error: both are the answer "not found".            *)
FindCall(kind, k) == Ready /\ Call([kind |-> kind, key |-> k], "find", 0)

SearchCall(k) == FindCall("search", k)
RemoveCall(k) == Len(free_rrn) <= MaxFree /\ FindCall("remove", k)

FindNoRoot ==
  /\ status = "running" /\ pc = "find" /\ curr = NoNode
  /\ Return("not found")
  /\ UNCHANGED <<tree, status, setup, faults>>

(* search_key at an internal node: a key found there ends the search with  *)
(* NULL; a child that cannot be loaded makes b_search dereference NULL.    *)
FindInternal ==
  /\ At("find")
  /\ LET p == heap[curr]
         child == Load(p.children[SearchPos(p, op.key) + 1])
     IN  /\ ~p.leaf
         /\ \/ /\ Found(p, op.key)
               /\ Return(IF op.kind = "search" THEN "null" ELSE "not found")
               /\ UNCHANGED status
            \/ /\ ~Found(p, op.key) /\ child # NoNode
               /\ curr' = child
               /\ lost' = TRUE
               /\ UNCHANGED <<op, pc, path, promo, r_child, seen, answer, status>>
            \/ /\ ~Found(p, op.key) /\ child = NoNode
               /\ status' = "crashed"
               /\ UNCHANGED <<op, pc, frame, answer>>
  /\ UNCHANGED <<tree, setup, faults>>

FindLeaf ==
  /\ At("find")
  /\ heap[curr].leaf
  /\ \/ /\ Found(heap[curr], op.key) /\ op.kind = "remove"
        /\ pc' = "remove"
        /\ UNCHANGED <<op, frame, answer>>
     \/ /\ Found(heap[curr], op.key) /\ op.kind = "search"
        /\ Return("found")
     \/ /\ ~Found(heap[curr], op.key)
        /\ Return("not found")
  /\ UNCHANGED <<tree, status, setup, faults>>

(* b_remove of a key that is not there reads keys[65535]; "not found" is   *)
(* what the code says if that read does no harm, and this if it does.      *)
ReadPastKeys ==
  /\ At("find")
  /\ op.kind = "remove"
  /\ heap[curr].leaf
  /\ ~Found(heap[curr], op.key)
  /\ status' = "corrupt"
  /\ faults' = faults \cup {"past keys"}
  /\ UNCHANGED <<tree, setup, op, pc, frame, answer>>

(* b_remove takes the key out of its leaf.  The data rrn of the key goes   *)
(* to the free list of the index.  A root leaf left empty is freed, but    *)
(* neither its rrn nor its place in the cache is given back.               *)
RemoveKey ==
  /\ At("remove")
  /\ free_rrn' = <<DataRrn[op.key]>> \o free_rrn
  /\ LET h == [heap EXCEPT ![curr] = WithoutKey(@, op.key)]
         left == Len(h[curr].keys)
     IN  \/ /\ curr = root /\ left = 0
            /\ heap' = h
            /\ alive' = alive \ {curr}
            /\ root' = NoNode
            /\ faults' = faults \cup {"stale"}
            /\ Return("ok")
            /\ UNCHANGED cache
         \/ /\ ~(curr = root /\ left = 0)
            /\ \E m \in Successes(1) :
                 /\ Write(h, alive, <<curr>>, m, {})
                 /\ IF m = 1 /\ curr # root /\ left < Half
                      THEN pc' = "underflow" /\ UNCHANGED <<op, frame, answer>>
                      ELSE Return(IF m = 1 THEN "ok" ELSE "io")
            /\ UNCHANGED root
  /\ UNCHANGED <<status, setup>>

(* find_parent: the node that has n's rrn among its children. *)
Parents(n) == {q \in Reached : heap[n].rrn \in ToSet(heap[q].children)}

(* get_sibling of n under q, d places to the right. *)
Sibling(q, n, d) ==
  LET c == heap[q].children
      pos == Min({i \in DOMAIN c : c[i] = heap[n].rrn})
  IN  IF pos + d \in DOMAIN c THEN Load(c[pos + d]) ELSE NoNode

CanGive(n) == n # NoNode /\ Len(heap[n].keys) > Half

(* get_sibling of the node curr, under the parent that find_parent gives. *)
Beside(d) ==
  LET parents == Parents(curr)
  IN  IF parents = {} THEN NoNode ELSE Sibling(CHOOSE q \in parents : TRUE, curr, d)

(* The sibling a leaf short of keys turns to, if there is one: one that    *)
(* can give a key, the left one first.                                     *)
Helper ==
  IF CanGive(Beside(-1)) \/ (Beside(-1) # NoNode /\ ~CanGive(Beside(1)))
  THEN Beside(-1) ELSE Beside(1)

(* The nodes the next step of the call works on. *)
Needed ==
  ({curr} \ {NoNode})
    \cup (IF pc \in {"ascend", "newroot"} THEN {r_child} ELSE {})
    \cup (IF pc = "ascend" THEN {Last(path).node} ELSE {})
    \cup (IF pc = "underflow" THEN {Helper} \ {NoNode} ELSE {})

(* Those it can work on: not freed, and of the level of curr when keys go  *)
(* from one to the other.                                                  *)
Usable == {n \in alive : pc = "underflow" => heap[n].leaf}

(* redistribute: the donor is written first. *)
Redistribute(donor, from_left) ==
  /\ \E m \in Successes(2) :
       /\ WriteAs([heap EXCEPT
                     ![donor] = DonorAfter(@, from_left),
                     ![curr]  = ReceiverAfter(heap[donor], @, from_left)],
                  alive, <<donor, curr>>, m, {}, {"rebalanced"})
       /\ Return(IF m = 2 THEN "ok" ELSE "io")
  /\ UNCHANGED free_rrn

(* merge: the rrn of the right leaf is given back, the leaf is not.  Its   *)
(* parent still leads to it.                                               *)
Merge(left, right) ==
  \E m \in Successes(1) :
    /\ WriteAs([heap EXCEPT ![left] = MergedLeft(@, heap[right])],
               alive, <<left>>, m, {}, {"rebalanced"})
    /\ free_rrn' = IF m = 1 THEN <<heap[right].rrn>> \o free_rrn ELSE free_rrn
    /\ Return(IF m = 1 THEN "ok" ELSE "io")

(* The leaf is short of keys: one from the left or the right sibling, or   *)
(* all of them merged, or nothing when it has no sibling.                  *)
Underflow ==
  /\ At("underflow")
  /\ Needed \subseteq Usable
  /\ LET left  == Beside(-1)
         right == Beside(1)
     IN  \/ CanGive(left) /\ Redistribute(left, TRUE)
         \/ ~CanGive(left) /\ CanGive(right) /\ Redistribute(right, FALSE)
         \/ ~CanGive(left) /\ ~CanGive(right) /\ left # NoNode /\ Merge(left, curr)
         \/ /\ ~CanGive(left) /\ ~CanGive(right) /\ left = NoNode /\ right # NoNode
            /\ Merge(curr, right)
         \/ /\ left = NoNode /\ right = NoNode
            /\ Return("ok")
            /\ UNCHANGED <<heap, cache, alive, free_rrn, faults>>
  /\ UNCHANGED <<root, status, setup>>

-----------------------------------------------------------------------------
(* b_range_search: down to the leaf of the first key, then along the list. *)
RangeCall(from, to) ==
  Ready /\ Call([kind |-> "range", from |-> from, to |-> to], "range", 0)

RangeDown ==
  /\ At("range")
  /\ LET p == heap[curr]
         child == Load(p.children[RangePos(p, op.from) + 1])
     IN  /\ ~p.leaf
         /\ IF child = NoNode
              THEN ReturnKeys("keys", seen)
              ELSE /\ curr' = child
                   /\ lost' = TRUE
                   /\ UNCHANGED <<op, pc, path, promo, r_child, seen, answer>>
  /\ UNCHANGED <<tree, status, setup, faults>>

(* Bound: a query that goes round a circle of leaves is not followed       *)
(* further than this many keys.                                            *)
MaxSeen == 2 * Cardinality(Keys)

(* The keys of p in the range, up to the first one past it. *)
InRange(p, from, to) ==
  LET kept[i \in 0 .. RangePos(p, to)] ==
        CASE i = 0 -> <<>>
          [] i > 0 /\ p.keys[i] >= from -> Append(kept[i - 1], p.keys[i])
          [] OTHER -> kept[i - 1]
  IN  kept[RangePos(p, to)]

(* The range ends before the keys of p. *)
Past(p) == p.keys # <<>> /\ p.keys[1] > op.to

RangeLeaf ==
  /\ At("range")
  /\ heap[curr].leaf
  /\ LET p == heap[curr]
         found == seen \o InRange(p, op.from, op.to)
         next == Load(p.next_leaf)
     IN  IF Past(p)
         THEN ReturnKeys("keys", seen)
         ELSE IF p.next_leaf = NoRrn \/ next = NoNode
         THEN ReturnKeys("keys", found)
         ELSE /\ Len(found) <= MaxSeen
              /\ curr' = next
              /\ seen' = found
              /\ lost' = TRUE
              /\ UNCHANGED <<op, pc, path, promo, r_child, answer>>
  /\ UNCHANGED <<tree, status, setup, faults>>

RangeNoRoot ==
  /\ status = "running" /\ pc = "range" /\ curr = NoNode
  /\ ReturnKeys("keys", <<>>)
  /\ UNCHANGED <<tree, status, setup, faults>>

-----------------------------------------------------------------------------
(* The next step of the call takes memory without a look at what it gets:  *)
(* load_btree_node its node object, push_gq a cell for a node that is not  *)
(* cached, insert_ll one for a free rrn.                                   *)
LooksUp(key) == curr # NoNode /\ ~heap[curr].leaf /\ ~Found(heap[curr], key)

TakesUnchecked ==
  \/ pc \in {"first", "split", "newroot", "remove", "underflow"}
  \/ pc = "leaf" /\ Hits(heap[curr].rrn) = {}
  \/ pc = "ascend" /\ Hits(heap[Last(path).node].rrn) = {}
  \/ pc = "descend" /\ LooksUp(promo)
  \/ pc = "find" /\ LooksUp(op.key)
  \/ pc = "range" /\ curr # NoNode
       /\ heap[curr].leaf => ~Past(heap[curr]) /\ heap[curr].next_leaf # NoRrn

(* There is none: it writes through NULL. *)
UncheckedAllocationCrashes ==
  /\ status = "running" /\ setup.storage
  /\ "mem" \in setup.failures
  /\ Needed \subseteq Usable
  /\ TakesUnchecked
  /\ status' = "crashed"
  /\ faults' = faults \cup {"unchecked"}
  /\ UNCHANGED <<tree, setup, op, pc, frame, answer>>

(* A node that was freed while the call, or the root, still refers to it:  *)
(* it is read, or a frame of insert_key that no longer finds its child in  *)
(* the cache frees it again.  Or the rrn of a freed sibling is that of an  *)
(* internal node now: keys move between levels, and children do not.       *)
UseAfterFree ==
  /\ status = "running" /\ pc # "idle"
  /\ ~(Needed \subseteq Usable)
  /\ status' = "corrupt"
  /\ UNCHANGED <<tree, setup, op, pc, frame, answer, faults>>

(* The cache still lists a freed node: comparing it reads freed memory,    *)
(* which may do harm (this action) or not (all the others).                *)
StaleRead ==
  /\ status = "running" /\ pc # "idle"
  /\ ~(ToSet(cache) \subseteq alive)
  /\ status' = "corrupt"
  /\ UNCHANGED <<tree, setup, op, pc, frame, answer, faults>>

(* The call in progress goes on. *)
Step ==
  \/ FirstRoot \/ Descend \/ LeafInsert \/ Split \/ Ascend \/ NewRoot
  \/ AllocationFails \/ AllocationCrashes \/ RrnClashes
  \/ FindNoRoot \/ FindInternal \/ FindLeaf \/ ReadPastKeys
  \/ RemoveKey \/ Underflow
  \/ RangeDown \/ RangeLeaf \/ RangeNoRoot
  \/ UncheckedAllocationCrashes \/ UseAfterFree \/ StaleRead

Next ==
  \/ Step
  \/ \E k \in Keys : InsertCall(k) \/ SearchCall(k) \/ RemoveCall(k)
  \/ \E from, to \in Keys : RangeCall(from, to)

Spec     == Init /\ [][Next]_vars
WarmSpec == WarmInit /\ [][Next]_vars
AnySpec  == (WarmInit \/ (Init /\ ~setup.storage)) /\ [][Next]_vars
FairSpec == WarmSpec /\ WF_vars(Step)
-----------------------------------------------------------------------------
NodeType(n) ==
  /\ n.rrn \in Nat \cup {NoRrn}
  /\ n.leaf \in BOOLEAN
  /\ n.keys \in Seq(Keys)
  /\ n.children \in Seq(Nat)
  /\ n.next_leaf \in Nat \cup {NoRrn}

(* The state has the types of the structs of BTree.h; rrns are numbers.    *)
TypeOK ==
  /\ DOMAIN heap = Nodes /\ \A n \in Nodes : NodeType(heap[n])
  /\ alive \subseteq Nodes
  /\ {root, curr, r_child} \subseteq Nodes \cup {NoNode}
  /\ setup \in Setups
  /\ cache \in Seq(Nodes)
  /\ free_rrn \in Seq(Nat)
  /\ pc \in {"idle", "first", "descend", "leaf", "split", "ascend", "newroot",
            "find", "remove", "underflow", "range"}
  /\ pc = "idle" <=> op = NoOp
  /\ \A i \in DOMAIN path : path[i].node \in Nodes /\ path[i].pos \in 0 .. Order - 1
  /\ promo \in Keys \cup {0}
  /\ seen \in Seq(Keys) /\ answer.keys \in Seq(Keys)
  /\ lost \in BOOLEAN
  /\ status \in {"running", "exited", "crashed", "corrupt", "clashed"}
  /\ faults \subseteq {"evicted", "io", "mem", "rebalanced", "stale", "past keys", "unchecked"}

(* No node array is ever overrun, whatever failed before: a node has room  *)
(* for Order - 1 keys and Order children, and as many children as it has   *)
(* keys, plus one.                                                         *)
NodeBounds ==
  \A n \in alive :
    /\ Len(heap[n].keys) <= Order - 1
    /\ Len(heap[n].children) = IF heap[n].leaf THEN 0 ELSE Len(heap[n].keys) + 1

(* Given node storage, and as long as the cache has evicted nothing, no    *)
(* root was emptied, no absent key was removed, and memory was there       *)
(* wherever the code takes it without a look, the tree never touches freed *)
(* memory nor a NULL node: neither failed writes, nor nodes that           *)
(* alloc_btree_node does not get, nor rebalancing lead there.              *)
MemorySafe ==
  setup.storage /\ faults \subseteq {"io", "mem", "rebalanced"} => status \notin {"corrupt", "crashed"}

(* The leaves of the index, and the keys they hold. *)
Leaves   == {n \in alive : heap[n].leaf}
Contents == UNION {ToSet(heap[n].keys) : n \in Leaves}

Sound == faults = {} /\ status = "running"

(* While nothing went wrong, the next_leaf links run through every leaf in *)
(* ascending key order, also in the middle of an insertion: each leaf but  *)
(* the last links to the one leaf whose keys are the next larger ones.     *)
LeafListOrdered ==
  Sound /\ pc # "underflow" =>
    /\ \A n \in Leaves : Ascending(heap[n].keys)
    /\ \A m, n \in Leaves : m # n =>
         \/ Last(heap[m].keys) < Head(heap[n].keys)
         \/ Last(heap[n].keys) < Head(heap[m].keys)
    /\ \A n \in Leaves :
         LET larger == {m \in Leaves : Head(heap[m].keys) > Last(heap[n].keys)}
         IN  IF larger = {} THEN heap[n].next_leaf = NoRrn
             ELSE /\ Load(heap[n].next_leaf) \in larger
                  /\ \A m \in larger :
                       heap[m].keys[1] >= heap[Load(heap[n].next_leaf)].keys[1]

(* Between calls, while nothing went wrong, every node is reached from the *)
(* root, the leaves are all on one level, and no node but the root is      *)
(* less than half full.                                                    *)
Balanced ==
  Sound /\ pc = "idle" =>
    /\ Reached = alive
    /\ \A d \in 0 .. MaxNodes : Level(d) \cap Leaves \in {{}, Level(d)}
    /\ \A n \in alive \ {root} : Len(heap[n].keys) >= Half

(* The disk is never read, so the tree must be in the cache: as long as    *)
(* nothing was evicted, every node but a root that could not be written is *)
(* found there by its rrn, and found once.                                 *)
CacheHoldsTree ==
  faults \subseteq {"io", "mem", "rebalanced"} /\ status = "running" =>
    /\ \A n \in alive : Load(heap[n].rrn) = n \/ (n = root /\ "io" \in faults)
    /\ \A i, j \in DOMAIN cache : i # j => heap[cache[i]].rrn # heap[cache[j]].rrn

(* No node of the tree is lost, whatever fails: one that is not freed can  *)
(* still be found, in the cache or as the root.  What is lost are the      *)
(* objects taken to look nodes up, one with every hit; a tree that is a    *)
(* single leaf loses none to an insertion, a search or a removal.          *)
NoNodeLost ==
  status = "running" =>
    /\ alive \subseteq ToSet(cache) \cup {root}
    /\ lost /\ pc # "range" => root # NoNode /\ ~heap[root].leaf

(* The keys of internal nodes. *)
Routing == UNION {ToSet(heap[n].keys) : n \in alive \ Leaves}

(* The index keeps the promise of IndexMap until one of its faults.        *)
Promise == INSTANCE IndexMap
  WITH present <- Contents,
       routing <- Routing,
       done    <- pc \in {"split", "ascend", "newroot", "underflow"}
                    /\ (r_child # NoNode \/ pc = "underflow"),
       broken  <- ~Sound

KeepsPromise == Promise!Spec

(* Every call returns or the process ends: no descent, no ascent and no    *)
(* walk along the leaves goes on for ever.                                 *)
CallsReturn == pc # "idle" ~> (pc = "idle" \/ status # "running")

(* "No free RRN available, allocating new RRN" (BTree.c:990): the number   *)
(* handed out when the list is empty is new.  The code violates it.        *)
NewRrnIsNew ==
  status = "clashed" => free_rrn # <<>>

(* A search for an inserted key finds it: "All values found"               *)
(* (test_btree.c:24).  The code violates it for a key in an internal node. *)
AllValuesFound ==
  [][op # NoOp /\ op' = NoOp /\ op.kind = "search" /\ op.key \in Contents
       => answer'.code = "found"]_vars
=============================================================================
