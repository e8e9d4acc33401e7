-------------------------- MODULE BTreeNodeProofs ---------------------------
(***************************************************************************)
(* What the functions of BTreeNode return, for any order and any keys: the *)
(* shape of the arrays first, then the order of the keys in them, and what *)
(* they do to the range of keys that each child has to itself.             *)
(***************************************************************************)
EXTENDS BTreeNode, SequenceTheorems, WellFoundedInduction, TLAPS

(* A set of naturals that is not empty has a least element. *)
LEMMA HasLeast ==
  ASSUME NEW T \in SUBSET Nat, T # {}
  PROVE  \E i \in T : \A j \in T : i <= j
<1> DEFINE R == {ss \in Nat \X Nat : ss[1] < ss[2]}
<1>1. IsWellFoundedOn(R, Nat)
  BY NatLessThanWellFounded, Zenon DEF OpToRel
<1>2. \A x, y \in Nat : x < y => <<x, y>> \in R
  OBVIOUS
<1> HIDE DEF R
<1>3. PICK i \in T : \A j \in T : ~ (<<j, i>> \in R)
  BY <1>1, WFMin, Zenon
<1>4. ASSUME NEW j \in T PROVE i <= j
  <2>1. i \in Nat /\ j \in Nat /\ ~ (<<j, i>> \in R)
    BY <1>3
  <2>2. ~ (j < i)
    BY <1>2, <2>1, Zenon
  <2> QED
    BY <2>1, <2>2
<1> QED
  BY <1>4

LEMMA MinIsLeast ==
  ASSUME NEW T \in SUBSET Nat, T # {}
  PROVE  Min(T) \in T /\ \A j \in T : Min(T) <= j
<1>1. \E i \in T : \A j \in T : i <= j
  BY HasLeast
<1>2. \A i, j \in T : i <= j <=> i =< j
  OBVIOUS
<1> QED
  BY <1>1 DEF Min

(* A loop that starts with a and whose turn i makes G of what it had:      *)
(* there is such a function of the turns done, and it stays in V.          *)
LoopOf(f, V, a, G, n) ==
  f \in [0 .. n -> V] /\ f[0] = a /\ \A i \in 1 .. n : f[i] = G[<<i, f[i - 1]>>]

LEMMA LoopExists ==
  ASSUME NEW V, NEW a \in V, NEW G \in [Nat \X V -> V], NEW n \in Nat
  PROVE  \E f : LoopOf(f, V, a, G, n)
<1> DEFINE IsLoop(f, m) == f[0] = a /\ \A i \in 1 .. m : f[i] = G[<<i, f[i - 1]>>]
<1> DEFINE T == {m \in Nat : ~\E f \in [0 .. m -> V] : IsLoop(f, m)}
<1>1. SUFFICES T = {}
  BY DEF LoopOf
<1>2. SUFFICES ASSUME T # {} PROVE FALSE
  OBVIOUS
<1>3. PICK m \in T : \A k \in T : m <= k
  <2>1. T \in SUBSET Nat
    OBVIOUS
  <2> HIDE DEF T
  <2> QED
    BY <1>2, <2>1, HasLeast
<1>4. m \in Nat /\ ~\E f \in [0 .. m -> V] : IsLoop(f, m)
  BY <1>3
<1>5. CASE m = 0
  <2> DEFINE f == [i \in 0 .. 0 |-> a]
  <2>1. f \in [0 .. m -> V] /\ IsLoop(f, m)
    BY <1>5
  <2> QED
    BY <1>4, <2>1
<1>6. CASE m # 0
  <2>1. m - 1 \in Nat /\ m - 1 \notin T
    BY <1>3, <1>4, <1>6
  <2>2. PICK g \in [0 .. m - 1 -> V] : IsLoop(g, m - 1)
    BY <2>1
  <2> DEFINE f == [i \in 0 .. m |-> IF i = m THEN G[<<m, g[m - 1]>>] ELSE g[i]]
  <2>3. g[m - 1] \in V /\ G[<<m, g[m - 1]>>] \in V
    BY <1>4, <2>1, <2>2
  <2>4. f \in [0 .. m -> V]
    BY <1>4, <2>1, <2>2, <2>3
  <2>5. f[0] = a
    BY <1>4, <1>6, <2>2
  <2>6. ASSUME NEW i \in 1 .. m PROVE f[i] = G[<<i, f[i - 1]>>]
    <3>1. CASE i = m
      <4>1. f[m] = G[<<m, g[m - 1]>>] /\ f[m - 1] = g[m - 1]
        BY <1>4, <1>6
      <4> QED
        BY <3>1, <4>1
    <3>2. CASE i # m
      <4>1. i \in 1 .. m - 1 /\ f[i] = g[i] /\ f[i - 1] = g[i - 1]
        BY <1>4, <3>2
      <4> QED
        BY <2>2, <4>1
    <3> QED
      BY <3>1, <3>2
  <2> QED
    BY <1>4, <2>4, <2>5, <2>6
<1> QED
  BY <1>5, <1>6

LEMMA LoopStays ==
  ASSUME NEW V, NEW f, NEW n \in Nat, f[0] \in V,
         \A i \in 1 .. n : f[i - 1] \in V => f[i] \in V
  PROVE  \A i \in 0 .. n : f[i] \in V
<1> DEFINE T == {i \in 0 .. n : f[i] \notin V}
<1>1. SUFFICES ASSUME T # {} PROVE FALSE
  OBVIOUS
<1>2. PICK m \in T : \A k \in T : m <= k
  <2>1. T \in SUBSET Nat
    OBVIOUS
  <2> HIDE DEF T
  <2> QED
    BY <1>1, <2>1, HasLeast
<1>3. m \in 1 .. n /\ m - 1 \notin T
  BY <1>2
<1>4. f[m - 1] \in V
  BY <1>3
<1> QED
  BY <1>2, <1>3, <1>4

-----------------------------------------------------------------------------
(* The sequence operators the node functions are built from. *)
LEMMA InsertAtProps ==
  ASSUME NEW K, NEW s \in Seq(K), NEW e \in K, NEW i \in 1 .. Len(s) + 1
  PROVE  /\ InsertAt(s, i, e) \in Seq(K)
         /\ Len(InsertAt(s, i, e)) = Len(s) + 1
<1> DEFINE a == SubSeq(s, 1, i - 1)
<1> DEFINE b == SubSeq(s, i, Len(s))
<1>1. Len(s) \in Nat
  OBVIOUS
<1>2. a \in Seq(K) /\ Len(a) = i - 1
  BY <1>1
<1>3. b \in Seq(K) /\ Len(b) = Len(s) - i + 1
  BY <1>1
<1>4. InsertAt(s, i, e) = (a \o <<e>>) \o b
  BY DEF InsertAt
<1> HIDE DEF a, b
<1>5. a \o <<e>> \in Seq(K) /\ Len(a \o <<e>>) = i
  BY <1>2, <1>1
<1> DEFINE c == a \o <<e>>
<1>6. c \in Seq(K) /\ Len(c) = i
  BY <1>5
<1> HIDE DEF c
<1>7. c \o b \in Seq(K) /\ Len(c \o b) = Len(c) + Len(b)
  BY <1>3, <1>6, ConcatProperties, Zenon
<1>8. Len(c) + Len(b) = Len(s) + 1
  BY <1>1, <1>3, <1>6
<1>9. InsertAt(s, i, e) = c \o b
  BY <1>4 DEF c
<1> QED
  BY <1>7, <1>8, <1>9

LEMMA RemoveAtProps ==
  ASSUME NEW K, NEW s \in Seq(K), NEW i \in 1 .. Len(s)
  PROVE  RemoveAt(s, i) \in Seq(K) /\ Len(RemoveAt(s, i)) = Len(s) - 1
<1> DEFINE a == SubSeq(s, 1, i - 1)
<1> DEFINE b == SubSeq(s, i + 1, Len(s))
<1>1. Len(s) \in Nat
  OBVIOUS
<1>2. a \in Seq(K) /\ Len(a) = i - 1
  BY <1>1
<1>3. b \in Seq(K) /\ Len(b) = Len(s) - i
  BY <1>1
<1>4. RemoveAt(s, i) = a \o b
  BY DEF RemoveAt
<1> HIDE DEF a, b
<1>5. a \o b \in Seq(K) /\ Len(a \o b) = Len(a) + Len(b)
  BY <1>2, <1>3, ConcatProperties, Zenon
<1>6. Len(a) + Len(b) = Len(s) - 1
  BY <1>1, <1>2, <1>3
<1> QED
  BY <1>4, <1>5, <1>6

LEMMA SliceProps ==
  ASSUME NEW K, NEW s \in Seq(K), NEW m \in 1 .. Len(s) + 1, NEW n \in 0 .. Len(s), m <= n + 1
  PROVE  SubSeq(s, m, n) \in Seq(K) /\ Len(SubSeq(s, m, n)) = n - m + 1
<1>1. Len(s) \in Nat
  OBVIOUS
<1> QED
  BY <1>1

LEMMA EndProps ==
  ASSUME NEW K, NEW s \in Seq(K), s # <<>>
  PROVE  /\ Front(s) \in Seq(K) /\ Len(Front(s)) = Len(s) - 1
         /\ \A i \in 1 .. Len(s) - 1 : Front(s)[i] = s[i]
         /\ Tail(s) \in Seq(K) /\ Len(Tail(s)) = Len(s) - 1
         /\ Head(s) \in K /\ Last(s) \in K /\ Last(s) = s[Len(s)]
         /\ Len(s) \in Nat \ {0}
<1>1. Len(s) \in Nat \ {0}
  OBVIOUS
<1> DEFINE n == Len(s) - 1
<1>a. n \in Nat /\ n <= Len(s)
  BY <1>1
<1> HIDE DEF n
<1>b. SubSeq(s, 1, n) \in Seq(K) /\ Len(SubSeq(s, 1, n)) = n
      /\ \A i \in 1 .. n : SubSeq(s, 1, n)[i] = s[i]
  BY <1>a, <1>1
<1>2. Front(s) \in Seq(K) /\ Len(Front(s)) = Len(s) - 1
      /\ \A i \in 1 .. Len(s) - 1 : Front(s)[i] = s[i]
  BY <1>b DEF Front, n
<1>3. Tail(s) \in Seq(K) /\ Len(Tail(s)) = Len(s) - 1 /\ Head(s) \in K
  BY HeadTailProperties
<1>4. Last(s) \in K /\ Last(s) = s[Len(s)]
  BY <1>1 DEF Last
<1> QED
  BY <1>1, <1>2, <1>3, <1>4

-----------------------------------------------------------------------------
(* A node with keys of K and children of C, and one whose arrays are as    *)
(* long as they may be.                                                    *)
NodeOf(K, C) ==
  [rrn : Nat \cup {NoRrn}, leaf : BOOLEAN, keys : Seq(K), children : Seq(C),
   next_leaf : Nat \cup {NoRrn}]

Shaped(p) ==
  /\ Len(p.keys) <= Order - 1
  /\ Len(p.children) = IF p.leaf THEN 0 ELSE Len(p.keys) + 1

(* Half of a node, rounded down, is at least one key. *)
LEMMA HalfBounds ==
  /\ Half \in Nat /\ Order \in Nat
  /\ 1 <= Half /\ Half + 1 <= Order - 1
  /\ 2 * Half <= Order - 1 /\ Order - 1 <= 2 * Half + 1
<1>1. Order - 1 \in Nat /\ Order - 1 >= 2
  BY OrderAssumption
<1>2. \A n \in Nat : n >= 2 =>
        /\ n \div 2 \in Nat /\ 1 <= n \div 2 /\ n \div 2 + 1 <= n
        /\ 2 * (n \div 2) <= n /\ n <= 2 * (n \div 2) + 1
  OBVIOUS
<1> QED
  BY <1>1, <1>2, OrderAssumption DEF Half

(* The searches return a position between the ends of the array. *)
LEMMA SearchPosRange ==
  ASSUME NEW K, NEW C, NEW p \in NodeOf(K, C), NEW key
  PROVE  SearchPos(p, key) \in 0 .. Len(p.keys)
<1> DEFINE stop == {i \in DOMAIN p.keys : p.keys[i] >= key}
<1>1. p.keys \in Seq(K) /\ Len(p.keys) \in Nat /\ DOMAIN p.keys = 1 .. Len(p.keys)
  BY DEF NodeOf
<1>2. stop \in SUBSET Nat /\ \A i \in stop : i \in 1 .. Len(p.keys)
  BY <1>1
<1>3. SearchPos(p, key) = IF stop = {} THEN Len(p.keys) ELSE Min(stop) - 1
  BY DEF SearchPos
<1> HIDE DEF stop
<1>4. CASE stop = {}
  BY <1>1, <1>3, <1>4
<1>5. CASE stop # {}
  <2>1. Min(stop) \in stop
    BY <1>2, <1>5, MinIsLeast
  <2>2. Min(stop) \in 1 .. Len(p.keys)
    BY <1>2, <2>1, Zenon
  <2> QED
    BY <1>1, <1>3, <1>5, <2>2
<1> QED
  BY <1>4, <1>5

LEMMA RangePosRange ==
  ASSUME NEW K, NEW C, NEW p \in NodeOf(K, C), NEW key
  PROVE  RangePos(p, key) \in 0 .. Len(p.keys)
<1> DEFINE stop == {i \in DOMAIN p.keys : key < p.keys[i]}
<1>1. p.keys \in Seq(K) /\ Len(p.keys) \in Nat /\ DOMAIN p.keys = 1 .. Len(p.keys)
  BY DEF NodeOf
<1>2. stop \in SUBSET Nat /\ \A i \in stop : i \in 1 .. Len(p.keys)
  BY <1>1
<1>3. RangePos(p, key) = IF stop = {} THEN Len(p.keys) ELSE Min(stop) - 1
  BY DEF RangePos
<1> HIDE DEF stop
<1>4. CASE stop = {}
  BY <1>1, <1>3, <1>4
<1>5. CASE stop # {}
  <2>1. Min(stop) \in stop
    BY <1>2, <1>5, MinIsLeast
  <2>2. Min(stop) \in 1 .. Len(p.keys)
    BY <1>2, <2>1, Zenon
  <2> QED
    BY <1>1, <1>3, <1>5, <2>2
<1> QED
  BY <1>4, <1>5

LEMMA SplitPosRange ==
  ASSUME NEW K, NEW C, NEW p \in NodeOf(K, C), NEW key
  PROVE  SplitPos(p, key) \in 0 .. Len(p.keys)
<1> DEFINE stop == {i \in 0 .. Len(p.keys) : \A j \in i + 1 .. Len(p.keys) : p.keys[j] > key}
<1>1. p.keys \in Seq(K) /\ Len(p.keys) \in Nat
  BY DEF NodeOf
<1>2. stop \in SUBSET Nat /\ \A i \in stop : i \in 0 .. Len(p.keys)
  BY <1>1
<1>3. Len(p.keys) \in stop
  BY <1>1
<1>4. SplitPos(p, key) = Min(stop)
  BY DEF SplitPos
<1> HIDE DEF stop
<1> QED
  BY <1>2, <1>3, <1>4, MinIsLeast

(* A node with room takes a key and, an internal one, a child. *)
LEMMA InsertInNodeProps ==
  ASSUME NEW K, NEW C, NEW p \in NodeOf(K, C), NEW key \in K, NEW r,
         NEW pos \in 0 .. Len(p.keys), NEW q, q = InsertInNode(p, key, r, pos),
         Len(p.children) = (IF p.leaf THEN 0 ELSE Len(p.keys) + 1), p.leaf \/ r \in C
  PROVE  /\ q \in NodeOf(K, C)
         /\ q.rrn = p.rrn /\ q.leaf = p.leaf
         /\ Len(q.keys) = Len(p.keys) + 1
         /\ Len(q.children) = IF p.leaf THEN 0 ELSE Len(q.keys) + 1
<1>1. p.keys \in Seq(K) /\ Len(p.keys) \in Nat /\ p.children \in Seq(C) /\ p.leaf \in BOOLEAN
  BY DEF NodeOf
<1>2. InsertAt(p.keys, pos + 1, key) \in Seq(K)
      /\ Len(InsertAt(p.keys, pos + 1, key)) = Len(p.keys) + 1
  <2>1. pos + 1 \in 1 .. Len(p.keys) + 1
    BY <1>1
  <2> QED
    BY <1>1, <2>1, InsertAtProps
<1>3. q = [p EXCEPT !.keys = InsertAt(p.keys, pos + 1, key),
                    !.children = IF p.leaf THEN p.children
                                 ELSE InsertAt(p.children, pos + 2, r)]
  BY DEF InsertInNode
<1>4. CASE p.leaf
  BY <1>1, <1>2, <1>3, <1>4 DEF NodeOf
<1>5. CASE ~p.leaf
  <2>1. pos + 2 \in 1 .. Len(p.children) + 1 /\ r \in C
    BY <1>1, <1>5
  <2>2. InsertAt(p.children, pos + 2, r) \in Seq(C)
        /\ Len(InsertAt(p.children, pos + 2, r)) = Len(p.children) + 1
    BY <1>1, <2>1, InsertAtProps
  <2> QED
    BY <1>1, <1>2, <1>3, <1>5, <2>2 DEF NodeOf
<1> QED
  BY <1>4, <1>5

(* A node with room takes a key, and a child if it is not a leaf. *)
LEMMA TakesKey ==
  ASSUME NEW K, NEW C, NEW p \in NodeOf(K, C), NEW key \in K, NEW r, NEW pos \in 0 .. Len(p.keys),
         Shaped(p), ~Full(p), p.leaf \/ r \in C,
         NEW q, q = InsertInNode(p, key, r, pos)
  PROVE  q \in NodeOf(K, C) /\ Shaped(q) /\ q.rrn = p.rrn /\ q.leaf = p.leaf
<1>1. Len(p.children) = (IF p.leaf THEN 0 ELSE Len(p.keys) + 1)
  BY DEF Shaped
<1>2. /\ q \in NodeOf(K, C) /\ q.rrn = p.rrn /\ q.leaf = p.leaf
      /\ Len(q.keys) = Len(p.keys) + 1
      /\ Len(q.children) = IF p.leaf THEN 0 ELSE Len(q.keys) + 1
  BY <1>1, InsertInNodeProps
<1>3. Len(p.keys) \in Nat /\ ~(Len(p.keys) >= Order - 1)
  BY DEF NodeOf, Full
<1>4. Shaped(q)
  BY <1>2, <1>3, HalfBounds DEF Shaped
<1> QED
  BY <1>2, <1>4

(* A full node is split into two that are not overfull, with one key and   *)
(* one child more than there were; the promoted key is one of them.        *)
LEMMA SplitProps ==
  ASSUME NEW K, NEW C, NEW p \in NodeOf(K, C), NEW key \in K, NEW r, NEW rrn \in Nat,
         Shaped(p), Full(p), p.leaf \/ r \in C,
         NEW q, q = LeftHalf(p, key, r, rrn), NEW u, u = RightHalf(p, key, r, rrn)
  PROVE  /\ q \in NodeOf(K, C) /\ Shaped(q) /\ q.rrn = p.rrn /\ q.leaf = p.leaf
         /\ u \in NodeOf(K, C) /\ Shaped(u) /\ u.rrn = rrn /\ u.leaf = p.leaf
         /\ Promoted(p, key) \in K
<1> DEFINE t == Overfull(p, key, r)
<1>1. /\ p.keys \in Seq(K) /\ Len(p.keys) \in Nat /\ p.children \in Seq(C) /\ p.leaf \in BOOLEAN
      /\ p.rrn \in Nat \cup {NoRrn} /\ p.next_leaf \in Nat \cup {NoRrn}
  BY DEF NodeOf
<1>2. Len(p.keys) = Order - 1
  BY <1>1, HalfBounds DEF Shaped, Full
<1>3. SplitPos(p, key) \in 0 .. Len(p.keys)
  BY SplitPosRange
<1>4. /\ t \in NodeOf(K, C)
      /\ Len(t.keys) = Order
      /\ Len(t.children) = IF p.leaf THEN 0 ELSE Order + 1
      /\ t.keys = InsertAt(p.keys, SplitPos(p, key) + 1, key)
  <2>1. Len(p.children) = (IF p.leaf THEN 0 ELSE Len(p.keys) + 1)
    BY DEF Shaped
  <2>2. /\ t \in NodeOf(K, C)
        /\ Len(t.keys) = Len(p.keys) + 1
        /\ Len(t.children) = IF p.leaf THEN 0 ELSE Len(t.keys) + 1
    BY <1>3, <2>1, InsertInNodeProps DEF Overfull
  <2>3. t.keys = InsertAt(p.keys, SplitPos(p, key) + 1, key)
    BY DEF Overfull, InsertInNode, NodeOf
  <2> QED
    BY <1>1, <1>2, <2>2, <2>3, HalfBounds
<1>5. t.keys \in Seq(K) /\ t.children \in Seq(C)
  BY <1>4 DEF NodeOf
<1> HIDE DEF t
<1>6. /\ SubSeq(t.keys, 1, Half + 1) \in Seq(K) /\ Len(SubSeq(t.keys, 1, Half + 1)) = Half + 1
      /\ SubSeq(t.keys, 1, Half) \in Seq(K) /\ Len(SubSeq(t.keys, 1, Half)) = Half
      /\ SubSeq(t.keys, Half + 2, Order) \in Seq(K)
      /\ Len(SubSeq(t.keys, Half + 2, Order)) = Order - Half - 1
      /\ t.keys[Half + 1] \in K /\ t.keys[Half + 2] \in K
  BY <1>4, <1>5, HalfBounds
<1>7. Promoted(p, key) \in K
  BY <1>4, <1>6 DEF Promoted
<1>8. CASE p.leaf
  <2>1. q = [p EXCEPT !.keys = SubSeq(t.keys, 1, Half + 1), !.next_leaf = rrn]
    BY <1>8 DEF LeftHalf, t
  <2>2. u = [rrn |-> rrn, leaf |-> p.leaf, keys |-> SubSeq(t.keys, Half + 2, Order),
             children |-> <<>>, next_leaf |-> p.next_leaf]
    BY <1>8 DEF RightHalf, UpperChildren, UpperLink, t
  <2>3. Len(p.children) = 0
    BY <1>8 DEF Shaped
  <2>4. q \in NodeOf(K, C) /\ Shaped(q) /\ q.rrn = p.rrn /\ q.leaf = p.leaf
    BY <1>1, <1>6, <1>8, <2>1, <2>3, HalfBounds DEF NodeOf, Shaped
  <2>5. u \in NodeOf(K, C) /\ Shaped(u) /\ u.rrn = rrn /\ u.leaf = p.leaf
    BY <1>1, <1>6, <1>8, <2>2, HalfBounds DEF NodeOf, Shaped
  <2> QED
    BY <1>7, <2>4, <2>5
<1>9. CASE ~p.leaf
  <2>1. q = [p EXCEPT !.keys = SubSeq(t.keys, 1, Half),
                      !.children = SubSeq(t.children, 1, Half + 1)]
    BY <1>9 DEF LeftHalf, t
  <2>2. u = [rrn |-> rrn, leaf |-> p.leaf, keys |-> SubSeq(t.keys, Half + 2, Order),
             children |-> SubSeq(t.children, Half + 2, Order + 1), next_leaf |-> NoRrn]
    BY <1>9 DEF RightHalf, UpperChildren, UpperLink, t
  <2>3. /\ SubSeq(t.children, 1, Half + 1) \in Seq(C)
        /\ Len(SubSeq(t.children, 1, Half + 1)) = Half + 1
        /\ SubSeq(t.children, Half + 2, Order + 1) \in Seq(C)
        /\ Len(SubSeq(t.children, Half + 2, Order + 1)) = Order - Half
    BY <1>4, <1>5, <1>9, HalfBounds
  <2>4. q \in NodeOf(K, C) /\ Shaped(q) /\ q.rrn = p.rrn /\ q.leaf = p.leaf
    <3>1. q \in NodeOf(K, C)
      BY <1>6, <2>1, <2>3 DEF NodeOf
    <3>2. /\ q.rrn = p.rrn /\ q.leaf = p.leaf /\ q.keys = SubSeq(t.keys, 1, Half)
          /\ q.children = SubSeq(t.children, 1, Half + 1)
      BY <2>1 DEF NodeOf
    <3> QED
      BY <1>6, <1>9, <2>3, <3>1, <3>2, HalfBounds DEF Shaped
  <2>5. u \in NodeOf(K, C) /\ Shaped(u) /\ u.rrn = rrn /\ u.leaf = p.leaf
    BY <1>1, <1>6, <1>9, <2>2, <2>3, HalfBounds DEF NodeOf, Shaped
  <2> QED
    BY <1>7, <2>4, <2>5
<1> QED
  BY <1>8, <1>9

(* A leaf whose keys are replaced by others, not too many. *)
WithKeys(p, ks) == [p EXCEPT !.keys = ks]

LEMMA OtherKeys ==
  ASSUME NEW K, NEW C, NEW p \in NodeOf(K, C), Shaped(p), p.leaf,
         NEW ks \in Seq(K), Len(ks) <= Order - 1
  PROVE  /\ WithKeys(p, ks) \in NodeOf(K, C) /\ Shaped(WithKeys(p, ks))
         /\ WithKeys(p, ks).rrn = p.rrn /\ WithKeys(p, ks).leaf = p.leaf
         /\ WithKeys(p, ks).keys = ks
<1> DEFINE q == WithKeys(p, ks)
<1>1. /\ p.children \in Seq(C) /\ Len(p.children) = 0 /\ p.leaf \in BOOLEAN
      /\ p.rrn \in Nat \cup {NoRrn} /\ p.next_leaf \in Nat \cup {NoRrn}
  BY DEF NodeOf, Shaped
<1>2. q.rrn = p.rrn /\ q.leaf = p.leaf /\ q.children = p.children /\ q.keys = ks
  BY DEF NodeOf, WithKeys
<1>3. q \in NodeOf(K, C)
  BY DEF NodeOf, WithKeys
<1> HIDE DEF q
<1>4. Shaped(q)
  BY <1>1, <1>2 DEF Shaped
<1> QED
  BY <1>2, <1>3, <1>4 DEF q

(* A key that goes from one leaf to another, or all of them. *)
LEMMA DonorProps ==
  ASSUME NEW K, NEW C, NEW d \in NodeOf(K, C), NEW from_left \in BOOLEAN,
         Shaped(d), d.leaf, Len(d.keys) >= 1
  PROVE  LET e == DonorAfter(d, from_left)
         IN  e \in NodeOf(K, C) /\ Shaped(e) /\ e.rrn = d.rrn /\ e.leaf = d.leaf
<1> DEFINE ks == IF from_left THEN Front(d.keys) ELSE Tail(d.keys)
<1>1. d.keys \in Seq(K) /\ Len(d.keys) <= Order - 1
  BY DEF NodeOf, Shaped
<1>2. /\ Front(d.keys) \in Seq(K) /\ Len(Front(d.keys)) = Len(d.keys) - 1
      /\ Tail(d.keys) \in Seq(K) /\ Len(Tail(d.keys)) = Len(d.keys) - 1
      /\ Len(d.keys) \in Nat \ {0}
  <2>1. d.keys # <<>>
    BY <1>1
  <2> QED
    BY <1>1, <2>1, EndProps
<1>3. DonorAfter(d, from_left) = WithKeys(d, ks)
  BY DEF DonorAfter, WithKeys
<1>4. ks \in Seq(K) /\ Len(ks) <= Order - 1
  BY <1>1, <1>2, HalfBounds
<1> HIDE DEF ks
<1>5. /\ WithKeys(d, ks) \in NodeOf(K, C) /\ Shaped(WithKeys(d, ks))
      /\ WithKeys(d, ks).rrn = d.rrn /\ WithKeys(d, ks).leaf = d.leaf
  BY <1>4, OtherKeys, ZenonT(30)
<1> QED
  BY <1>3, <1>5

LEMMA ReceiverProps ==
  ASSUME NEW K, NEW C, NEW p \in NodeOf(K, C), NEW d, NEW from_left \in BOOLEAN,
         Shaped(p), p.leaf, Len(p.keys) < Order - 1, d.keys \in Seq(K), Len(d.keys) >= 1
  PROVE  LET q == ReceiverAfter(d, p, from_left)
         IN  q \in NodeOf(K, C) /\ Shaped(q) /\ q.rrn = p.rrn /\ q.leaf = p.leaf
<1> DEFINE ks == IF from_left THEN <<Last(d.keys)>> \o p.keys ELSE Append(p.keys, Head(d.keys))
<1>1. p.keys \in Seq(K) /\ Len(p.keys) \in Nat
  BY DEF NodeOf
<1>2. Head(d.keys) \in K /\ Last(d.keys) \in K
  <2>1. d.keys # <<>>
    OBVIOUS
  <2> QED
    BY <2>1, EndProps
<1>3. ReceiverAfter(d, p, from_left) = WithKeys(p, ks)
  BY DEF ReceiverAfter, WithKeys
<1>4. ks \in Seq(K) /\ Len(ks) <= Order - 1
  <2>1. <<Last(d.keys)>> \o p.keys \in Seq(K) /\ Len(<<Last(d.keys)>> \o p.keys) = Len(p.keys) + 1
    BY <1>1, <1>2
  <2>2. Append(p.keys, Head(d.keys)) \in Seq(K) /\ Len(Append(p.keys, Head(d.keys))) = Len(p.keys) + 1
    BY <1>1, <1>2
  <2> QED
    BY <1>1, <2>1, <2>2, HalfBounds
<1> HIDE DEF ks
<1>5. /\ WithKeys(p, ks) \in NodeOf(K, C) /\ Shaped(WithKeys(p, ks))
      /\ WithKeys(p, ks).rrn = p.rrn /\ WithKeys(p, ks).leaf = p.leaf
  BY <1>4, OtherKeys, ZenonT(30)
<1> QED
  BY <1>3, <1>5

LEMMA MergeProps ==
  ASSUME NEW K, NEW C, NEW p \in NodeOf(K, C), NEW d \in NodeOf(K, C),
         Shaped(p), Shaped(d), p.leaf, d.leaf, Len(p.keys) + Len(d.keys) <= Order - 1,
         NEW q, q = MergedLeft(p, d)
  PROVE  q \in NodeOf(K, C) /\ Shaped(q) /\ q.rrn = p.rrn /\ q.leaf = p.leaf
<1>1. /\ p.keys \in Seq(K) /\ d.keys \in Seq(K)
      /\ p.children \in Seq(C) /\ Len(p.children) = 0
      /\ d.next_leaf \in Nat \cup {NoRrn}
  BY DEF NodeOf, Shaped
<1> DEFINE a == p.keys
<1> DEFINE b == d.keys
<1> DEFINE ks == a \o b
<1>2. ks \in Seq(K) /\ Len(ks) = Len(p.keys) + Len(d.keys)
  <2>1. a \in Seq(K) /\ b \in Seq(K)
    BY <1>1
  <2> HIDE DEF a, b
  <2>2. a \o b \in Seq(K) /\ Len(a \o b) = Len(a) + Len(b)
    BY <2>1, ConcatProperties, Zenon
  <2> QED
    BY <2>2 DEF a, b
<1>3. q = [p EXCEPT !.keys = ks, !.next_leaf = d.next_leaf]
  BY DEF MergedLeft
<1> HIDE DEF ks
<1>4. q \in NodeOf(K, C)
  BY <1>1, <1>2, <1>3 DEF NodeOf
<1>5. q.keys = ks /\ q.children = p.children /\ q.rrn = p.rrn /\ q.leaf = p.leaf
  BY <1>3 DEF NodeOf
<1> QED
  BY <1>1, <1>2, <1>4, <1>5 DEF Shaped

LEMMA WithoutKeyProps ==
  ASSUME NEW K, NEW C, NEW p \in NodeOf(K, C), NEW key, Shaped(p), p.leaf, Found(p, key),
         NEW q, q = WithoutKey(p, key)
  PROVE  /\ q \in NodeOf(K, C) /\ Shaped(q) /\ q.rrn = p.rrn /\ q.leaf = p.leaf
         /\ Len(q.keys) = Len(p.keys) - 1
<1>1. p.keys \in Seq(K) /\ Len(p.keys) \in Nat /\ p.children \in Seq(C) /\ Len(p.children) = 0
  BY DEF NodeOf, Shaped
<1>2. SearchPos(p, key) + 1 \in 1 .. Len(p.keys)
  BY <1>1 DEF Found
<1>3. RemoveAt(p.keys, SearchPos(p, key) + 1) \in Seq(K)
      /\ Len(RemoveAt(p.keys, SearchPos(p, key) + 1)) = Len(p.keys) - 1
  BY <1>1, <1>2, RemoveAtProps
<1>4. q = WithKeys(p, RemoveAt(p.keys, SearchPos(p, key) + 1))
  BY DEF WithoutKey, WithKeys
<1>5. Len(RemoveAt(p.keys, SearchPos(p, key) + 1)) <= Order - 1
  BY <1>1, <1>3, HalfBounds DEF Shaped
<1> DEFINE ks == RemoveAt(p.keys, SearchPos(p, key) + 1)
<1>6. ks \in Seq(K) /\ Len(ks) = Len(p.keys) - 1 /\ Len(ks) <= Order - 1 /\ q = WithKeys(p, ks)
  BY <1>3, <1>4, <1>5
<1> HIDE DEF ks
<1>7. /\ WithKeys(p, ks) \in NodeOf(K, C) /\ Shaped(WithKeys(p, ks))
      /\ WithKeys(p, ks).rrn = p.rrn /\ WithKeys(p, ks).leaf = p.leaf
      /\ WithKeys(p, ks).keys = ks
  BY <1>6, OtherKeys, ZenonT(30)
<1> QED
  BY <1>6, <1>7

-----------------------------------------------------------------------------
(* The keys of a node are numbers. *)
LEMMA KeysTyped ==
  ASSUME NEW K \in SUBSET Nat, NEW C, NEW p \in NodeOf(K, C)
  PROVE  /\ p.keys \in Seq(K) /\ Len(p.keys) \in Nat /\ DOMAIN p.keys = 1 .. Len(p.keys)
         /\ \A i \in 1 .. Len(p.keys) : p.keys[i] \in K /\ p.keys[i] \in Nat
<1>1. p.keys \in Seq(K) /\ Len(p.keys) \in Nat /\ DOMAIN p.keys = 1 .. Len(p.keys)
  BY DEF NodeOf
<1>2. \A i \in 1 .. Len(p.keys) : p.keys[i] \in K
  BY <1>1
<1> QED
  BY <1>1, <1>2

(* What a search for a key in a node finds. *)
Searched(p, key, pos) ==
  /\ pos \in 0 .. Len(p.keys)
  /\ \A i \in 1 .. pos : p.keys[i] < key
  /\ pos < Len(p.keys) => p.keys[pos + 1] >= key
  /\ Found(p, key) <=> pos < Len(p.keys) /\ p.keys[pos + 1] = key

LEMMA SearchPosProps ==
  ASSUME NEW K \in SUBSET Nat, NEW C, NEW p \in NodeOf(K, C), NEW key \in Nat
  PROVE  Searched(p, key, SearchPos(p, key))
<1> DEFINE stop == {i \in DOMAIN p.keys : p.keys[i] >= key}
<1>1. /\ Len(p.keys) \in Nat /\ DOMAIN p.keys = 1 .. Len(p.keys)
      /\ \A i \in 1 .. Len(p.keys) : p.keys[i] \in Nat
  BY KeysTyped
<1>2. stop \in SUBSET Nat /\ \A i \in stop : i \in 1 .. Len(p.keys) /\ p.keys[i] >= key
  BY <1>1
<1>3. \A i \in 1 .. Len(p.keys) : i \notin stop => p.keys[i] < key
  BY <1>1
<1>4. PICK pos : pos = SearchPos(p, key)
  OBVIOUS
<1>5. pos = IF stop = {} THEN Len(p.keys) ELSE Min(stop) - 1
  BY <1>4 DEF SearchPos
<1>6. Found(p, key) <=> pos + 1 \in DOMAIN p.keys /\ p.keys[pos + 1] = key
  BY <1>4 DEF Found
<1> HIDE DEF stop
<1>7. CASE stop = {}
  <2>1. Searched(p, key, pos)
    BY <1>1, <1>3, <1>5, <1>6, <1>7 DEF Searched
  <2> QED
    BY <1>4, <2>1
<1>8. CASE stop # {}
  <2>1. Min(stop) \in stop /\ \A j \in stop : Min(stop) <= j
    BY <1>2, <1>8, MinIsLeast
  <2>2. PICK n \in stop : n = Min(stop)
    BY <2>1
  <2>3. n \in 1 .. Len(p.keys) /\ pos = n - 1 /\ p.keys[n] >= key /\ pos + 1 = n
    BY <1>2, <1>5, <1>8, <2>2
  <2>4. \A i \in 1 .. pos : i \in 1 .. Len(p.keys) /\ i \notin stop
    BY <1>1, <2>1, <2>2, <2>3
  <2>5. Searched(p, key, pos)
    BY <1>1, <1>3, <1>6, <2>3, <2>4 DEF Searched
  <2> QED
    BY <1>4, <2>5
<1> QED
  BY <1>7, <1>8

(* In a node with its keys in order a key that is found nowhere comes      *)
(* between the smaller and the larger ones.                                *)
LEMMA KeyBetween ==
  ASSUME NEW K \in SUBSET Nat, NEW C, NEW p \in NodeOf(K, C), NEW key \in Nat,
         Ascending(p.keys), ~Found(p, key)
  PROVE  \A i \in 1 .. Len(p.keys) :
           IF i <= SearchPos(p, key) THEN p.keys[i] < key ELSE key < p.keys[i]
<1>1. /\ Len(p.keys) \in Nat /\ DOMAIN p.keys = 1 .. Len(p.keys)
      /\ \A i \in 1 .. Len(p.keys) : p.keys[i] \in Nat
  BY KeysTyped
<1>2. PICK pos : pos = SearchPos(p, key)
  OBVIOUS
<1>3. /\ pos \in 0 .. Len(p.keys)
      /\ \A i \in 1 .. pos : p.keys[i] < key
      /\ pos < Len(p.keys) => p.keys[pos + 1] > key
  <2>1. Searched(p, key, pos)
    BY <1>2, SearchPosProps
  <2>2. /\ pos \in 0 .. Len(p.keys)
        /\ \A i \in 1 .. pos : p.keys[i] < key
        /\ pos < Len(p.keys) => p.keys[pos + 1] >= key /\ p.keys[pos + 1] # key
    BY <2>1 DEF Searched
  <2>3. pos < Len(p.keys) => pos + 1 \in 1 .. Len(p.keys)
    BY <1>1, <2>2
  <2> QED
    BY <1>1, <2>2, <2>3
<1>4. ASSUME NEW i \in 1 .. Len(p.keys) PROVE IF i <= pos THEN p.keys[i] < key ELSE key < p.keys[i]
  <2>1. CASE i <= pos
    <3>1. i \in 1 .. pos
      BY <1>1, <1>3, <2>1
    <3> QED
      BY <1>3, <2>1, <3>1
  <2>2. CASE i = pos + 1
    BY <1>1, <1>3, <2>2
  <2>3. CASE i > pos + 1
    <3>1. pos + 1 \in 1 .. Len(p.keys) /\ pos < Len(p.keys)
      BY <1>1, <1>3, <2>3
    <3>2. p.keys[pos + 1] < p.keys[i]
      BY <1>1, <2>3, <3>1 DEF Ascending
    <3> QED
      BY <1>1, <1>3, <2>3, <3>1, <3>2
  <2> QED
    BY <1>1, <1>3, <2>1, <2>2, <2>3
<1> QED
  BY <1>2, <1>4

LEMMA FoundAmongKeys ==
  ASSUME NEW K \in SUBSET Nat, NEW C, NEW p \in NodeOf(K, C), NEW key \in Nat,
         Ascending(p.keys)
  PROVE  Found(p, key) <=> key \in ToSet(p.keys)
<1>1. /\ Len(p.keys) \in Nat /\ DOMAIN p.keys = 1 .. Len(p.keys)
      /\ \A i \in 1 .. Len(p.keys) : p.keys[i] \in Nat
  BY KeysTyped
<1>2. ASSUME Found(p, key) PROVE key \in ToSet(p.keys)
  BY <1>2 DEF Found, ToSet
<1>3. ASSUME key \in ToSet(p.keys), ~Found(p, key) PROVE FALSE
  <2>1. PICK i \in 1 .. Len(p.keys) : p.keys[i] = key
    BY <1>1, <1>3 DEF ToSet
  <2>2. IF i <= SearchPos(p, key) THEN p.keys[i] < key ELSE key < p.keys[i]
    BY <1>3, KeyBetween
  <2> QED
    BY <1>1, <2>1, <2>2
<1> QED
  BY <1>2, <1>3

(* The one position whose keys to the left are smaller and to the right    *)
(* larger is what both searches for a position find.                       *)
LEMMA KeyPlace ==
  ASSUME NEW K \in SUBSET Nat, NEW C, NEW p \in NodeOf(K, C), NEW key \in Nat,
         NEW pos \in 0 .. Len(p.keys),
         \A i \in 1 .. Len(p.keys) : IF i <= pos THEN p.keys[i] < key ELSE key < p.keys[i]
  PROVE  SearchPos(p, key) = pos /\ SplitPos(p, key) = pos /\ ~Found(p, key)
<1>1. /\ Len(p.keys) \in Nat /\ DOMAIN p.keys = 1 .. Len(p.keys)
      /\ \A i \in 1 .. Len(p.keys) : p.keys[i] \in Nat
  BY KeysTyped
<1>2. PICK x : x = SearchPos(p, key)
  OBVIOUS
<1>3. /\ x \in 0 .. Len(p.keys)
      /\ \A i \in 1 .. x : p.keys[i] < key
      /\ x < Len(p.keys) => p.keys[x + 1] >= key
      /\ Found(p, key) <=> x < Len(p.keys) /\ p.keys[x + 1] = key
  <2>1. Searched(p, key, x)
    BY <1>2, SearchPosProps
  <2> QED
    BY <2>1 DEF Searched
<1>4. x = pos
  <2>1. ASSUME x < pos PROVE FALSE
    <3>1. x + 1 \in 1 .. Len(p.keys) /\ x + 1 <= pos /\ x < Len(p.keys)
      BY <1>1, <1>3, <2>1
    <3>2. p.keys[x + 1] < key /\ p.keys[x + 1] >= key
      BY <1>3, <3>1
    <3> QED
      BY <1>1, <3>1, <3>2
  <2>2. ASSUME pos < x PROVE FALSE
    <3>1. x \in 1 .. Len(p.keys) /\ ~ (x <= pos) /\ x \in 1 .. x
      BY <1>1, <1>3, <2>2
    <3>2. key < p.keys[x] /\ p.keys[x] < key
      BY <1>3, <3>1
    <3> QED
      BY <1>1, <3>1, <3>2
  <2> QED
    BY <1>1, <1>3, <2>1, <2>2
<1>5. ~Found(p, key)
  <2>1. ASSUME pos < Len(p.keys), p.keys[pos + 1] = key PROVE FALSE
    <3>1. pos + 1 \in 1 .. Len(p.keys) /\ ~ (pos + 1 <= pos)
      BY <1>1, <2>1
    <3>2. key < p.keys[pos + 1]
      BY <3>1
    <3> QED
      BY <1>1, <2>1, <3>1, <3>2
  <2> QED
    BY <1>3, <1>4, <2>1
<1>6. SplitPos(p, key) = pos
  <2> DEFINE stop == {i \in 0 .. Len(p.keys) : \A j \in i + 1 .. Len(p.keys) : p.keys[j] > key}
  <2>1. stop \in SUBSET Nat /\ SplitPos(p, key) = Min(stop)
    BY <1>1 DEF SplitPos
  <2>2. pos \in stop
    <3>1. ASSUME NEW j \in pos + 1 .. Len(p.keys) PROVE p.keys[j] > key
      <4>1. j \in 1 .. Len(p.keys) /\ ~ (j <= pos)
        BY <1>1
      <4> QED
        BY <1>1, <4>1
    <3> QED
      BY <3>1
  <2>3. ASSUME NEW i \in stop PROVE pos <= i
    <3>1. SUFFICES ASSUME i < pos PROVE FALSE
      BY <1>1
    <3>2. pos \in i + 1 .. Len(p.keys) /\ pos \in 1 .. Len(p.keys)
      BY <1>1, <3>1
    <3>3. p.keys[pos] > key /\ p.keys[pos] < key
      BY <3>2
    <3> QED
      BY <1>1, <3>2, <3>3
  <2> HIDE DEF stop
  <2>4. Min(stop) \in stop /\ Min(stop) <= pos
    BY <2>1, <2>2, MinIsLeast
  <2>5. Min(stop) \in Nat /\ pos <= Min(stop)
    BY <2>1, <2>3, <2>4
  <2> QED
    BY <1>1, <2>1, <2>4, <2>5
<1> QED
  BY <1>2, <1>4, <1>5, <1>6

LEMMA InsertAtIndex ==
  ASSUME NEW K, NEW s \in Seq(K), NEW e \in K, NEW i \in 1 .. Len(s) + 1
  PROVE  \A j \in 1 .. Len(s) + 1 :
           InsertAt(s, i, e)[j] = IF j < i THEN s[j] ELSE IF j = i THEN e ELSE s[j - 1]
<1> DEFINE a == SubSeq(s, 1, i - 1)
<1> DEFINE b == SubSeq(s, i, Len(s))
<1>1. Len(s) \in Nat
  OBVIOUS
<1>2. a \in Seq(K) /\ Len(a) = i - 1 /\ \A j \in 1 .. i - 1 : a[j] = s[j]
  BY <1>1
<1>3. b \in Seq(K) /\ Len(b) = Len(s) - i + 1 /\ \A j \in 1 .. Len(s) - i + 1 : b[j] = s[i + j - 1]
  BY <1>1
<1>4. InsertAt(s, i, e) = (a \o <<e>>) \o b
  BY DEF InsertAt
<1> HIDE DEF a, b
<1> DEFINE c == a \o <<e>>
<1>5. c \in Seq(K) /\ Len(c) = i /\ (\A j \in 1 .. i - 1 : c[j] = a[j]) /\ c[i] = e
  BY <1>1, <1>2
<1> HIDE DEF c
<1>6. InsertAt(s, i, e) = c \o b
  BY <1>4 DEF c
<1>7. \A j \in 1 .. Len(c) + Len(b) : (c \o b)[j] = IF j <= Len(c) THEN c[j] ELSE b[j - Len(c)]
  BY <1>3, <1>5
<1>8. ASSUME NEW j \in 1 .. Len(s) + 1
      PROVE  (c \o b)[j] = IF j < i THEN s[j] ELSE IF j = i THEN e ELSE s[j - 1]
  <2>1. (c \o b)[j] = IF j <= i THEN c[j] ELSE b[j - i]
    BY <1>1, <1>3, <1>5, <1>7
  <2>2. CASE j < i
    BY <1>1, <1>2, <1>5, <2>1, <2>2
  <2>3. CASE j = i
    BY <1>1, <1>5, <2>1, <2>3
  <2>4. CASE j > i
    <3>1. j - i \in 1 .. Len(s) - i + 1 /\ i + (j - i) - 1 = j - 1
      BY <1>1, <2>4
    <3>2. b[j - i] = s[j - 1]
      BY <1>3, <3>1
    <3> QED
      BY <1>1, <2>1, <2>4, <3>2
  <2>5. j < i \/ j = i \/ j > i
    BY <1>1
  <2> QED
    BY <2>2, <2>3, <2>4, <2>5, Zenon
<1> QED
  BY <1>6, <1>8

(* The keys and the children of a node that has taken a key at pos. *)
LEMMA KeyTaken ==
  ASSUME NEW K, NEW C, NEW p \in NodeOf(K, C), NEW key \in K, NEW r, NEW pos \in 0 .. Len(p.keys),
         NEW q, q = InsertInNode(p, key, r, pos)
  PROVE  /\ q.leaf = p.leaf /\ q.rrn = p.rrn /\ q.next_leaf = p.next_leaf
         /\ Len(p.keys) \in Nat /\ Len(q.keys) = Len(p.keys) + 1
         /\ DOMAIN q.keys = 1 .. Len(p.keys) + 1
         /\ \A j \in 1 .. Len(p.keys) + 1 :
              q.keys[j] = IF j <= pos THEN p.keys[j] ELSE IF j = pos + 1 THEN key ELSE p.keys[j - 1]
         /\ ToSet(q.keys) = ToSet(p.keys) \cup {key}
<1> DEFINE s == InsertAt(p.keys, pos + 1, key)
<1>1. p.keys \in Seq(K) /\ Len(p.keys) \in Nat /\ pos + 1 \in 1 .. Len(p.keys) + 1
      /\ DOMAIN p.keys = 1 .. Len(p.keys)
  BY DEF NodeOf
<1>2. s \in Seq(K) /\ Len(s) = Len(p.keys) + 1
  BY <1>1, InsertAtProps
<1>3. \A j \in 1 .. Len(p.keys) + 1 :
        s[j] = IF j < pos + 1 THEN p.keys[j] ELSE IF j = pos + 1 THEN key ELSE p.keys[j - 1]
  BY <1>1, InsertAtIndex
<1>4. q.keys = s /\ q.leaf = p.leaf /\ q.rrn = p.rrn /\ q.next_leaf = p.next_leaf
  BY DEF InsertInNode, NodeOf
<1> HIDE DEF s
<1>5. DOMAIN s = 1 .. Len(p.keys) + 1
  BY <1>1, <1>2
<1>6. ToSet(s) = ToSet(p.keys) \cup {key}
  <2>1. ASSUME NEW j \in DOMAIN s PROVE s[j] \in ToSet(p.keys) \cup {key}
    <3>1. \/ j < pos + 1 /\ j \in DOMAIN p.keys
          \/ j = pos + 1
          \/ j > pos + 1 /\ j - 1 \in DOMAIN p.keys
      BY <1>1, <1>5
    <3> QED
      BY <1>1, <1>3, <1>5, <3>1 DEF ToSet
  <2>2. ASSUME NEW i \in DOMAIN p.keys PROVE p.keys[i] \in ToSet(s)
    <3>1. CASE i <= pos
      <4>1. i \in DOMAIN s /\ s[i] = p.keys[i]
        BY <1>1, <1>3, <1>5, <3>1
      <4> QED
        BY <4>1 DEF ToSet
    <3>2. CASE i > pos
      <4>1. i + 1 \in DOMAIN s /\ s[i + 1] = p.keys[i]
        BY <1>1, <1>3, <1>5, <3>2
      <4> QED
        BY <4>1 DEF ToSet
    <3> QED
      BY <1>1, <3>1, <3>2
  <2>3. key \in ToSet(s)
    <3>1. pos + 1 \in DOMAIN s /\ s[pos + 1] = key
      BY <1>1, <1>3, <1>5
    <3> QED
      BY <3>1 DEF ToSet
  <2> QED
    BY <2>1, <2>2, <2>3 DEF ToSet
<1>7. \A j \in 1 .. Len(p.keys) + 1 : j < pos + 1 <=> j <= pos
  BY <1>1
<1> QED
  BY <1>1, <1>2, <1>3, <1>4, <1>5, <1>6, <1>7

LEMMA ChildTaken ==
  ASSUME NEW K, NEW C, NEW p \in NodeOf(K, C), NEW key \in K, NEW r \in C, NEW pos \in 0 .. Len(p.keys),
         ~p.leaf, Len(p.children) = Len(p.keys) + 1,
         NEW q, q = InsertInNode(p, key, r, pos)
  PROVE  /\ Len(q.children) = Len(p.keys) + 2
         /\ DOMAIN q.children = 1 .. Len(p.keys) + 2
         /\ \A j \in 1 .. Len(p.keys) + 2 :
              q.children[j] = IF j <= pos + 1 THEN p.children[j]
                              ELSE IF j = pos + 2 THEN r ELSE p.children[j - 1]
<1> DEFINE s == InsertAt(p.children, pos + 2, r)
<1>1. p.children \in Seq(C) /\ Len(p.keys) \in Nat /\ pos + 2 \in 1 .. Len(p.children) + 1
      /\ p.leaf \in BOOLEAN
  BY DEF NodeOf
<1>2. s \in Seq(C) /\ Len(s) = Len(p.children) + 1
  BY <1>1, InsertAtProps
<1>3. \A j \in 1 .. Len(p.children) + 1 :
        s[j] = IF j < pos + 2 THEN p.children[j] ELSE IF j = pos + 2 THEN r ELSE p.children[j - 1]
  <2>1. PICK c \in Seq(C) : c = p.children
    BY <1>1
  <2>2. PICK i \in 1 .. Len(c) + 1 : i = pos + 2
    BY <1>1, <2>1
  <2>3. \A j \in 1 .. Len(c) + 1 :
          InsertAt(c, i, r)[j] = IF j < i THEN c[j] ELSE IF j = i THEN r ELSE c[j - 1]
    BY InsertAtIndex
  <2>4. s = InsertAt(c, i, r)
    BY <2>1, <2>2
  <2> HIDE DEF s
  <2> QED
    BY <2>1, <2>2, <2>3, <2>4
<1>4. q.children = s
  BY DEF InsertInNode, NodeOf
<1> HIDE DEF s
<1>5. DOMAIN s = 1 .. Len(p.keys) + 2 /\ \A j \in 1 .. Len(p.keys) + 2 : j < pos + 2 <=> j <= pos + 1
  BY <1>1, <1>2
<1> QED
  BY <1>1, <1>2, <1>3, <1>4, <1>5

-----------------------------------------------------------------------------
(* Strictly between l and u; u = 0 is no bound. *)
Gap(l, u, k) == l < k /\ (u = 0 \/ k < u)

(* The bounds of the i-th child of a node that is itself bounded by l and u. *)
Lower(p, l, i) == IF i = 1 THEN l ELSE p.keys[i - 1]
Upper(p, u, i) == IF i = Len(p.keys) + 1 THEN u ELSE p.keys[i]

(* The keys of p are in order and from l up to but not u.  The lower bound *)
(* of a leaf, a copy of its first key, stays in it.                        *)
Covers(p, l, u) ==
  /\ u = 0 \/ l < u
  /\ Ascending(p.keys)
  /\ ~p.leaf => \A i \in DOMAIN p.keys : Gap(l, u, p.keys[i])
  /\ p.leaf => \A i \in DOMAIN p.keys : l <= p.keys[i] /\ (u = 0 \/ p.keys[i] < u)
  /\ p.leaf /\ l # 0 => p.keys # <<>> /\ p.keys[1] = l

LEMMA CoversMore ==
  ASSUME NEW K \in SUBSET Nat, NEW C, NEW p \in NodeOf(K, C), NEW key \in K, NEW r,
         NEW l \in Nat, NEW u \in Nat, Covers(p, l, u), Gap(l, u, key), ~Found(p, key),
         NEW q, q = InsertInNode(p, key, r, SearchPos(p, key))
  PROVE  Covers(q, l, u)
<1>1. /\ p.keys \in Seq(K) /\ Len(p.keys) \in Nat /\ DOMAIN p.keys = 1 .. Len(p.keys)
      /\ \A i \in 1 .. Len(p.keys) : p.keys[i] \in Nat
  BY KeysTyped
<1>2. PICK pos : pos = SearchPos(p, key)
  OBVIOUS
<1>3. pos \in 0 .. Len(p.keys) /\ key \in Nat
  BY <1>2, SearchPosRange
<1>4. /\ q.leaf = p.leaf /\ Len(q.keys) = Len(p.keys) + 1
      /\ DOMAIN q.keys = 1 .. Len(p.keys) + 1
      /\ \A j \in 1 .. Len(p.keys) + 1 :
           q.keys[j] = IF j <= pos THEN p.keys[j] ELSE IF j = pos + 1 THEN key ELSE p.keys[j - 1]
  BY <1>2, <1>3, KeyTaken
<1>5. \A i \in 1 .. Len(p.keys) : IF i <= pos THEN p.keys[i] < key ELSE key < p.keys[i]
  BY <1>2, <1>3, KeyBetween DEF Covers
<1>6. \A i, j \in 1 .. Len(p.keys) : i < j => p.keys[i] < p.keys[j]
  BY <1>1 DEF Covers, Ascending
<1>7. ASSUME NEW i \in 1 .. Len(p.keys) + 1, NEW j \in 1 .. Len(p.keys) + 1, i < j
      PROVE  q.keys[i] < q.keys[j]
  <2>1. CASE j <= pos
    <3>1. i \in 1 .. Len(p.keys) /\ j \in 1 .. Len(p.keys) /\ i <= pos
      BY <1>1, <1>3, <1>7, <2>1
    <3> QED
      BY <1>4, <1>6, <1>7, <2>1, <3>1
  <2>2. CASE j = pos + 1
    <3>1. i \in 1 .. Len(p.keys) /\ i <= pos /\ ~ (j <= pos)
      BY <1>1, <1>3, <1>7, <2>2
    <3>2. q.keys[i] = p.keys[i] /\ q.keys[j] = key
      BY <1>4, <2>2, <3>1
    <3> QED
      BY <1>5, <3>1, <3>2
  <2>3. CASE j > pos + 1 /\ i <= pos
    <3>1. i \in 1 .. Len(p.keys) /\ j - 1 \in 1 .. Len(p.keys) /\ i < j - 1
      BY <1>1, <1>3, <1>7, <2>3
    <3> QED
      BY <1>3, <1>4, <1>6, <2>3, <3>1
  <2>4. CASE j > pos + 1 /\ i = pos + 1
    <3>1. j - 1 \in 1 .. Len(p.keys) /\ ~ (j - 1 <= pos) /\ ~ (j <= pos) /\ j # pos + 1 /\ ~ (i <= pos)
      BY <1>1, <1>3, <2>4
    <3>2. q.keys[i] = key /\ q.keys[j] = p.keys[j - 1]
      BY <1>4, <2>4, <3>1
    <3> QED
      BY <1>5, <3>1, <3>2
  <2>5. CASE j > pos + 1 /\ i > pos + 1
    <3>1. /\ i - 1 \in 1 .. Len(p.keys) /\ j - 1 \in 1 .. Len(p.keys) /\ i - 1 < j - 1
          /\ ~ (i <= pos) /\ i # pos + 1 /\ ~ (j <= pos) /\ j # pos + 1
      BY <1>1, <1>3, <1>7, <2>5
    <3>2. q.keys[i] = p.keys[i - 1] /\ q.keys[j] = p.keys[j - 1]
      BY <1>4, <3>1
    <3> QED
      BY <1>6, <3>1, <3>2
  <2> QED
    BY <1>1, <1>3, <2>1, <2>2, <2>3, <2>4, <2>5
<1>8. Ascending(q.keys)
  BY <1>4, <1>7 DEF Ascending
<1>9. ASSUME NEW i \in DOMAIN q.keys PROVE q.keys[i] = key \/ \E j \in DOMAIN p.keys : q.keys[i] = p.keys[j]
  <2>1. \/ i <= pos /\ i \in DOMAIN p.keys
        \/ i = pos + 1
        \/ i > pos + 1 /\ i - 1 \in DOMAIN p.keys
    BY <1>1, <1>3, <1>4
  <2> QED
    BY <1>3, <1>4, <2>1
<1>10. ~q.leaf => \A i \in DOMAIN q.keys : Gap(l, u, q.keys[i])
  BY <1>4, <1>9 DEF Covers
<1>11. q.leaf => \A i \in DOMAIN q.keys : l <= q.keys[i] /\ (u = 0 \/ q.keys[i] < u)
  <2>1. l <= key /\ (u = 0 \/ key < u)
    BY <1>3 DEF Gap
  <2> QED
    BY <1>4, <1>9, <2>1 DEF Covers
<1>12. ASSUME q.leaf, l # 0 PROVE q.keys # <<>> /\ q.keys[1] = l
  <2>1. p.keys # <<>> /\ p.keys[1] = l
    BY <1>4, <1>12 DEF Covers
  <2>2. 1 \in 1 .. Len(p.keys) /\ l < key
    BY <1>1, <2>1 DEF Gap
  <2>3. 1 <= pos
    BY <1>3, <1>5, <2>1, <2>2
  <2> QED
    BY <1>1, <1>4, <2>1, <2>2, <2>3
<1> QED
  BY <1>8, <1>10, <1>11, <1>12 DEF Covers

(* split counts the place of the key from the right and finds the same. *)
LEMMA OverfullIs ==
  ASSUME NEW K \in SUBSET Nat, NEW C, NEW p \in NodeOf(K, C), NEW key \in K, NEW r,
         NEW t, t = InsertInNode(p, key, r, SearchPos(p, key)), Ascending(t.keys)
  PROVE  Overfull(p, key, r) = t /\ ~Found(p, key)
<1>1. /\ p.keys \in Seq(K) /\ Len(p.keys) \in Nat /\ DOMAIN p.keys = 1 .. Len(p.keys)
      /\ \A i \in 1 .. Len(p.keys) : p.keys[i] \in Nat
  BY KeysTyped
<1>2. PICK pos : pos = SearchPos(p, key)
  OBVIOUS
<1>3. pos \in 0 .. Len(p.keys) /\ key \in Nat
  BY <1>2, SearchPosRange
<1>4. /\ DOMAIN t.keys = 1 .. Len(p.keys) + 1
      /\ \A j \in 1 .. Len(p.keys) + 1 :
           t.keys[j] = IF j <= pos THEN p.keys[j] ELSE IF j = pos + 1 THEN key ELSE p.keys[j - 1]
  BY <1>2, <1>3, KeyTaken
<1>5. ASSUME NEW i \in 1 .. Len(p.keys) PROVE IF i <= pos THEN p.keys[i] < key ELSE key < p.keys[i]
  <2>1. pos + 1 \in 1 .. Len(p.keys) + 1 /\ t.keys[pos + 1] = key
    BY <1>1, <1>3, <1>4
  <2>2. CASE i <= pos
    <3>1. i \in 1 .. Len(p.keys) + 1 /\ i < pos + 1
      BY <1>1, <1>3, <2>2
    <3> QED
      BY <1>4, <2>1, <2>2, <3>1 DEF Ascending
  <2>3. CASE ~ (i <= pos)
    <3>1. i + 1 \in 1 .. Len(p.keys) + 1 /\ pos + 1 < i + 1 /\ ~ (i + 1 <= pos) /\ i + 1 # pos + 1
      BY <1>1, <1>3, <2>3
    <3>2. t.keys[i + 1] = p.keys[i]
      BY <1>4, <3>1
    <3> QED
      BY <1>4, <2>1, <2>3, <3>1, <3>2 DEF Ascending
  <2> QED
    BY <2>2, <2>3
<1>6. SplitPos(p, key) = pos /\ ~Found(p, key)
  BY <1>3, <1>5, KeyPlace
<1> QED
  BY <1>2, <1>6 DEF Overfull

(* The halves q and v of a full node p and the promoted key k, in terms of *)
(* t, the node as if it had room.                                          *)
Halved(p, rrn, t, q, v, k) ==
  /\ t.leaf = p.leaf /\ q.leaf = p.leaf /\ v.leaf = p.leaf
  /\ DOMAIN t.keys = 1 .. Order /\ \A i \in 1 .. Order : t.keys[i] \in Nat
  /\ Len(q.keys) = (IF p.leaf THEN Half + 1 ELSE Half) /\ DOMAIN q.keys = 1 .. Len(q.keys)
  /\ \A i \in 1 .. Len(q.keys) : q.keys[i] = t.keys[i]
  /\ Len(v.keys) = Order - Half - 1 /\ DOMAIN v.keys = 1 .. Len(v.keys)
  /\ \A i \in 1 .. Len(v.keys) : v.keys[i] = t.keys[i + Half + 1]
  /\ k = t.keys[IF p.leaf THEN Half + 2 ELSE Half + 1]
  /\ p.leaf => q.next_leaf = rrn /\ v.next_leaf = p.next_leaf
  /\ ~p.leaf =>
       /\ Len(t.keys) = Order /\ DOMAIN t.children = 1 .. Order + 1
       /\ DOMAIN q.children = 1 .. Half + 1
       /\ \A i \in 1 .. Half + 1 : q.children[i] = t.children[i]
       /\ DOMAIN v.children = 1 .. Order - Half
       /\ \A i \in 1 .. Order - Half : v.children[i] = t.children[i + Half + 1]

LEMMA Halves ==
  ASSUME NEW K \in SUBSET Nat, NEW C, NEW p \in NodeOf(K, C), NEW key \in K, NEW r, NEW rrn \in Nat,
         Shaped(p), Full(p), p.leaf \/ r \in C,
         NEW t, t = InsertInNode(p, key, r, SearchPos(p, key)), Ascending(t.keys)
  PROVE  Halved(p, rrn, t, LeftHalf(p, key, r, rrn), RightHalf(p, key, r, rrn), Promoted(p, key))
<1>0. PICK q, v : q = LeftHalf(p, key, r, rrn) /\ v = RightHalf(p, key, r, rrn)
  OBVIOUS
<1>1. p.keys \in Seq(K) /\ Len(p.keys) \in Nat /\ p.leaf \in BOOLEAN
  BY DEF NodeOf
<1>2. Len(p.keys) = Order - 1
  BY <1>1, HalfBounds DEF Shaped, Full
<1>3. PICK pos \in 0 .. Len(p.keys) : pos = SearchPos(p, key)
  BY SearchPosRange
<1>4. t = Overfull(p, key, r)
  BY OverfullIs
<1>5. /\ t \in NodeOf(K, C) /\ t.leaf = p.leaf /\ Len(t.keys) = Order
      /\ Len(t.children) = IF p.leaf THEN 0 ELSE Order + 1
  <2>1. Len(p.children) = (IF p.leaf THEN 0 ELSE Len(p.keys) + 1)
    BY DEF Shaped
  <2>2. /\ t \in NodeOf(K, C) /\ t.leaf = p.leaf
        /\ Len(t.keys) = Len(p.keys) + 1
        /\ Len(t.children) = IF p.leaf THEN 0 ELSE Len(t.keys) + 1
    BY <1>3, <2>1, InsertInNodeProps
  <2> QED
    BY <1>2, <2>2, HalfBounds
<1>6. t.keys \in Seq(K) /\ t.children \in Seq(C)
  BY <1>5 DEF NodeOf
<1>7. Promoted(p, key) = t.keys[IF p.leaf THEN Half + 2 ELSE Half + 1]
  <2>1. t.keys = InsertAt(p.keys, SplitPos(p, key) + 1, key)
    BY <1>4 DEF Overfull, InsertInNode, NodeOf
  <2> QED
    BY <2>1 DEF Promoted
<1>8. DOMAIN t.keys = 1 .. Order /\ \A i \in 1 .. Order : t.keys[i] \in Nat
  <2>1. DOMAIN t.keys = 1 .. Order /\ \A i \in 1 .. Order : t.keys[i] \in K
    BY <1>5, KeysTyped
  <2> QED
    BY <2>1
<1> DEFINE n == IF p.leaf THEN Half + 1 ELSE Half
<1>9. n \in Nat /\ n <= Order
  BY <1>1, HalfBounds
<1>10. q.keys = SubSeq(t.keys, 1, n) /\ q.leaf = p.leaf
  <2>1. CASE p.leaf
    BY <1>0, <1>4, <2>1 DEF LeftHalf, NodeOf
  <2>2. CASE ~p.leaf
    BY <1>0, <1>4, <2>2 DEF LeftHalf, NodeOf
  <2> QED
    BY <2>1, <2>2
<1>11. v.keys = SubSeq(t.keys, Half + 2, Order) /\ v.leaf = p.leaf
  BY <1>0, <1>4 DEF RightHalf
<1> HIDE DEF n
<1>12. /\ Len(q.keys) = n /\ DOMAIN q.keys = 1 .. Len(q.keys)
       /\ \A i \in 1 .. Len(q.keys) : q.keys[i] = t.keys[i]
  BY <1>5, <1>6, <1>9, <1>10, HalfBounds
<1>13. /\ Len(v.keys) = Order - Half - 1 /\ DOMAIN v.keys = 1 .. Len(v.keys)
       /\ \A i \in 1 .. Len(v.keys) : v.keys[i] = t.keys[i + Half + 1]
  <2>1. /\ Len(v.keys) = Order - Half - 1 /\ DOMAIN v.keys = 1 .. Len(v.keys)
        /\ \A i \in 1 .. Len(v.keys) : v.keys[i] = t.keys[Half + 2 + i - 1]
    BY <1>5, <1>6, <1>11, HalfBounds
  <2>2. \A i \in 1 .. Len(v.keys) : Half + 2 + i - 1 = i + Half + 1
    BY <2>1, HalfBounds
  <2> QED
    BY <2>1, <2>2
<1>14. p.leaf => q.next_leaf = rrn /\ v.next_leaf = p.next_leaf
  BY <1>0 DEF LeftHalf, RightHalf, UpperLink, NodeOf
<1>15. ASSUME ~p.leaf
       PROVE  /\ DOMAIN t.children = 1 .. Order + 1
              /\ DOMAIN q.children = 1 .. Half + 1
              /\ \A i \in 1 .. Half + 1 : q.children[i] = t.children[i]
              /\ DOMAIN v.children = 1 .. Order - Half
              /\ \A i \in 1 .. Order - Half : v.children[i] = t.children[i + Half + 1]
  <2>1. q.children = SubSeq(t.children, 1, Half + 1)
    BY <1>0, <1>4, <1>15 DEF LeftHalf, NodeOf
  <2>2. v.children = SubSeq(t.children, Half + 2, Order + 1)
    BY <1>0, <1>4, <1>15 DEF RightHalf, UpperChildren
  <2>3. Len(t.children) = Order + 1 /\ DOMAIN t.children = 1 .. Order + 1
    BY <1>5, <1>6, <1>15, HalfBounds
  <2>4. DOMAIN q.children = 1 .. Half + 1 /\ \A i \in 1 .. Half + 1 : q.children[i] = t.children[i]
    BY <1>6, <2>1, <2>3, HalfBounds
  <2>5. /\ DOMAIN v.children = 1 .. Order - Half
        /\ \A i \in 1 .. Order - Half : v.children[i] = t.children[Half + 2 + i - 1]
    BY <1>6, <2>2, <2>3, HalfBounds
  <2>6. \A i \in 1 .. Order - Half : Half + 2 + i - 1 = i + Half + 1
    BY HalfBounds
  <2> QED
    BY <2>3, <2>4, <2>5, <2>6
<1> QED
  BY <1>0, <1>5, <1>7, <1>8, <1>10, <1>11, <1>12, <1>13, <1>14, <1>15 DEF n, Halved

(* The promoted key k parts the bounds, and the keys of the node t that    *)
(* had no room, between the halves q and v.                                *)
Parted(p, rrn, t, q, v, k, l, u) ==
  /\ Covers(q, l, k) /\ Covers(v, k, u) /\ Gap(l, u, k) /\ k # 0
  /\ Len(q.keys) >= Half /\ Len(v.keys) >= Half
  /\ q.leaf = p.leaf /\ v.leaf = p.leaf
  /\ p.leaf => q.next_leaf = rrn /\ v.next_leaf = p.next_leaf
  /\ k \in ToSet(t.keys) /\ ToSet(q.keys) \subseteq ToSet(t.keys)
  /\ ToSet(v.keys) \subseteq ToSet(t.keys)
  /\ p.leaf => ToSet(t.keys) = ToSet(q.keys) \cup ToSet(v.keys)

LEMMA SplitCovers ==
  ASSUME NEW K \in SUBSET Nat, NEW C, NEW p \in NodeOf(K, C), NEW key \in K, NEW r, NEW rrn \in Nat,
         Shaped(p), Full(p), p.leaf \/ r \in C,
         NEW t, t = InsertInNode(p, key, r, SearchPos(p, key)),
         NEW l \in Nat, NEW u \in Nat, Covers(t, l, u),
         NEW q, q = LeftHalf(p, key, r, rrn), NEW v, v = RightHalf(p, key, r, rrn),
         NEW k, k = Promoted(p, key)
  PROVE  Parted(p, rrn, t, q, v, k, l, u)
<1> DEFINE mid == IF p.leaf THEN Half + 2 ELSE Half + 1
<1>1. Ascending(t.keys)
  BY DEF Covers
<1>2. /\ t.leaf = p.leaf /\ q.leaf = p.leaf /\ v.leaf = p.leaf
      /\ DOMAIN t.keys = 1 .. Order /\ \A i \in 1 .. Order : t.keys[i] \in Nat
      /\ Len(q.keys) = (IF p.leaf THEN Half + 1 ELSE Half) /\ DOMAIN q.keys = 1 .. Len(q.keys)
      /\ \A i \in 1 .. Len(q.keys) : q.keys[i] = t.keys[i]
      /\ Len(v.keys) = Order - Half - 1 /\ DOMAIN v.keys = 1 .. Len(v.keys)
      /\ \A i \in 1 .. Len(v.keys) : v.keys[i] = t.keys[i + Half + 1]
      /\ k = t.keys[mid]
      /\ p.leaf => q.next_leaf = rrn /\ v.next_leaf = p.next_leaf
  <2>1. Halved(p, rrn, t, q, v, k)
    BY <1>1, Halves
  <2> QED
    BY <2>1 DEF Halved
<1>3. p.leaf \in BOOLEAN
  BY DEF NodeOf
<1>4. mid \in 1 .. Order /\ 1 < mid /\ Len(q.keys) = mid - 1 /\ Len(q.keys) \in Nat
      /\ Half + 1 <= mid /\ mid <= Half + 2
  <2>1. PICK half \in Nat : half = Half /\ 1 <= half /\ 2 * half <= Order - 1 /\ half + 1 <= Order - 1
    BY HalfBounds
  <2>2. Order \in Nat /\ half + 2 <= Order
    BY <2>1, HalfBounds
  <2>3. CASE p.leaf
    BY <1>2, <2>1, <2>2, <2>3
  <2>4. CASE ~p.leaf
    BY <1>2, <2>1, <2>2, <2>4
  <2> QED
    BY <2>3, <2>4
<1>5. /\ \A i, j \in 1 .. Order : i < j => t.keys[i] < t.keys[j]
      /\ u = 0 \/ l < u
      /\ ~p.leaf => \A i \in 1 .. Order : Gap(l, u, t.keys[i])
      /\ p.leaf => \A i \in 1 .. Order : l <= t.keys[i] /\ (u = 0 \/ t.keys[i] < u)
      /\ p.leaf /\ l # 0 => t.keys[1] = l
  BY <1>2 DEF Covers, Ascending
<1> HIDE DEF mid
<1>6. 1 \in 1 .. Order /\ k \in Nat /\ l <= t.keys[1] /\ t.keys[1] < k /\ (u = 0 \/ k < u)
  <2>0. 1 \in 1 .. Order
    BY HalfBounds
  <2>1. 1 \in 1 .. Order /\ k \in Nat /\ t.keys[1] < k /\ t.keys[1] \in Nat
    BY <1>2, <1>4, <1>5, <2>0
  <2>2. CASE p.leaf
    BY <1>2, <1>4, <1>5, <2>1, <2>2
  <2>3. CASE ~p.leaf
    BY <1>2, <1>4, <1>5, <2>1, <2>3 DEF Gap
  <2> QED
    BY <2>1, <2>2, <2>3
<1>7. Gap(l, u, k) /\ k # 0 /\ l < k
  BY <1>2, <1>6 DEF Gap
<1>8. \A i \in 1 .. Len(q.keys) : i \in 1 .. Order /\ i < mid
  BY <1>4, HalfBounds
<1>9. \A i \in 1 .. Len(v.keys) : i + Half + 1 \in 1 .. Order /\ mid <= i + Half + 1
  BY <1>2, <1>4, HalfBounds
<1>10. Covers(q, l, k)
  <2>1. Ascending(q.keys)
    BY <1>2, <1>5, <1>8 DEF Ascending
  <2>2. \A i \in 1 .. Len(q.keys) : q.keys[i] = t.keys[i] /\ t.keys[i] < k
    BY <1>2, <1>4, <1>5, <1>8
  <2>3. ~p.leaf => \A i \in DOMAIN q.keys : Gap(l, k, q.keys[i])
    BY <1>2, <1>5, <1>8, <2>2 DEF Gap
  <2>4. p.leaf => \A i \in DOMAIN q.keys : l <= q.keys[i] /\ q.keys[i] < k
    BY <1>2, <1>5, <1>8, <2>2
  <2>5. 1 \in DOMAIN q.keys /\ q.keys[1] = t.keys[1] /\ q.keys # <<>>
    BY <1>2, <1>4
  <2> QED
    BY <1>2, <1>5, <1>7, <2>1, <2>3, <2>4, <2>5 DEF Covers
<1>11. Covers(v, k, u)
  <2>1. Ascending(v.keys)
    <3>1. ASSUME NEW i \in 1 .. Len(v.keys), NEW j \in 1 .. Len(v.keys), i < j
          PROVE  v.keys[i] < v.keys[j]
      <4>1. i + Half + 1 < j + Half + 1
        BY <1>2, <3>1, HalfBounds
      <4> QED
        BY <1>2, <1>5, <1>9, <4>1
    <3> QED
      BY <1>2, <3>1 DEF Ascending
  <2>2. ASSUME NEW i \in 1 .. Len(v.keys)
        PROVE  v.keys[i] = t.keys[i + Half + 1] /\ k <= v.keys[i] /\ (~p.leaf => k < v.keys[i])
    <3>1. i + Half + 1 \in 1 .. Order /\ mid <= i + Half + 1 /\ v.keys[i] = t.keys[i + Half + 1]
      BY <1>2, <1>9
    <3>2. ~p.leaf => mid < i + Half + 1
      BY <1>2, HalfBounds DEF mid
    <3>3. mid < i + Half + 1 => k < v.keys[i]
      BY <1>2, <1>4, <1>5, <3>1
    <3>4. mid = i + Half + 1 => k = v.keys[i]
      BY <1>2, <3>1
    <3>5. mid < i + Half + 1 \/ mid = i + Half + 1
      BY <1>4, <3>1, HalfBounds
    <3>6. k \in Nat /\ v.keys[i] \in Nat
      BY <1>2, <1>6, <3>1
    <3> QED
      BY <3>1, <3>2, <3>3, <3>4, <3>5, <3>6
  <2>3. ~p.leaf => \A i \in DOMAIN v.keys : Gap(k, u, v.keys[i])
    BY <1>2, <1>5, <1>9, <2>2 DEF Gap
  <2>4. p.leaf => \A i \in DOMAIN v.keys : k <= v.keys[i] /\ (u = 0 \/ v.keys[i] < u)
    BY <1>2, <1>5, <1>9, <2>2
  <2>5. p.leaf => v.keys # <<>> /\ v.keys[1] = k
    <3>1. Len(v.keys) >= 1 /\ 1 \in 1 .. Len(v.keys) /\ 1 + Half + 1 = Half + 2
      BY <1>2, HalfBounds
    <3> QED
      BY <1>2, <3>1 DEF mid
  <2> QED
    BY <1>2, <1>6, <2>1, <2>3, <2>4, <2>5 DEF Covers
<1>12. k \in ToSet(t.keys) /\ ToSet(q.keys) \subseteq ToSet(t.keys) /\ ToSet(v.keys) \subseteq ToSet(t.keys)
  <2>1. k \in ToSet(t.keys)
    BY <1>2, <1>4 DEF ToSet
  <2>2. ToSet(q.keys) \subseteq ToSet(t.keys)
    BY <1>2, <1>8 DEF ToSet
  <2>3. ToSet(v.keys) \subseteq ToSet(t.keys)
    BY <1>2, <1>9 DEF ToSet
  <2> QED
    BY <2>1, <2>2, <2>3
<1>13. ASSUME p.leaf, NEW i \in 1 .. Order PROVE t.keys[i] \in ToSet(q.keys) \cup ToSet(v.keys)
  <2>1. CASE i <= Half + 1
    <3>1. i \in 1 .. Len(q.keys)
      BY <1>2, <1>13, <2>1, HalfBounds
    <3> QED
      BY <1>2, <3>1 DEF ToSet
  <2>2. CASE i > Half + 1
    <3>1. i - Half - 1 \in 1 .. Len(v.keys) /\ (i - Half - 1) + Half + 1 = i
      BY <1>2, <2>2, HalfBounds
    <3>2. v.keys[i - Half - 1] = t.keys[i]
      BY <1>2, <3>1
    <3> QED
      BY <1>2, <3>1, <3>2 DEF ToSet
  <2> QED
    BY <2>1, <2>2, HalfBounds
<1>14. p.leaf => ToSet(t.keys) = ToSet(q.keys) \cup ToSet(v.keys)
  <2>1. \A x \in ToSet(t.keys) : \E i \in 1 .. Order : x = t.keys[i]
    BY <1>2 DEF ToSet
  <2> QED
    BY <1>12, <1>13, <2>1
<1>15. Len(q.keys) >= Half /\ Len(v.keys) >= Half
  BY <1>2, <1>3, HalfBounds
<1> QED
  BY <1>2, <1>7, <1>10, <1>11, <1>12, <1>14, <1>15 DEF Parted

(* The children of the internal node t go to the halves with their bounds. *)
Shared(t, q, v, k, l, u) ==
  /\ \A i \in DOMAIN q.children :
       /\ i \in DOMAIN t.children /\ q.children[i] = t.children[i]
       /\ Lower(q, l, i) = Lower(t, l, i) /\ Upper(q, k, i) = Upper(t, u, i)
  /\ \A i \in DOMAIN v.children : \E j \in DOMAIN t.children :
       /\ v.children[i] = t.children[j]
       /\ Lower(v, k, i) = Lower(t, l, j) /\ Upper(v, u, i) = Upper(t, u, j)
  /\ ToSet(t.children) = ToSet(q.children) \cup ToSet(v.children)

LEMMA SplitChildren ==
  ASSUME NEW K \in SUBSET Nat, NEW C, NEW p \in NodeOf(K, C), NEW key \in K, NEW r \in C, NEW rrn \in Nat,
         Shaped(p), Full(p), ~p.leaf,
         NEW t, t = InsertInNode(p, key, r, SearchPos(p, key)), Ascending(t.keys),
         NEW q, q = LeftHalf(p, key, r, rrn), NEW v, v = RightHalf(p, key, r, rrn),
         NEW k, k = Promoted(p, key), NEW l, NEW u
  PROVE  Shared(t, q, v, k, l, u)
<1>0. p.leaf \/ r \in C
  OBVIOUS
<1>1. /\ Len(q.keys) = Half /\ \A i \in 1 .. Half : q.keys[i] = t.keys[i]
      /\ Len(v.keys) = Order - Half - 1
      /\ \A i \in 1 .. Order - Half - 1 : v.keys[i] = t.keys[i + Half + 1]
      /\ k = t.keys[Half + 1]
      /\ Len(t.keys) = Order /\ DOMAIN t.children = 1 .. Order + 1
      /\ DOMAIN q.children = 1 .. Half + 1
      /\ \A i \in 1 .. Half + 1 : q.children[i] = t.children[i]
      /\ DOMAIN v.children = 1 .. Order - Half
      /\ \A i \in 1 .. Order - Half : v.children[i] = t.children[i + Half + 1]
  <2>1. Halved(p, rrn, t, q, v, k)
    BY <1>0, Halves
  <2> QED
    BY <2>1 DEF Halved
<1>2. ASSUME NEW i \in 1 .. Half + 1
      PROVE  /\ i \in 1 .. Order + 1 /\ q.children[i] = t.children[i]
             /\ Lower(q, l, i) = Lower(t, l, i) /\ Upper(q, k, i) = Upper(t, u, i)
  <2>1. i \in 1 .. Order + 1 /\ i # Order + 1 /\ (i # 1 => i - 1 \in 1 .. Half)
        /\ (i # Half + 1 => i \in 1 .. Half)
    BY HalfBounds
  <2>2. Lower(q, l, i) = Lower(t, l, i)
    BY <1>1, <2>1 DEF Lower
  <2>3. Upper(t, u, i) = t.keys[i]
    BY <1>1, <2>1 DEF Upper
  <2>4. Upper(q, k, i) = t.keys[i]
    BY <1>1, <2>1 DEF Upper
  <2> QED
    BY <1>1, <2>1, <2>2, <2>3, <2>4
<1>3. ASSUME NEW i \in 1 .. Order - Half
      PROVE  /\ i + Half + 1 \in 1 .. Order + 1 /\ v.children[i] = t.children[i + Half + 1]
             /\ Lower(v, k, i) = Lower(t, l, i + Half + 1)
             /\ Upper(v, u, i) = Upper(t, u, i + Half + 1)
  <2>1. /\ i + Half + 1 \in 1 .. Order + 1 /\ i + Half + 1 # 1 /\ i + Half + 1 - 1 = i + Half
        /\ (i # 1 => i - 1 \in 1 .. Order - Half - 1 /\ (i - 1) + Half + 1 = i + Half)
        /\ i = Order - Half - 1 + 1 <=> i + Half + 1 = Order + 1
        /\ (i # Order - Half - 1 + 1 => i \in 1 .. Order - Half - 1)
    BY HalfBounds
  <2>2. Lower(t, l, i + Half + 1) = t.keys[i + Half]
    BY <2>1, HalfBounds DEF Lower
  <2>3. Lower(v, k, i) = t.keys[i + Half]
    <3>1. CASE i = 1
      <4>1. i + Half = Half + 1
        BY <3>1, HalfBounds
      <4> QED
        BY <1>1, <3>1, <4>1 DEF Lower
    <3>2. CASE i # 1
      <4>1. v.keys[i - 1] = t.keys[(i - 1) + Half + 1]
        BY <1>1, <2>1, <3>2
      <4> QED
        BY <2>1, <3>2, <4>1 DEF Lower
    <3> QED
      BY <3>1, <3>2
  <2>4. Upper(v, u, i) = Upper(t, u, i + Half + 1)
    BY <1>1, <2>1 DEF Upper
  <2> QED
    BY <1>1, <2>1, <2>2, <2>3, <2>4
<1>4. ToSet(t.children) = ToSet(q.children) \cup ToSet(v.children)
  <2>1. ASSUME NEW j \in 1 .. Order + 1 PROVE t.children[j] \in ToSet(q.children) \cup ToSet(v.children)
    <3>1. CASE j <= Half + 1
      <4>1. j \in DOMAIN q.children /\ q.children[j] = t.children[j]
        BY <1>1, <3>1, HalfBounds
      <4> QED
        BY <4>1 DEF ToSet
    <3>2. CASE j > Half + 1
      <4>1. j - Half - 1 \in 1 .. Order - Half /\ (j - Half - 1) + Half + 1 = j
        BY <3>2, HalfBounds
      <4>2. j - Half - 1 \in DOMAIN v.children /\ v.children[j - Half - 1] = t.children[j]
        BY <1>1, <4>1
      <4> QED
        BY <4>2 DEF ToSet
    <3> QED
      BY <3>1, <3>2, HalfBounds
  <2>2. ToSet(q.children) \subseteq ToSet(t.children)
    BY <1>1, <1>2 DEF ToSet
  <2>3. ToSet(v.children) \subseteq ToSet(t.children)
    <3>1. ASSUME NEW x \in ToSet(v.children) PROVE x \in ToSet(t.children)
      <4>1. PICK i \in 1 .. Order - Half : x = v.children[i]
        BY <1>1, <3>1 DEF ToSet
      <4>2. PICK j \in 1 .. Order + 1 : x = t.children[j]
        BY <1>3, <4>1
      <4> QED
        BY <1>1, <4>2 DEF ToSet
    <3> QED
      BY <3>1
  <2>4. \A x \in ToSet(t.children) : \E j \in 1 .. Order + 1 : x = t.children[j]
    BY <1>1 DEF ToSet
  <2> QED
    BY <2>1, <2>2, <2>3, <2>4
<1> QED
  BY <1>1, <1>2, <1>3, <1>4 DEF Shared

(* Both, of the halves that split makes. *)
LEMMA SplitParts ==
  ASSUME NEW K \in SUBSET Nat, NEW C, NEW p \in NodeOf(K, C), NEW key \in K, NEW r, NEW rrn \in Nat,
         Shaped(p), Full(p), p.leaf \/ r \in C, NEW l \in Nat, NEW u \in Nat,
         Covers(InsertInNode(p, key, r, SearchPos(p, key)), l, u)
  PROVE  /\ Parted(p, rrn, InsertInNode(p, key, r, SearchPos(p, key)), LeftHalf(p, key, r, rrn),
                   RightHalf(p, key, r, rrn), Promoted(p, key), l, u)
         /\ ~p.leaf => Shared(InsertInNode(p, key, r, SearchPos(p, key)), LeftHalf(p, key, r, rrn),
                              RightHalf(p, key, r, rrn), Promoted(p, key), l, u)
<1>1. PICK t, q, v, k : /\ t = InsertInNode(p, key, r, SearchPos(p, key))
                        /\ q = LeftHalf(p, key, r, rrn) /\ v = RightHalf(p, key, r, rrn)
                        /\ k = Promoted(p, key)
  OBVIOUS
<1>2. Covers(t, l, u) /\ Ascending(t.keys)
  BY <1>1 DEF Covers
<1>3. Parted(p, rrn, t, q, v, k, l, u)
  BY <1>1, <1>2, SplitCovers
<1>4. ~p.leaf => r \in C
  OBVIOUS
<1>5. ~p.leaf => Shared(t, q, v, k, l, u)
  BY <1>1, <1>2, <1>4, SplitChildren
<1> QED
  BY <1>1, <1>3, <1>5

-----------------------------------------------------------------------------
(* The bounds of the child a search goes on at are around the key. *)
LEMMA ChildGap ==
  ASSUME NEW K \in SUBSET Nat, NEW C, NEW p \in NodeOf(K, C), NEW key \in Nat, NEW l, NEW u,
         Ascending(p.keys), ~Found(p, key), Gap(l, u, key)
  PROVE  Gap(Lower(p, l, SearchPos(p, key) + 1), Upper(p, u, SearchPos(p, key) + 1), key)
<1>1. /\ Len(p.keys) \in Nat /\ DOMAIN p.keys = 1 .. Len(p.keys)
      /\ \A i \in 1 .. Len(p.keys) : p.keys[i] \in Nat
  BY KeysTyped
<1>2. PICK pos \in 0 .. Len(p.keys) : pos = SearchPos(p, key)
  BY SearchPosRange
<1>3. \A i \in 1 .. Len(p.keys) : IF i <= pos THEN p.keys[i] < key ELSE key < p.keys[i]
  BY <1>2, KeyBetween
<1>4. Lower(p, l, pos + 1) < key
  <2>1. CASE pos = 0
    BY <2>1 DEF Lower, Gap
  <2>2. CASE pos # 0
    <3>1. pos \in 1 .. Len(p.keys) /\ pos <= pos /\ pos + 1 # 1 /\ pos + 1 - 1 = pos
      BY <1>1, <2>2
    <3> QED
      BY <1>3, <3>1 DEF Lower
  <2> QED
    BY <2>1, <2>2
<1>5. Upper(p, u, pos + 1) = 0 \/ key < Upper(p, u, pos + 1)
  <2>1. CASE pos = Len(p.keys)
    BY <2>1 DEF Upper, Gap
  <2>2. CASE pos # Len(p.keys)
    <3>1. pos + 1 \in 1 .. Len(p.keys) /\ ~ (pos + 1 <= pos) /\ pos + 1 # Len(p.keys) + 1
      BY <1>1, <2>2
    <3> QED
      BY <1>3, <3>1 DEF Upper
  <2> QED
    BY <2>1, <2>2
<1> QED
  BY <1>2, <1>4, <1>5 DEF Gap

(* And the other way round: the bounds tell the child. *)
LEMMA PlaceBetween ==
  ASSUME NEW K \in SUBSET Nat, NEW C, NEW p \in NodeOf(K, C), NEW key \in Nat, NEW l, NEW u,
         Ascending(p.keys), NEW pos \in 0 .. Len(p.keys), K \subseteq Nat \ {0},
         Gap(Lower(p, l, pos + 1), Upper(p, u, pos + 1), key)
  PROVE  SearchPos(p, key) = pos /\ ~Found(p, key)
<1>1. /\ Len(p.keys) \in Nat /\ DOMAIN p.keys = 1 .. Len(p.keys)
      /\ \A i \in 1 .. Len(p.keys) : p.keys[i] \in Nat /\ p.keys[i] # 0
  BY KeysTyped
<1>2. ASSUME NEW i \in 1 .. Len(p.keys) PROVE IF i <= pos THEN p.keys[i] < key ELSE key < p.keys[i]
  <2>1. CASE i <= pos
    <3>1. pos \in 1 .. Len(p.keys) /\ pos + 1 # 1 /\ pos + 1 - 1 = pos
      BY <1>1, <2>1
    <3>2. p.keys[pos] < key
      BY <3>1 DEF Gap, Lower
    <3>3. i = pos \/ p.keys[i] < p.keys[pos]
      BY <1>1, <2>1, <3>1 DEF Ascending
    <3> QED
      BY <1>1, <2>1, <3>1, <3>2, <3>3
  <2>2. CASE ~ (i <= pos)
    <3>1. /\ pos + 1 \in 1 .. Len(p.keys) /\ pos + 1 # Len(p.keys) + 1 /\ pos + 1 <= i
          /\ i = pos + 1 \/ pos + 1 < i
      BY <1>1, <2>2
    <3>2. key < p.keys[pos + 1]
      BY <1>1, <3>1 DEF Gap, Upper
    <3>3. i = pos + 1 \/ p.keys[pos + 1] < p.keys[i]
      BY <1>1, <3>1 DEF Ascending
    <3> QED
      BY <1>1, <2>2, <3>1, <3>2, <3>3
  <2> QED
    BY <2>1, <2>2
<1> QED
  BY <1>2, KeyPlace

(* A child is within the bounds of its parent. *)
LEMMA ChildBounds ==
  ASSUME NEW K \in SUBSET Nat, NEW C, NEW p \in NodeOf(K, C), NEW l \in Nat, NEW u \in Nat,
         Covers(p, l, u), ~p.leaf, NEW i \in 1 .. Len(p.keys) + 1
  PROVE  /\ Lower(p, l, i) \in Nat /\ l <= Lower(p, l, i) /\ (u = 0 \/ Lower(p, l, i) < u)
         /\ i # 1 => i - 1 \in DOMAIN p.keys /\ Lower(p, l, i) = p.keys[i - 1] /\ l < Lower(p, l, i)
<1>1. /\ Len(p.keys) \in Nat /\ DOMAIN p.keys = 1 .. Len(p.keys)
      /\ \A j \in 1 .. Len(p.keys) : p.keys[j] \in Nat
  BY KeysTyped
<1>2. CASE i = 1
  BY <1>2 DEF Lower, Covers
<1>3. CASE i # 1
  <2>1. i - 1 \in 1 .. Len(p.keys)
    BY <1>1, <1>3
  <2> QED
    BY <1>1, <1>3, <2>1 DEF Lower, Covers, Gap
<1> QED
  BY <1>2, <1>3

(* A range query goes to the right of the keys that are not too large. *)
LEMMA RangePosProps ==
  ASSUME NEW K \in SUBSET Nat, NEW C, NEW p \in NodeOf(K, C), NEW key \in Nat, Ascending(p.keys)
  PROVE  \A i \in 1 .. Len(p.keys) : i <= RangePos(p, key) <=> p.keys[i] <= key
<1> DEFINE stop == {i \in DOMAIN p.keys : key < p.keys[i]}
<1>1. /\ Len(p.keys) \in Nat /\ DOMAIN p.keys = 1 .. Len(p.keys)
      /\ \A i \in 1 .. Len(p.keys) : p.keys[i] \in Nat
  BY KeysTyped
<1>2. stop \in SUBSET Nat /\ \A i \in stop : i \in 1 .. Len(p.keys) /\ key < p.keys[i]
  BY <1>1
<1>3. \A i \in 1 .. Len(p.keys) : i \notin stop => p.keys[i] <= key
  BY <1>1
<1>4. PICK pos : pos = RangePos(p, key)
  OBVIOUS
<1>5. pos = IF stop = {} THEN Len(p.keys) ELSE Min(stop) - 1
  BY <1>4 DEF RangePos
<1> HIDE DEF stop
<1>6. CASE stop = {}
  BY <1>1, <1>3, <1>4, <1>5, <1>6
<1>7. CASE stop # {}
  <2>1. Min(stop) \in stop /\ \A j \in stop : Min(stop) <= j
    BY <1>2, <1>7, MinIsLeast
  <2>2. PICK n \in stop : n = Min(stop)
    BY <2>1
  <2>3. n \in 1 .. Len(p.keys) /\ pos = n - 1 /\ key < p.keys[n]
    BY <1>2, <1>5, <1>7, <2>2
  <2>4. ASSUME NEW i \in 1 .. Len(p.keys) PROVE i <= pos <=> p.keys[i] <= key
    <3>1. CASE i <= pos
      <4>1. i \notin stop
        BY <1>1, <2>1, <2>2, <2>3, <3>1
      <4> QED
        BY <1>3, <3>1, <4>1
    <3>2. CASE ~ (i <= pos)
      <4>1. i = n \/ n < i
        BY <1>1, <2>3, <3>2
      <4>2. i = n \/ p.keys[n] < p.keys[i]
        BY <1>1, <2>3, <4>1 DEF Ascending
      <4>3. key < p.keys[i]
        BY <1>1, <2>3, <4>2
      <4> QED
        BY <1>1, <3>2, <4>3
    <3> QED
      BY <3>1, <3>2
  <2> QED
    BY <1>4, <2>4
<1> QED
  BY <1>6, <1>7

LEMMA RangeBound ==
  ASSUME NEW K \in SUBSET Nat, NEW C, NEW p \in NodeOf(K, C), NEW key \in Nat, NEW l,
         Ascending(p.keys), l <= key
  PROVE  Lower(p, l, RangePos(p, key) + 1) <= key
<1>1. PICK pos \in 0 .. Len(p.keys) : pos = RangePos(p, key)
  BY RangePosRange
<1>2. Len(p.keys) \in Nat
  BY KeysTyped
<1>3. CASE pos = 0
  BY <1>1, <1>3 DEF Lower
<1>4. CASE pos # 0
  <2>1. pos \in 1 .. Len(p.keys) /\ pos + 1 # 1 /\ pos + 1 - 1 = pos /\ pos <= pos
    BY <1>2, <1>4
  <2>2. p.keys[pos] <= key
    BY <1>1, <2>1, RangePosProps
  <2> QED
    BY <1>1, <2>1, <2>2 DEF Lower
<1> QED
  BY <1>3, <1>4

-----------------------------------------------------------------------------
(* A key between the bounds of a child is between those of its parent. *)
LEMMA GapOut ==
  ASSUME NEW K \in SUBSET Nat, NEW C, NEW p \in NodeOf(K, C), NEW l \in Nat, NEW u \in Nat,
         Covers(p, l, u), ~p.leaf, NEW pos \in 0 .. Len(p.keys), NEW key \in Nat,
         Gap(Lower(p, l, pos + 1), Upper(p, u, pos + 1), key)
  PROVE  Gap(l, u, key)
<1>1. /\ Len(p.keys) \in Nat /\ DOMAIN p.keys = 1 .. Len(p.keys)
      /\ \A j \in 1 .. Len(p.keys) : p.keys[j] \in Nat
  BY KeysTyped
<1>2. l < key
  <2>1. pos + 1 \in 1 .. Len(p.keys) + 1
    BY <1>1
  <2>2. Lower(p, l, pos + 1) \in Nat /\ l <= Lower(p, l, pos + 1)
    BY <2>1, ChildBounds
  <2> QED
    BY <2>2 DEF Gap
<1>3. u = 0 \/ key < u
  <2>1. CASE pos = Len(p.keys)
    <3>1. Upper(p, u, pos + 1) = u
      BY <1>1, <2>1 DEF Upper
    <3> QED
      BY <3>1 DEF Gap
  <2>2. CASE pos # Len(p.keys)
    <3>1. pos + 1 \in 1 .. Len(p.keys) /\ pos + 1 # Len(p.keys) + 1
      BY <1>1, <2>2
    <3>2. Upper(p, u, pos + 1) = p.keys[pos + 1] /\ p.keys[pos + 1] \in Nat
          /\ Gap(l, u, p.keys[pos + 1])
      BY <1>1, <3>1 DEF Upper, Covers
    <3>3. p.keys[pos + 1] # 0 /\ (u = 0 \/ p.keys[pos + 1] < u)
      BY <3>2 DEF Gap
    <3>4. key < p.keys[pos + 1]
      BY <3>2, <3>3 DEF Gap
    <3> QED
      BY <3>2, <3>3, <3>4
  <2> QED
    BY <2>1, <2>2
<1> QED
  BY <1>2, <1>3 DEF Gap

(* Two children of a node do not start at the same key. *)
LEMMA LowerApart ==
  ASSUME NEW K \in SUBSET Nat, NEW C, NEW p \in NodeOf(K, C), NEW l \in Nat, NEW u \in Nat,
         Covers(p, l, u), ~p.leaf, NEW i \in 1 .. Len(p.keys) + 1, NEW j \in 1 .. Len(p.keys) + 1,
         i < j
  PROVE  Lower(p, l, i) # Lower(p, l, j)
<1>1. /\ Len(p.keys) \in Nat /\ DOMAIN p.keys = 1 .. Len(p.keys)
      /\ \A n \in 1 .. Len(p.keys) : p.keys[n] \in Nat
  BY KeysTyped
<1>2. j # 1 /\ j - 1 \in 1 .. Len(p.keys)
  BY <1>1
<1>3. Lower(p, l, j) = p.keys[j - 1] /\ p.keys[j - 1] \in Nat /\ l < p.keys[j - 1]
  BY <1>1, <1>2 DEF Lower, Covers, Gap
<1>4. CASE i = 1
  BY <1>3, <1>4 DEF Lower
<1>5. CASE i # 1
  <2>1. i - 1 \in 1 .. Len(p.keys) /\ i - 1 < j - 1
    BY <1>1, <1>5
  <2>2. p.keys[i - 1] < p.keys[j - 1] /\ p.keys[i - 1] \in Nat /\ Lower(p, l, i) = p.keys[i - 1]
    BY <1>1, <1>2, <1>5, <2>1 DEF Covers, Ascending, Lower
  <2> QED
    BY <1>3, <2>2
<1> QED
  BY <1>4, <1>5

(* q, which is p with a new key and child, leads to the child at pos up to *)
(* the key, from there to r, and to the others as before.                  *)
Taken(p, q, key, r, pos, l, u) ==
  /\ \A j \in DOMAIN q.children :
       \/ q.children[j] = r /\ Lower(q, l, j) = key /\ Upper(q, u, j) = Upper(p, u, pos + 1)
       \/ /\ q.children[j] = p.children[pos + 1]
          /\ Lower(q, l, j) = Lower(p, l, pos + 1) /\ Upper(q, u, j) = key
       \/ \E i \in DOMAIN p.children \ {pos + 1} :
            /\ q.children[j] = p.children[i]
            /\ Lower(q, l, j) = Lower(p, l, i) /\ Upper(q, u, j) = Upper(p, u, i)
  /\ ToSet(q.children) = ToSet(p.children) \cup {r}

LEMMA TakenChildren ==
  ASSUME NEW K, NEW C, NEW p \in NodeOf(K, C), NEW key \in K, NEW r \in C, NEW pos \in 0 .. Len(p.keys),
         ~p.leaf, Len(p.children) = Len(p.keys) + 1, NEW l, NEW u
  PROVE  Taken(p, InsertInNode(p, key, r, pos), key, r, pos, l, u)
<1>1. PICK q : q = InsertInNode(p, key, r, pos)
  OBVIOUS
<1>2. PICK n \in Nat : n = Len(p.keys)
  BY DEF NodeOf
<1>3. /\ Len(q.keys) = n + 1
      /\ \A j \in 1 .. n + 1 :
           q.keys[j] = IF j <= pos THEN p.keys[j] ELSE IF j = pos + 1 THEN key ELSE p.keys[j - 1]
  BY <1>1, <1>2, KeyTaken
<1>4. /\ DOMAIN q.children = 1 .. n + 2
      /\ \A j \in 1 .. n + 2 :
           q.children[j] = IF j <= pos + 1 THEN p.children[j]
                           ELSE IF j = pos + 2 THEN r ELSE p.children[j - 1]
  BY <1>1, <1>2, ChildTaken
<1>5. DOMAIN p.children = 1 .. n + 1 /\ pos \in 0 .. n
  BY <1>2 DEF NodeOf
<1>6. ASSUME NEW j \in DOMAIN q.children
      PROVE  \/ q.children[j] = r /\ Lower(q, l, j) = key /\ Upper(q, u, j) = Upper(p, u, pos + 1)
             \/ /\ q.children[j] = p.children[pos + 1]
                /\ Lower(q, l, j) = Lower(p, l, pos + 1) /\ Upper(q, u, j) = key
             \/ \E i \in DOMAIN p.children \ {pos + 1} :
                  /\ q.children[j] = p.children[i]
                  /\ Lower(q, l, j) = Lower(p, l, i) /\ Upper(q, u, j) = Upper(p, u, i)
  <2>0. j \in 1 .. n + 2
    BY <1>4
  <2>1. CASE j <= pos
    <3>1. /\ j \in 1 .. n + 1 /\ j # pos + 1 /\ j # n + 1 + 1 /\ j # n + 1 /\ j <= pos + 1
          /\ (j # 1 => j - 1 \in 1 .. n + 1 /\ j - 1 <= pos)
      BY <1>5, <2>0, <2>1
    <3>2. q.children[j] = p.children[j]
      BY <1>4, <2>0, <3>1
    <3>3. Lower(q, l, j) = Lower(p, l, j)
      BY <1>3, <3>1 DEF Lower
    <3>4. Upper(q, u, j) = Upper(p, u, j)
      BY <1>2, <1>3, <2>1, <3>1 DEF Upper
    <3>5. j \in DOMAIN p.children \ {pos + 1}
      BY <1>5, <3>1
    <3> QED
      BY <3>2, <3>3, <3>4, <3>5
  <2>2. CASE j = pos + 1
    <3>1. /\ j \in 1 .. n + 1 /\ j # n + 1 + 1 /\ j <= pos + 1 /\ ~(j <= pos)
          /\ (j # 1 => j - 1 \in 1 .. n + 1 /\ j - 1 <= pos)
      BY <1>5, <2>0, <2>2
    <3>2. q.children[j] = p.children[pos + 1]
      BY <1>4, <2>0, <2>2, <3>1
    <3>3. Lower(q, l, j) = Lower(p, l, pos + 1)
      BY <1>3, <2>2, <3>1 DEF Lower
    <3>4. Upper(q, u, j) = key
      BY <1>3, <2>2, <3>1 DEF Upper
    <3> QED
      BY <3>2, <3>3, <3>4
  <2>3. CASE j = pos + 2
    <3>1. /\ ~(j <= pos + 1) /\ j # 1 /\ j - 1 = pos + 1 /\ pos + 1 \in 1 .. n + 1 /\ ~(pos + 1 <= pos)
          /\ (j = n + 1 + 1 <=> pos + 1 = n + 1)
          /\ (j # n + 1 + 1 => j \in 1 .. n + 1 /\ ~(j <= pos) /\ j # pos + 1)
      BY <1>5, <2>0, <2>3
    <3>2. q.children[j] = r
      BY <1>4, <2>0, <2>3, <3>1
    <3>3. Lower(q, l, j) = key
      BY <1>3, <3>1 DEF Lower
    <3>4. Upper(q, u, j) = Upper(p, u, pos + 1)
      BY <1>2, <1>3, <3>1 DEF Upper
    <3> QED
      BY <3>2, <3>3, <3>4
  <2>4. CASE j > pos + 2
    <3>0. PICK i : i = j - 1
      OBVIOUS
    <3>1. /\ ~(j <= pos + 1) /\ j # pos + 2 /\ j # 1 /\ i # 1 /\ i \in 1 .. n + 1 /\ ~(i <= pos)
          /\ i # pos + 1 /\ i - 1 = j - 2
          /\ (j = n + 1 + 1 <=> i = n + 1)
          /\ (j # n + 1 + 1 => j \in 1 .. n + 1 /\ ~(j <= pos) /\ j # pos + 1)
      BY <1>5, <2>0, <2>4, <3>0
    <3>2. q.children[j] = p.children[i]
      BY <1>4, <2>0, <3>0, <3>1
    <3>3. Lower(q, l, j) = Lower(p, l, i)
      BY <1>3, <3>0, <3>1 DEF Lower
    <3>4. Upper(q, u, j) = Upper(p, u, i)
      BY <1>2, <1>3, <3>0, <3>1 DEF Upper
    <3>5. i \in DOMAIN p.children \ {pos + 1}
      BY <1>5, <3>1
    <3> QED
      BY <3>2, <3>3, <3>4, <3>5
  <2> QED
    BY <1>5, <2>0, <2>1, <2>2, <2>3, <2>4
<1>7. ToSet(q.children) = ToSet(p.children) \cup {r}
  <2>1. ASSUME NEW c \in ToSet(q.children) PROVE c \in ToSet(p.children) \cup {r}
    <3>1. PICK j \in DOMAIN q.children : c = q.children[j]
      BY DEF ToSet
    <3>2. pos + 1 \in DOMAIN p.children
      BY <1>5
    <3> QED
      BY <1>6, <3>1, <3>2 DEF ToSet
  <2>2. ASSUME NEW i \in DOMAIN p.children PROVE \E j \in DOMAIN q.children : q.children[j] = p.children[i]
    <3>1. CASE i <= pos + 1
      <4>1. i \in 1 .. n + 2
        BY <1>5
      <4> QED
        BY <1>4, <3>1, <4>1
    <3>2. CASE ~(i <= pos + 1)
      <4>0. PICK j : j = i + 1
        OBVIOUS
      <4>1. j \in 1 .. n + 2 /\ ~(j <= pos + 1) /\ j # pos + 2 /\ j - 1 = i
        BY <1>5, <3>2, <4>0
      <4>2. q.children[j] = p.children[i]
        BY <1>4, <4>1
      <4> QED
        BY <1>4, <4>1, <4>2
    <3> QED
      BY <3>1, <3>2
  <2>3. \E j \in DOMAIN q.children : q.children[j] = r
    <3>0. PICK j : j = pos + 2
      OBVIOUS
    <3>1. j \in 1 .. n + 2 /\ ~(j <= pos + 1)
      BY <1>5, <3>0
    <3>2. q.children[j] = r
      BY <1>4, <3>0, <3>1
    <3> QED
      BY <1>4, <3>1, <3>2
  <2>4. ASSUME NEW c \in ToSet(p.children) \cup {r} PROVE c \in ToSet(q.children)
    BY <2>2, <2>3 DEF ToSet
  <2> QED
    BY <2>1, <2>4
<1> QED
  BY <1>1, <1>6, <1>7 DEF Taken

-----------------------------------------------------------------------------
LEMMA RemoveAtIndex ==
  ASSUME NEW K, NEW s \in Seq(K), NEW i \in 1 .. Len(s)
  PROVE  \A j \in 1 .. Len(s) - 1 : RemoveAt(s, i)[j] = IF j < i THEN s[j] ELSE s[j + 1]
<1> DEFINE a == SubSeq(s, 1, i - 1)
<1> DEFINE b == SubSeq(s, i + 1, Len(s))
<1>1. Len(s) \in Nat
  OBVIOUS
<1>2. a \in Seq(K) /\ Len(a) = i - 1 /\ \A j \in 1 .. i - 1 : a[j] = s[j]
  BY <1>1
<1>3. b \in Seq(K) /\ Len(b) = Len(s) - i /\ \A j \in 1 .. Len(s) - i : b[j] = s[i + j]
  BY <1>1
<1>4. RemoveAt(s, i) = a \o b
  BY DEF RemoveAt
<1> HIDE DEF a, b
<1>5. \A j \in 1 .. Len(a) + Len(b) : (a \o b)[j] = IF j <= Len(a) THEN a[j] ELSE b[j - Len(a)]
  BY <1>2, <1>3
<1>6. ASSUME NEW j \in 1 .. Len(s) - 1 PROVE RemoveAt(s, i)[j] = IF j < i THEN s[j] ELSE s[j + 1]
  <2>1. j \in 1 .. Len(a) + Len(b)
    BY <1>1, <1>2, <1>3
  <2>2. CASE j < i
    <3>1. j <= Len(a) /\ j \in 1 .. i - 1
      BY <1>1, <1>2, <2>2
    <3> QED
      BY <1>2, <1>4, <1>5, <2>1, <2>2, <3>1
  <2>3. CASE ~(j < i)
    <3>1. ~(j <= Len(a)) /\ j - Len(a) \in 1 .. Len(s) - i /\ i + (j - Len(a)) = j + 1
      BY <1>1, <1>2, <2>3
    <3> QED
      BY <1>3, <1>4, <1>5, <2>1, <2>3, <3>1
  <2> QED
    BY <2>2, <2>3
<1> QED
  BY <1>6

(* q is the leaf p without one of its keys. *)
Lacks(p, q, key) ==
  /\ q.leaf = p.leaf /\ q.rrn = p.rrn /\ q.next_leaf = p.next_leaf /\ q.children = p.children
  /\ Len(q.keys) = Len(p.keys) - 1 /\ DOMAIN q.keys = 1 .. Len(p.keys) - 1
  /\ Ascending(q.keys) /\ ToSet(q.keys) = ToSet(p.keys) \ {key}
  /\ p.keys[1] < key => 1 \in DOMAIN q.keys /\ q.keys[1] = p.keys[1]

LEMMA KeyGone ==
  ASSUME NEW K \in SUBSET Nat, NEW C, NEW p \in NodeOf(K, C), NEW key \in Nat,
         Shaped(p), p.leaf, Found(p, key), Ascending(p.keys)
  PROVE  Lacks(p, WithoutKey(p, key), key)
<1>0. PICK q : q = WithoutKey(p, key)
  OBVIOUS
<1>1. PICK n \in Nat : n = Len(p.keys)
  BY DEF NodeOf
<1>2. /\ p.keys \in Seq(K) /\ DOMAIN p.keys = 1 .. n
      /\ \A i \in 1 .. n : p.keys[i] \in K /\ p.keys[i] \in Nat
  BY <1>1, KeysTyped
<1>3. PICK at : at = SearchPos(p, key) + 1
  OBVIOUS
<1>4. at \in 1 .. n /\ p.keys[at] = key
  BY <1>2, <1>3 DEF Found
<1>5. PICK s : s = RemoveAt(p.keys, at)
  OBVIOUS
<1>6. /\ q.leaf = p.leaf /\ q.rrn = p.rrn /\ q.next_leaf = p.next_leaf /\ q.children = p.children
      /\ q.keys = s
  BY <1>0, <1>3, <1>5 DEF WithoutKey, NodeOf
<1>7. s \in Seq(K) /\ Len(s) = n - 1
      /\ \A j \in 1 .. n - 1 : s[j] = IF j < at THEN p.keys[j] ELSE p.keys[j + 1]
  <2>1. at \in 1 .. Len(p.keys)
    BY <1>1, <1>4
  <2>2. s \in Seq(K) /\ Len(s) = Len(p.keys) - 1
    BY <1>2, <1>5, <2>1, RemoveAtProps
  <2>3. \A j \in 1 .. Len(p.keys) - 1 : s[j] = IF j < at THEN p.keys[j] ELSE p.keys[j + 1]
    BY <1>2, <1>5, <2>1, RemoveAtIndex
  <2> QED
    BY <1>1, <2>2, <2>3
<1>8. DOMAIN s = 1 .. n - 1
  BY <1>7
<1>9. \A i, j \in 1 .. n : i < j => p.keys[i] < p.keys[j]
  BY <1>2 DEF Ascending
<1>10. Ascending(s)
  <2>1. SUFFICES ASSUME NEW i \in 1 .. n - 1, NEW j \in 1 .. n - 1, i < j PROVE s[i] < s[j]
    BY <1>8 DEF Ascending
  <2>2. i \in 1 .. n /\ j \in 1 .. n /\ i + 1 \in 1 .. n /\ j + 1 \in 1 .. n /\ i < j + 1 /\ i + 1 < j + 1
    BY <2>1
  <2>3. p.keys[i] < p.keys[j] /\ p.keys[i] < p.keys[j + 1] /\ p.keys[i + 1] < p.keys[j + 1]
    BY <1>9, <2>1, <2>2
  <2>4. i < at \/ ~(j < at)
    BY <1>4, <2>1
  <2> QED
    BY <1>7, <2>1, <2>3, <2>4
<1>11. ToSet(s) = ToSet(p.keys) \ {key}
  <2>1. ASSUME NEW x \in ToSet(s) PROVE x \in ToSet(p.keys) /\ x # key
    <3>1. PICK j \in 1 .. n - 1 : x = s[j]
      BY <1>8 DEF ToSet
    <3>2. PICK i \in 1 .. n : x = p.keys[i] /\ i # at
      <4>1. j \in 1 .. n /\ j + 1 \in 1 .. n /\ (j < at => j # at) /\ (~(j < at) => j + 1 # at)
        BY <1>4, <3>1
      <4> QED
        BY <1>7, <3>1, <4>1
    <3>3. i < at \/ at < i
      BY <1>4, <3>2
    <3>4. x # key
      BY <1>2, <1>4, <1>9, <3>2, <3>3
    <3> QED
      BY <1>2, <3>2, <3>4 DEF ToSet
  <2>2. ASSUME NEW i \in 1 .. n, i # at PROVE \E j \in 1 .. n - 1 : s[j] = p.keys[i]
    <3>1. CASE i < at
      <4>1. i \in 1 .. n - 1
        BY <1>4, <3>1
      <4> QED
        BY <1>7, <3>1, <4>1
    <3>2. CASE ~(i < at)
      <4>0. PICK j : j = i - 1
        OBVIOUS
      <4>1. j \in 1 .. n - 1 /\ ~(j < at) /\ j + 1 = i
        BY <1>4, <2>2, <3>2, <4>0
      <4> QED
        BY <1>7, <4>1
    <3> QED
      BY <3>1, <3>2
  <2>3. ASSUME NEW x \in ToSet(p.keys), x # key PROVE x \in ToSet(s)
    <3>1. PICK i \in 1 .. n : x = p.keys[i] /\ i # at
      BY <1>2, <1>4, <2>3 DEF ToSet
    <3> QED
      BY <1>8, <2>2, <3>1 DEF ToSet
  <2> QED
    BY <2>1, <2>3
<1>12. ASSUME p.keys[1] < key PROVE 1 \in DOMAIN s /\ s[1] = p.keys[1]
  <2>1. at # 1
    BY <1>2, <1>4, <1>12
  <2>2. 1 \in 1 .. n - 1 /\ 1 < at
    BY <1>4, <2>1
  <2> QED
    BY <1>7, <1>8, <2>2
<1> QED
  BY <1>0, <1>1, <1>6, <1>7, <1>8, <1>10, <1>11, <1>12 DEF Lacks

(* The bounds hold without a key that is not the lower bound. *)
LEMMA CoversLess ==
  ASSUME NEW K \in SUBSET Nat, NEW C, NEW p \in NodeOf(K, C), NEW key \in Nat,
         Shaped(p), p.leaf, Found(p, key), NEW l \in Nat, NEW u \in Nat, Covers(p, l, u), Gap(l, u, key),
         NEW q, q = WithoutKey(p, key)
  PROVE  Covers(q, l, u)
<1>1. Ascending(p.keys)
  BY DEF Covers
<1>2. /\ q.leaf = p.leaf /\ Ascending(q.keys) /\ ToSet(q.keys) = ToSet(p.keys) \ {key}
      /\ p.keys[1] < key => 1 \in DOMAIN q.keys /\ q.keys[1] = p.keys[1]
  <2>1. Lacks(p, q, key)
    BY <1>1, KeyGone
  <2> QED
    BY <2>1 DEF Lacks
<1>3. \A i \in DOMAIN q.keys : l <= q.keys[i] /\ (u = 0 \/ q.keys[i] < u)
  <2>1. \A x \in ToSet(p.keys) : l <= x /\ (u = 0 \/ x < u)
    BY DEF Covers, ToSet
  <2>2. \A i \in DOMAIN q.keys : q.keys[i] \in ToSet(q.keys)
    BY DEF ToSet
  <2> QED
    BY <1>2, <2>1, <2>2
<1>4. ASSUME l # 0 PROVE q.keys # <<>> /\ q.keys[1] = l
  <2>1. p.keys[1] = l /\ l < key
    BY <1>4 DEF Covers, Gap
  <2>2. 1 \in DOMAIN q.keys /\ q.keys[1] = l
    BY <1>2, <2>1
  <2>3. q.keys # <<>>
    BY <2>2
  <2> QED
    BY <2>2, <2>3
<1> QED
  BY <1>2, <1>3, <1>4 DEF Covers

(* q is p with one more key. *)
Added(p, q, key) ==
  /\ q.leaf = p.leaf /\ q.rrn = p.rrn /\ q.next_leaf = p.next_leaf
  /\ Len(p.keys) \in Nat /\ Len(q.keys) = Len(p.keys) + 1
  /\ ToSet(q.keys) = ToSet(p.keys) \cup {key}

LEMMA KeyAdded ==
  ASSUME NEW K, NEW C, NEW p \in NodeOf(K, C), NEW key \in K, NEW r, NEW pos \in 0 .. Len(p.keys)
  PROVE  Added(p, InsertInNode(p, key, r, pos), key)
<1>1. PICK q : q = InsertInNode(p, key, r, pos)
  OBVIOUS
<1>2. /\ q.leaf = p.leaf /\ q.rrn = p.rrn /\ q.next_leaf = p.next_leaf
      /\ Len(p.keys) \in Nat /\ Len(q.keys) = Len(p.keys) + 1
      /\ ToSet(q.keys) = ToSet(p.keys) \cup {key}
  BY <1>1, KeyTaken
<1> QED
  BY <1>1, <1>2 DEF Added

=============================================================================
