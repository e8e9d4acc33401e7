-------------------------- MODULE HashTableProofs ---------------------------
(***************************************************************************)
(* Proofs about HashTable, for any tables, keys, hash and pool: who owns   *)
(* which page, what the counters say, and that HashTable implements        *)
(* HashMap.                                                                *)
(***************************************************************************)
EXTENDS HashTable, SequenceTheorems, FiniteSetTheorems, WellFoundedInduction, TLAPS

-----------------------------------------------------------------------------
(* The pages that the allocations of a call get are free and distinct.     *)
LEMMA NthFree ==
  ASSUME NEW n, HasRoom(n), NEW k \in 1 .. n
  PROVE  Nth(k) \in free /\ IsNth(Nth(k), k)
  BY DEF HasRoom, Nth

LEMMA NthDistinct ==
  ASSUME NEW n, HasRoom(n), NEW j \in 1 .. n, NEW k \in 1 .. n, j # k
  PROVE  Nth(j) # Nth(k)
<1>1. IsNth(Nth(j), j) /\ IsNth(Nth(k), k)
  BY NthFree
<1> QED
  BY <1>1 DEF IsNth

-----------------------------------------------------------------------------
(* A table exists with all its blocks or not at all, or is half made; the  *)
(* one that is cleared has been emptied up to where clear_ht is.           *)
Shaped(t) ==
  /\ table[t].ht = Null => table[t] = Absent
  /\ table[t].array = Null => table[t].data = Null /\ table[t].buckets = NoEntries
  /\ table[t].array # Null => table[t].ht # Null /\ table[t].data # Null

Emptying ==
  clearing # NoTable =>
    IsUsable(clearing) /\ \A b \in Buckets : b < at => table[clearing].buckets[b] = <<>>

Shapes == Emptying /\ \A t \in Tables : Shaped(t)

Typed == TypeOK /\ Shapes

LEMMA AbsentTyped == Absent \in TableRecords /\ NoEntries \in [Buckets -> Seq(Entries)]
<1>1. NoEntries \in [Buckets -> Seq(Entries)]
  BY DEF NoEntries
<1> QED
  BY <1>1 DEF Absent, TableRecords, MaybePage

LEMMA InitTyped ==
  ASSUME Init
  PROVE  Typed
<1>1. table \in [Tables -> TableRecords]
  BY AbsentTyped DEF Init
<1>2. 1 \in 1 .. NumBuckets + 1 /\ NumPages \in Int
  BY SizesAssumption
<1>3. TypeOK
  BY <1>1, <1>2 DEF Init, TypeOK
<1>4. Shapes
  BY DEF Init, Shapes, Emptying, Shaped, Absent
<1> QED
  BY <1>3, <1>4 DEF Typed

(* Where a bucket is written: its page numbers and texts are typed. *)
LEMMA PutTyped ==
  ASSUME Typed, NEW t \in Tables, NEW k \in Keys, NEW v \in Values, Put(t, k, v)
  PROVE  /\ table' \in [Tables -> TableRecords]
         /\ \A u \in Tables : /\ table'[u].ht = table[u].ht
                              /\ table'[u].array = table[u].array
                              /\ table'[u].data = table[u].data
                              /\ u # t => table'[u] = table[u]
         /\ table'[t].buckets =
              [table[t].buckets EXCEPT ![Index(k)] =
                 <<[key |-> StoredKey(k), value |-> v, data |-> Nth(2), name |-> Nth(3),
                    cell |-> Nth(4), block |-> Nth(5)]>> \o @]
         /\ Index(k) \in Buckets
<1> DEFINE entry == [key |-> StoredKey(k), value |-> v, data |-> Nth(2), name |-> Nth(3),
                     cell |-> Nth(4), block |-> Nth(5)]
           old == table[t].buckets
           new == [old EXCEPT ![Index(k)] = <<entry>> \o @]
<1>1. Index(k) \in Buckets
  BY CutAssumption, BucketAssumption DEF Index
<1>2. entry \in Entries
  <2>1. HasRoom(5) /\ free \subseteq Pages
    BY DEF Put, PutPages, Typed, TypeOK
  <2>2. Nth(2) \in Pages /\ Nth(3) \in Pages /\ Nth(4) \in Pages /\ Nth(5) \in Pages
    BY <2>1, NthFree
  <2>3. StoredKey(k) \in Kept
    BY DEF StoredKey, Kept
  <2> QED
    BY <2>2, <2>3 DEF Entries
<1>3. old \in [Buckets -> Seq(Entries)] /\ table[t] \in TableRecords
  BY DEF Typed, TypeOK, TableRecords
<1>4. new \in [Buckets -> Seq(Entries)]
  <2>1. <<entry>> \o old[Index(k)] \in Seq(Entries)
    <3> HIDE DEF entry
    <3> QED
      BY <1>1, <1>2, <1>3
  <2> QED
    BY <1>1, <1>3, <2>1
<1>5. table' = [table EXCEPT ![t] = [@ EXCEPT !.buckets = new]]
  BY DEF Put
<1> HIDE DEF new, old, entry
<1>6. [table[t] EXCEPT !.buckets = new] \in TableRecords
  BY <1>3, <1>4 DEF TableRecords
<1>7. table \in [Tables -> TableRecords]
  BY DEF Typed, TypeOK
<1>8. \A u \in Tables : table'[u] = IF u = t THEN [table[t] EXCEPT !.buckets = new] ELSE table[u]
  BY <1>5, <1>7
<1> QED
  BY <1>1, <1>3, <1>5, <1>6, <1>7, <1>8 DEF new, old, entry, TableRecords

(* Taking pages leaves the pool typed. *)
LEMMA TakeTyped ==
  ASSUME TypeOK, NEW n \in Int, NEW gone \in SUBSET Pages, Take(n, gone)
  PROVE  free' \subseteq Pages /\ lost' \subseteq Pages /\ free_page_num' \in Int
  BY DEF TypeOK, Take

LEMMA NthTyped ==
  ASSUME TypeOK, NEW n, HasRoom(n)
  PROVE  \A k \in 1 .. n : Nth(k) \in Pages /\ Nth(k) # Null
<1>1. \A k \in 1 .. n : Nth(k) \in Pages
  BY NthFree DEF TypeOK
<1>2. Null \notin Pages
  BY DEF Null, Pages
<1> QED
  BY <1>1, <1>2

LEMMA PagesCounted == CreatePages \in Nat /\ PutPages \in Nat /\ KeysPages \in Nat
                      /\ CreatePages >= 3 /\ PutPages = 5
  BY SizesAssumption DEF CreatePages, PutPages, KeysPages

(* Where no block, bucket or clear is touched. *)
LEMMA ShapesKept ==
  ASSUME Typed, UNCHANGED <<table, clearing, at>>
  PROVE  Shapes'
  BY DEF Typed, Shapes, Emptying, Shaped, IsUsable

(* init_ht, complete or not: one table gets its blocks. *)
LEMMA NewTableTyped ==
  ASSUME Typed, clearing = NoTable, NEW t \in Tables, NEW new \in TableRecords,
         new.buckets = NoEntries, new.ht # Null,
         new.array = Null <=> new.data = Null,
         table' = [table EXCEPT ![t] = new], UNCHANGED clearing
  PROVE  table' \in [Tables -> TableRecords] /\ Shapes'
<1>1. table \in [Tables -> TableRecords]
  BY DEF Typed, TypeOK
<1>2. \A u \in Tables : table'[u] = IF u = t THEN new ELSE table[u]
  BY <1>1
<1>3. ASSUME NEW u \in Tables PROVE Shaped(u)'
  BY <1>2 DEF Typed, Shapes, Shaped
<1>4. Emptying'
  BY DEF Emptying
<1> QED
  BY <1>1, <1>3, <1>4 DEF Shapes

LEMMA CreateTyped ==
  ASSUME Typed, NEW t \in Tables, Create(t)
  PROVE  Typed'
<1>1. \A k \in 1 .. CreatePages : Nth(k) \in Pages /\ Nth(k) # Null
  BY NthTyped DEF Create, Typed
<1>2. Nth(1) \in Pages /\ Nth(2) \in Pages /\ Nth(3) \in Pages
      /\ Nth(1) # Null /\ Nth(2) # Null /\ Nth(3) # Null
  BY <1>1, PagesCounted
<1>3. free' \subseteq Pages /\ lost' \subseteq Pages /\ free_page_num' \in Int
  <2>1. {Nth(k) : k \in 4 .. CreatePages} \subseteq Pages
    BY <1>1, PagesCounted
  <2> QED
    BY <2>1, TakeTyped, PagesCounted DEF Create, Typed
<1> DEFINE new == [ht |-> Nth(1), array |-> Nth(2), data |-> Nth(3), buckets |-> NoEntries]
<1>4. new \in TableRecords
  BY <1>2, AbsentTyped DEF TableRecords, MaybePage
<1>5. table' \in [Tables -> TableRecords] /\ Shapes'
  BY <1>2, <1>4, NewTableTyped DEF Create, Ready
<1> QED
  BY <1>3, <1>5 DEF Create, Typed, TypeOK

LEMMA CreateHalfTyped ==
  ASSUME Typed, NEW t \in Tables, CreateHalf(t)
  PROVE  Typed'
<1>1. Nth(1) \in Pages /\ Nth(1) # Null
  BY NthTyped DEF CreateHalf, Typed
<1>2. free' \subseteq Pages /\ lost' \subseteq Pages /\ free_page_num' \in Int
  BY TakeTyped DEF CreateHalf, Typed
<1> DEFINE new == [Absent EXCEPT !.ht = Nth(1)]
<1>3. new \in TableRecords /\ new.buckets = NoEntries /\ new.ht = Nth(1)
      /\ new.array = Null /\ new.data = Null
  BY <1>1, AbsentTyped DEF Absent, TableRecords, MaybePage
<1>4. table' = [table EXCEPT ![t] = new] /\ UNCHANGED clearing /\ clearing = NoTable
  BY DEF CreateHalf, Ready
<1> HIDE DEF new
<1>5. table' \in [Tables -> TableRecords] /\ Shapes'
  BY <1>1, <1>3, <1>4, NewTableTyped
<1> QED
  BY <1>2, <1>5 DEF CreateHalf, Typed, TypeOK

LEMMA PutKeepsTyped ==
  ASSUME Typed, NEW t \in Tables, NEW k \in Keys, NEW v \in Values, Put(t, k, v)
  PROVE  Typed'
<1>1. free' \subseteq Pages /\ lost' \subseteq Pages /\ free_page_num' \in Int
  <2>1. {Nth(1)} \in SUBSET Pages
    BY NthTyped, PagesCounted DEF Put, Typed
  <2>2. Take(PutPages, {Nth(1)}) /\ PutPages \in Int
    BY PagesCounted DEF Put
  <2> QED
    BY <2>1, <2>2, TakeTyped DEF Typed
<1>2. table' \in [Tables -> TableRecords]
  BY PutTyped
<1>3. Shapes'
  <2>1. /\ \A u \in Tables : /\ table'[u].ht = table[u].ht
                             /\ table'[u].array = table[u].array
                             /\ table'[u].data = table[u].data
                             /\ u # t => table'[u] = table[u]
    BY PutTyped
  <2>2. table[t].array # Null /\ clearing = NoTable /\ clearing' = NoTable
    BY DEF Put, IsUsable, Ready
  <2>3. ASSUME NEW u \in Tables PROVE Shaped(u)'
    BY <2>1, <2>2 DEF Typed, Shapes, Shaped
  <2> QED
    BY <2>2, <2>3 DEF Shapes, Emptying
<1> QED
  BY <1>1, <1>2, <1>3 DEF Put, Typed, TypeOK

LEMMA ListKeysTyped ==
  ASSUME Typed, NEW t \in Tables, ListKeys(t)
  PROVE  Typed'
<1>1. {Nth(k) : k \in 1 .. KeysPages} \subseteq Pages
  BY NthTyped DEF ListKeys, Typed
<1>2. free' \subseteq Pages /\ lost' \subseteq Pages /\ free_page_num' \in Int
  BY <1>1, TakeTyped, PagesCounted DEF ListKeys, Typed
<1>3. Shapes'
  BY ShapesKept DEF ListKeys
<1> QED
  BY <1>2, <1>3 DEF ListKeys, Typed, TypeOK

LEMMA ClearCallTyped ==
  ASSUME Typed, NEW t \in Tables, ClearCall(t)
  PROVE  Typed'
<1>1. at' = 1 /\ clearing' = t /\ UNCHANGED table /\ IsUsable(t)
  BY DEF ClearCall
<1>2. Emptying'
  BY <1>1 DEF Emptying, IsUsable, Buckets
<1>3. \A u \in Tables : Shaped(u)'
  BY <1>1 DEF Typed, Shapes, Shaped
<1>4. at' \in 1 .. NumBuckets + 1
  BY <1>1, SizesAssumption
<1> QED
  BY <1>1, <1>2, <1>3, <1>4 DEF ClearCall, pool, Typed, TypeOK, Shapes

(* The bucket that is cleared is empty, and all else of the tables is as   *)
(* before.                                                                 *)
LEMMA ClearBucketTables ==
  ASSUME Typed, ClearBucket
  PROVE  /\ clearing \in Tables /\ at \in Buckets
         /\ table' \in [Tables -> TableRecords]
         /\ \A u \in Tables : /\ table'[u].ht = table[u].ht
                              /\ table'[u].array = table[u].array
                              /\ table'[u].data = table[u].data
                              /\ u # clearing => table'[u] = table[u]
         /\ \A b \in Buckets : table'[clearing].buckets[b] =
                                 IF b = at THEN <<>> ELSE table[clearing].buckets[b]
<1> DEFINE old == table[clearing].buckets
           new == Emptied(old)
<1>1. clearing \in Tables /\ at \in Buckets
  BY DEF ClearBucket, Typed, TypeOK
<1>2. old \in [Buckets -> Seq(Entries)] /\ table[clearing] \in TableRecords
  BY <1>1 DEF Typed, TypeOK, TableRecords
<1>3. new \in [Buckets -> Seq(Entries)]
      /\ \A b \in Buckets : new[b] = IF b = at THEN <<>> ELSE old[b]
  BY <1>1, <1>2 DEF Emptied
<1>4. table' = [table EXCEPT ![clearing] = [@ EXCEPT !.buckets = new]]
  BY DEF ClearBucket
<1> HIDE DEF new
<1>5. [table[clearing] EXCEPT !.buckets = new] \in TableRecords
  BY <1>2, <1>3 DEF TableRecords
<1>6. table \in [Tables -> TableRecords]
  BY DEF Typed, TypeOK
<1>7. \A u \in Tables :
        table'[u] = IF u = clearing THEN [table[clearing] EXCEPT !.buckets = new] ELSE table[u]
  BY <1>1, <1>4, <1>6
<1>8. table'[clearing].buckets = new
  BY <1>1, <1>2, <1>7 DEF TableRecords
<1>9. table' \in [Tables -> TableRecords]
  BY <1>4, <1>5, <1>6
<1>10. \A u \in Tables : /\ table'[u].ht = table[u].ht
                         /\ table'[u].array = table[u].array
                         /\ table'[u].data = table[u].data
                         /\ u # clearing => table'[u] = table[u]
  BY <1>2, <1>7 DEF TableRecords
<1> QED
  BY <1>1, <1>3, <1>8, <1>9, <1>10

LEMMA ClearBucketTyped ==
  ASSUME Typed, ClearBucket
  PROVE  Typed' /\ status' = "running"
<1> DEFINE t == table[clearing]
<1>1. clearing \in Tables /\ at \in Buckets /\ at' = at + 1 /\ UNCHANGED clearing
  BY ClearBucketTables DEF ClearBucket
<1>2. t \in TableRecords /\ t.buckets[at] \in Seq(Entries) /\ t.data \in Pages
      /\ t.array # Null
  <2>1. t \in TableRecords /\ t.data # Null /\ t.array # Null
    BY <1>1 DEF Typed, TypeOK, Shapes, Emptying, Shaped, IsUsable, ClearBucket
  <2> QED
    BY <1>1, <2>1 DEF TableRecords, MaybePage
<1>3. CellPages(t.buckets[at]) \subseteq Pages /\ TextPages(t.buckets[at]) \subseteq Pages
  <2>1. \A e \in EntriesOf(t.buckets[at]) : e \in Entries
    BY <1>2, ElementOfSeq DEF EntriesOf
  <2> QED
    BY <2>1 DEF CellPages, TextPages, Entries
<1>4. free' \subseteq Pages /\ lost' \subseteq Pages
  BY <1>2, <1>3 DEF ClearBucket, Typed, TypeOK
<1>5. free_page_num' \in Int
  <2>1. Len(t.buckets[at]) \in Nat /\ free_page_num \in Int
    BY <1>2 DEF Typed, TypeOK
  <2>2. free_page_num' = free_page_num + 2 * Len(t.buckets[at]) + (IF at = 1 THEN 2 ELSE 0)
    BY DEF ClearBucket
  <2> HIDE DEF t
  <2> QED
    BY <2>1, <2>2
<1>6. at' \in 1 .. NumBuckets + 1
  BY <1>1, SizesAssumption DEF Buckets
<1>7. Emptying'
  <2>1. table'[clearing].array # Null
    BY <1>1, <1>2, ClearBucketTables
  <2>2. ASSUME NEW b \in Buckets, b < at' PROVE table'[clearing].buckets[b] = <<>>
    <3>1. b = at \/ b < at
      BY <1>1, <2>2 DEF Buckets
    <3> QED
      BY <3>1, ClearBucketTables DEF Typed, Shapes, Emptying, ClearBucket
  <2> QED
    BY <1>1, <2>1, <2>2 DEF Emptying, IsUsable
<1>8. ASSUME NEW u \in Tables PROVE Shaped(u)'
  <2>1. CASE u = clearing
    BY <1>1, <1>2, <2>1, ClearBucketTables DEF Typed, Shapes, Shaped
  <2>2. CASE u # clearing
    BY <1>1, <2>2, ClearBucketTables DEF Typed, Shapes, Shaped
  <2> QED
    BY <2>1, <2>2
<1>9. status' = "running"
  <2>1. at > 1 => at - 1 \in Buckets /\ at - 1 < at
    BY <1>1, SizesAssumption DEF Buckets
  <2>2. at > 1 => t.buckets[at - 1] = <<>>
    BY <2>1 DEF Typed, Shapes, Emptying, ClearBucket
  <2> QED
    BY <2>2 DEF ClearBucket
<1> QED
  BY <1>1, <1>4, <1>5, <1>6, <1>7, <1>8, <1>9, ClearBucketTables
     DEF ClearBucket, Typed, TypeOK, Shapes

LEMMA ClearEndTyped ==
  ASSUME Typed, ClearEnd
  PROVE  Typed'
<1> DEFINE t == table[clearing]
<1>1. clearing \in Tables /\ clearing' = NoTable /\ table' = [table EXCEPT ![clearing] = Absent]
  BY DEF ClearEnd, Typed, TypeOK
<1>2. t.ht \in Pages /\ t.array \in Pages /\ t.data \in Pages
  <2>1. t \in TableRecords /\ t.data # Null /\ t.array # Null /\ t.ht # Null
    BY <1>1 DEF Typed, TypeOK, Shapes, Emptying, Shaped, IsUsable, ClearEnd
  <2> QED
    BY <2>1 DEF TableRecords, MaybePage
<1>3. free' \subseteq Pages /\ free_page_num' \in Int /\ clears' \in Nat
  BY <1>2 DEF ClearEnd, Typed, TypeOK
<1>4. table \in [Tables -> TableRecords]
  BY DEF Typed, TypeOK
<1>5. \A u \in Tables : table'[u] = IF u = clearing THEN Absent ELSE table[u]
  BY <1>1, <1>4
<1>6. table' \in [Tables -> TableRecords]
  BY <1>1, <1>4, AbsentTyped
<1>7. ASSUME NEW u \in Tables PROVE Shaped(u)'
  BY <1>5 DEF Typed, Shapes, Shaped, Absent
<1> QED
  BY <1>1, <1>3, <1>6, <1>7 DEF ClearEnd, Typed, TypeOK, Shapes, Emptying

(* Steps that change neither pages nor tables: answers and ends. *)
Stays == UNCHANGED <<free, lost, free_page_num, table, clearing, at, clears>>

LEMMA StaysTyped ==
  ASSUME Typed, Stays,
         status' \in {"running", "crashed", "exited", "replaced", "corrupt"}
  PROVE  Typed'
<1>1. Shapes'
  BY ShapesKept DEF Stays
<1> QED
  BY <1>1 DEF Stays, Typed, TypeOK

(* The steps of one table that change nothing but what is told. *)
Quiet(t) ==
  \/ CreateNone(t) \/ CreateShort(t) \/ PutShort(t)
  \/ ListKeysNull(t) \/ ListKeysCrashes(t) \/ ListKeysShort(t)
  \/ AssertionFails(t) \/ ClearNull(t)
  \/ \E k \in Keys : Lookup(t, k) \/ PutLiteral(t, k)
  \/ \E k \in Keys \cup {NoValue}, v \in Values \cup {NoValue} : PutRefused(t, k, v)

LEMMA QuietStays ==
  ASSUME Typed, NEW t \in Tables, Quiet(t)
  PROVE  /\ Stays /\ clearing = NoTable /\ status = "running"
         /\ status' \in {"running", "crashed", "exited", "replaced"}
<1>1. CASE CreateNone(t)
  BY <1>1 DEF CreateNone, Ready, Stays, pool
<1>2. CASE CreateShort(t) \/ PutShort(t) \/ ListKeysShort(t)
  BY <1>2 DEF CreateShort, PutShort, ListKeysShort, Shortage, Ready, Stays, pool
<1>3. CASE ListKeysNull(t) \/ ListKeysCrashes(t)
  BY <1>3 DEF ListKeysNull, ListKeysCrashes, Ready, Stays, pool
<1>4. CASE AssertionFails(t) \/ ClearNull(t)
  BY <1>4 DEF AssertionFails, ClearNull, Ready, Stays, pool
<1>5. ASSUME NEW k, Lookup(t, k) \/ PutLiteral(t, k) \/ \E v : PutRefused(t, k, v)
      PROVE  /\ Stays /\ clearing = NoTable /\ status = "running"
             /\ status' \in {"running", "crashed"}
  BY <1>5 DEF Lookup, PutLiteral, PutRefused, Ready, Stays, pool
<1> QED
  BY <1>1, <1>2, <1>3, <1>4, <1>5 DEF Quiet

(* Every step is quiet, takes pages, or is a clear's.                      *)
LEMMA NextCases ==
  ASSUME Next
  PROVE  \/ \E t \in Tables : \/ Quiet(t) \/ Create(t) \/ CreateHalf(t)
                              \/ ListKeys(t) \/ ClearCall(t)
                              \/ \E k \in Keys, v \in Values : Put(t, k, v)
         \/ ClearBucket \/ ClearEnd
<1>1. CASE \E t \in Tables :
             \/ Create(t) \/ CreateNone(t) \/ CreateHalf(t) \/ CreateShort(t)
             \/ PutShort(t) \/ ListKeys(t) \/ ListKeysNull(t) \/ ListKeysCrashes(t)
             \/ ListKeysShort(t) \/ AssertionFails(t) \/ ClearNull(t) \/ ClearCall(t)
  BY <1>1 DEF Quiet
<1>2. CASE \E t \in Tables, k \in Keys :
             Lookup(t, k) \/ PutLiteral(t, k) \/ \E v \in Values : Put(t, k, v)
  BY <1>2 DEF Quiet
<1>3. CASE \E t \in Tables, k \in Keys \cup {NoValue}, v \in Values \cup {NoValue} :
             PutRefused(t, k, v)
  BY <1>3 DEF Quiet
<1> QED
  BY <1>1, <1>2, <1>3 DEF Next

(* Nothing but clear_ht could corrupt anything, and it does not. *)
Safe == Typed /\ InteriorFreesHarmless

LEMMA StepSafe ==
  ASSUME Safe, [Next]_vars
  PROVE  Safe'
<1> USE DEF Safe, InteriorFreesHarmless
<1>1. ASSUME NEW t \in Tables, Quiet(t) PROVE Safe'
  BY <1>1, QuietStays, StaysTyped
<1>2. ASSUME NEW t \in Tables, Create(t) PROVE Safe'
  BY <1>2, CreateTyped DEF Create
<1>3. ASSUME NEW t \in Tables, CreateHalf(t) PROVE Safe'
  BY <1>3, CreateHalfTyped DEF CreateHalf
<1>4. ASSUME NEW t \in Tables, ListKeys(t) PROVE Safe'
  BY <1>4, ListKeysTyped DEF ListKeys
<1>5. ASSUME NEW t \in Tables, ClearCall(t) PROVE Safe'
  BY <1>5, ClearCallTyped DEF ClearCall
<1>6. ASSUME NEW t \in Tables, NEW k \in Keys, NEW v \in Values, Put(t, k, v) PROVE Safe'
  BY <1>6, PutKeepsTyped DEF Put
<1>7. CASE ClearBucket
  BY <1>7, ClearBucketTyped
<1>8. CASE ClearEnd
  BY <1>8, ClearEndTyped DEF ClearEnd
<1>9. CASE UNCHANGED vars
  BY <1>9, StaysTyped DEF vars, pool, Stays, Typed, TypeOK
<1> QED
  BY <1>1, <1>2, <1>3, <1>4, <1>5, <1>6, <1>7, <1>8, <1>9, NextCases

(* Pages are pages, buckets are sequences of entries with cut keys, and    *)
(* clear_ht stays within the array of buckets.                             *)
THEOREM TypeCorrect == Spec => []TypeOK
<1>1. Init => Safe
  BY InitTyped DEF Init, Safe, InteriorFreesHarmless
<1>2. Safe /\ [Next]_vars => Safe'
  BY StepSafe
<1>3. Safe => TypeOK
  BY DEF Safe, Typed
<1> QED
  BY <1>1, <1>2, <1>3, PTL DEF Spec

(* When clear_ht gives back a sentinel that is an element of the array,    *)
(* what stands for its header says "no pages": the bucket before is empty. *)
THEOREM FreesAreHarmless == Spec => []InteriorFreesHarmless
<1>1. Init => Safe
  BY InitTyped DEF Init, Safe, InteriorFreesHarmless
<1>2. Safe /\ [Next]_vars => Safe'
  BY StepSafe
<1>3. Safe => InteriorFreesHarmless
  BY DEF Safe
<1> QED
  BY <1>1, <1>2, <1>3, PTL DEF Spec

-----------------------------------------------------------------------------
(* Which page is whose. *)
Cells(t, b)   == CellPages(table[t].buckets[b])
Texts(t, b)   == TextPages(table[t].buckets[b])
PagesOf(t, b) == Cells(t, b) \cup Texts(t, b)
Held(t)       == OwnPages(t) \cup EntryPages(t)

(* The array's buffer is free once the first bucket is cleared. *)
Returned(t) == IF t = clearing /\ at > 1 THEN {table[t].data} ELSE {}

Apart ==
  /\ \A p \in Pages : p \in free \cup lost \/ \E t \in Tables : p \in Held(t)
  /\ free \cap lost = {}
  /\ \A t \in Tables : Held(t) \cap lost = {} /\ Held(t) \cap free \subseteq Returned(t)
  /\ \A t, u \in Tables : t # u => Held(t) \cap Held(u) = {}
  /\ \A t \in Tables, b \in Buckets :
       OwnPages(t) \cap PagesOf(t, b) = {} /\ Cells(t, b) \cap Texts(t, b) = {}
  /\ \A t \in Tables, b, c \in Buckets : b # c => PagesOf(t, b) \cap PagesOf(t, c) = {}

LEMMA HeldIs ==
  ASSUME NEW t, NEW p
  PROVE  p \in Held(t) <=> p \in OwnPages(t) \/ \E b \in Buckets : p \in PagesOf(t, b)
  BY DEF Held, EntryPages, PagesOf, Cells, Texts

(* The pages of the entries of a bucket. *)
LEMMA NoEntryPages == CellPages(<<>>) = {} /\ TextPages(<<>>) = {}
  BY DEF CellPages, TextPages, EntriesOf

LEMMA OneMoreEntry ==
  ASSUME NEW s \in Seq(Entries), NEW e \in Entries
  PROVE  /\ CellPages(<<e>> \o s) = {e.cell, e.block} \cup CellPages(s)
         /\ TextPages(<<e>> \o s) = {e.data, e.name} \cup TextPages(s)
<1>1. EntriesOf(<<e>> \o s) = {e} \cup EntriesOf(s)
  <2> DEFINE both == <<e>> \o s
  <2>1. Len(both) = Len(s) + 1 /\ both \in Seq(Entries) /\ Len(s) \in Nat
    OBVIOUS
  <2>2. both[1] = e /\ \A i \in 1 .. Len(s) : both[i + 1] = s[i]
    OBVIOUS
  <2>3. DOMAIN both = 1 .. Len(s) + 1 /\ DOMAIN s = 1 .. Len(s)
    BY <2>1
  <2> HIDE DEF both
  <2>4. ASSUME NEW x \in EntriesOf(both) PROVE x \in {e} \cup EntriesOf(s)
    <3>1. PICK i \in 1 .. Len(s) + 1 : x = both[i]
      BY <2>3, <2>4 DEF EntriesOf
    <3>2. CASE i = 1
      BY <2>2, <3>1, <3>2
    <3>3. CASE i # 1
      <4>1. i - 1 \in 1 .. Len(s) /\ i = (i - 1) + 1
        BY <2>1, <3>3
      <4>2. x = s[i - 1]
        BY <2>2, <3>1, <4>1
      <4> QED
        BY <2>3, <4>1, <4>2 DEF EntriesOf
    <3> QED
      BY <3>2, <3>3
  <2>5. ASSUME NEW x \in {e} \cup EntriesOf(s) PROVE x \in EntriesOf(both)
    <3>1. CASE x = e
      BY <2>1, <2>2, <2>3, <3>1 DEF EntriesOf
    <3>2. CASE x \in EntriesOf(s)
      <4>1. PICK i \in 1 .. Len(s) : x = s[i]
        BY <2>3, <3>2 DEF EntriesOf
      <4>2. i + 1 \in 1 .. Len(s) + 1 /\ x = both[i + 1]
        BY <2>1, <2>2, <4>1
      <4> QED
        BY <2>3, <4>2 DEF EntriesOf
    <3> QED
      BY <2>5, <3>1, <3>2
  <2> QED
    BY <2>4, <2>5 DEF both
<1> QED
  BY <1>1 DEF CellPages, TextPages

LEMMA InitApart ==
  ASSUME Init
  PROVE  Apart
<1>1. free = Pages /\ lost = {} /\ clearing = NoTable
  BY DEF Init
<1>2. ASSUME NEW t \in Tables
      PROVE  OwnPages(t) = {} /\ \A b \in Buckets : PagesOf(t, b) = {} /\ Cells(t, b) = {}
  <2>1. table[t] = Absent
    BY DEF Init
  <2> QED
    BY <2>1, NoEntryPages DEF Absent, NoEntries, OwnPages, PagesOf, Cells, Texts
<1>3. \A t \in Tables : Held(t) = {}
  BY <1>2, HeldIs
<1> QED
  BY <1>1, <1>2, <1>3 DEF Apart

(* Free pages are given to one table, in part to one of its buckets, or    *)
(* lost: they are nobody's yet.                                            *)
Given(t, i, gone, own, cells, texts) ==
  /\ clearing = NoTable /\ clearing' = NoTable
  /\ gone \cup own \cup cells \cup texts \subseteq free
  /\ own \cap (cells \cup texts) = {} /\ cells \cap texts = {}
  /\ gone \cap (own \cup cells \cup texts) = {}
  /\ free' = free \ (gone \cup own \cup cells \cup texts)
  /\ lost' = lost \cup gone
  /\ \A u \in Tables : OwnPages(u)' = OwnPages(u) \cup (IF u = t THEN own ELSE {})
  /\ \A u \in Tables, b \in Buckets :
       /\ Cells(u, b)' = Cells(u, b) \cup (IF u = t /\ b = i THEN cells ELSE {})
       /\ Texts(u, b)' = Texts(u, b) \cup (IF u = t /\ b = i THEN texts ELSE {})

LEMMA GivenKeepsApart ==
  ASSUME Apart, NEW t \in Tables, NEW i \in Buckets,
         NEW gone, NEW own, NEW cells, NEW texts,
         Given(t, i, gone, own, cells, texts)
  PROVE  Apart'
<1> USE DEF Given
<1> DEFINE new == own \cup cells \cup texts
<1>1. \A u \in Tables : Returned(u) = {} /\ Returned(u)' = {}
  BY NamesAssumption DEF Returned
<1>2. ASSUME NEW u \in Tables
      PROVE  Held(u)' = Held(u) \cup (IF u = t THEN new ELSE {})
  <2>1. ASSUME NEW p
        PROVE  p \in Held(u)' <=> p \in Held(u) \/ (u = t /\ p \in new)
    <3>1. p \in Held(u)' <=> p \in OwnPages(u)' \/ \E b \in Buckets : p \in PagesOf(u, b)'
      BY DEF Held, EntryPages, PagesOf, Cells, Texts
    <3>2. ASSUME NEW b \in Buckets
          PROVE  p \in PagesOf(u, b)' <=>
                   p \in PagesOf(u, b) \/ (u = t /\ b = i /\ p \in cells \cup texts)
      BY DEF PagesOf
    <3>3. p \in Held(u) <=> p \in OwnPages(u) \/ \E b \in Buckets : p \in PagesOf(u, b)
      BY HeldIs
    <3> QED
      BY <3>1, <3>2, <3>3
  <2> QED
    BY <2>1
<1>3. new \subseteq free /\ gone \subseteq free
  OBVIOUS
<1>4. ASSUME NEW u \in Tables PROVE Held(u) \cap free = {} /\ Held(u) \cap lost = {}
  BY <1>1 DEF Apart
<1>5. ASSUME NEW p \in Pages PROVE (p \in free \cup lost \/ \E u \in Tables : p \in Held(u))'
  BY <1>2 DEF Apart
<1>6. (free \cap lost = {})'
  BY DEF Apart
<1>7. ASSUME NEW u \in Tables
      PROVE  (Held(u) \cap lost = {} /\ Held(u) \cap free \subseteq Returned(u))'
  BY <1>1, <1>2, <1>3, <1>4, <1>7 DEF Apart
<1>8. ASSUME NEW u \in Tables, NEW w \in Tables, u # w
      PROVE  (Held(u) \cap Held(w) = {})'
  BY <1>2, <1>3, <1>4, <1>8 DEF Apart
<1>9. ASSUME NEW u \in Tables, NEW b \in Buckets
      PROVE  /\ OwnPages(u) \cap free = {} /\ PagesOf(u, b) \cap free = {}
             /\ Cells(u, b) \subseteq PagesOf(u, b) /\ Texts(u, b) \subseteq PagesOf(u, b)
             /\ PagesOf(u, b)' = PagesOf(u, b) \cup
                                   (IF u = t /\ b = i THEN cells \cup texts ELSE {})
  BY <1>4, HeldIs DEF PagesOf
<1>10. ASSUME NEW u \in Tables, NEW b \in Buckets
       PROVE  (OwnPages(u) \cap PagesOf(u, b) = {} /\ Cells(u, b) \cap Texts(u, b) = {})'
  BY <1>3, <1>9, <1>10 DEF Apart
<1>11. ASSUME NEW u \in Tables, NEW b \in Buckets, NEW c \in Buckets, b # c
       PROVE  (PagesOf(u, b) \cap PagesOf(u, c) = {})'
  BY <1>3, <1>9, <1>11 DEF Apart
<1> QED
  BY <1>5, <1>6, <1>7, <1>8, <1>10, <1>11 DEF Apart

(* A table that is new has its own blocks and no entries. *)
LEMMA NewTableApart ==
  ASSUME Typed, Apart, clearing = NoTable, clearing' = NoTable,
         NEW t \in Tables, table[t].ht = Null,
         NEW new, table' = [table EXCEPT ![t] = new], new.buckets = NoEntries,
         NEW gone, NEW own, gone \cup own \subseteq free, gone \cap own = {},
         {new.ht, new.array, new.data} \ {Null} = own,
         free' = free \ (gone \cup own), lost' = lost \cup gone
  PROVE  Apart'
<1>1. table[t] = Absent /\ table \in [Tables -> TableRecords]
  BY DEF Typed, TypeOK, Shapes, Shaped
<1>2. \A u \in Tables : table'[u] = IF u = t THEN new ELSE table[u]
  BY <1>1
<1>3. ASSUME NEW u \in Tables
      PROVE  OwnPages(u)' = OwnPages(u) \cup (IF u = t THEN own ELSE {})
  <2>1. OwnPages(t) = {}
    BY <1>1 DEF OwnPages, Absent
  <2> QED
    BY <1>2, <2>1 DEF OwnPages
<1>4. ASSUME NEW u \in Tables, NEW b \in Buckets
      PROVE  Cells(u, b)' = Cells(u, b) /\ Texts(u, b)' = Texts(u, b)
  BY <1>1, <1>2 DEF Cells, Texts, Absent
<1>5. 1 \in Buckets
  BY SizesAssumption DEF Buckets
<1> DEFINE none == {}
<1>6. \A u \in Tables, b \in Buckets :
        /\ Cells(u, b)' = Cells(u, b) \cup (IF u = t /\ b = 1 THEN none ELSE {})
        /\ Texts(u, b)' = Texts(u, b) \cup (IF u = t /\ b = 1 THEN none ELSE {})
  BY <1>4
<1>7. /\ gone \cup own \cup none \cup none \subseteq free
      /\ own \cap (none \cup none) = {} /\ none \cap none = {}
      /\ gone \cap (own \cup none \cup none) = {}
      /\ free' = free \ (gone \cup own \cup none \cup none)
  OBVIOUS
<1> HIDE DEF none
<1> QED
  <2>1. Given(t, 1, gone, own, none, none)
    BY <1>3, <1>6, <1>7 DEF Given
  <2> QED
    BY <1>5, <2>1, GivenKeepsApart

LEMMA CreateApart ==
  ASSUME Typed, Apart, NEW t \in Tables, Create(t)
  PROVE  Apart'
<1> DEFINE own  == {Nth(1), Nth(2), Nth(3)}
           gone == {Nth(k) : k \in 4 .. CreatePages}
           new  == [ht |-> Nth(1), array |-> Nth(2), data |-> Nth(3), buckets |-> NoEntries]
<1>1. HasRoom(CreatePages) /\ CreatePages \in Nat /\ CreatePages >= 3
  BY PagesCounted DEF Create
<1>2. \A k \in 1 .. CreatePages : Nth(k) \in free /\ Nth(k) # Null
  BY <1>1, NthFree, NthTyped DEF Typed
<1>3. gone \cup own = {Nth(k) : k \in 1 .. CreatePages}
  <2>1. 1 .. CreatePages = {1, 2, 3} \cup 4 .. CreatePages
    BY <1>1
  <2> QED
    BY <2>1
<1>4. gone \cap own = {}
  <2>1. ASSUME NEW j \in 1 .. 3, NEW k \in 4 .. CreatePages PROVE Nth(j) # Nth(k)
    BY <1>1, NthDistinct
  <2> QED
    BY <2>1
<1>5. gone \cup own \subseteq free
  BY <1>2, <1>3
<1>6. {new.ht, new.array, new.data} \ {Null} = own
  <2>1. Nth(1) # Null /\ Nth(2) # Null /\ Nth(3) # Null
    BY <1>1, <1>2
  <2> QED
    BY <2>1
<1>7. /\ clearing = NoTable /\ clearing' = NoTable /\ table[t].ht = Null
      /\ table' = [table EXCEPT ![t] = new] /\ new.buckets = NoEntries
      /\ free' = free \ {Nth(k) : k \in 1 .. CreatePages} /\ lost' = lost \cup gone
  BY DEF Create, Ready, IsNull, Take
<1> HIDE DEF own, gone, new
<1> QED
  BY <1>3, <1>4, <1>5, <1>6, <1>7, NewTableApart

LEMMA CreateHalfApart ==
  ASSUME Typed, Apart, NEW t \in Tables, CreateHalf(t)
  PROVE  Apart'
<1> DEFINE own  == {Nth(1)}
           gone == {}
           new  == [Absent EXCEPT !.ht = Nth(1)]
<1>1. Nth(1) \in free /\ Nth(1) # Null
  BY NthFree, NthTyped DEF CreateHalf, Typed
<1>2. gone \cup own \subseteq free /\ gone \cap own = {}
  BY <1>1
<1>3. {new.ht, new.array, new.data} \ {Null} = own /\ new.buckets = NoEntries
  BY <1>1 DEF Absent
<1>4. /\ clearing = NoTable /\ clearing' = NoTable /\ table[t].ht = Null
      /\ table' = [table EXCEPT ![t] = new]
      /\ free' = free \ {Nth(k) : k \in 1 .. 1} /\ lost' = lost \cup gone
  BY DEF CreateHalf, Ready, IsNull, Take
<1>5. {Nth(k) : k \in 1 .. 1} = gone \cup own
  OBVIOUS
<1> HIDE DEF own, gone, new
<1> QED
  BY <1>2, <1>3, <1>4, <1>5, NewTableApart

LEMMA PutApart ==
  ASSUME Typed, Apart, NEW t \in Tables, NEW k \in Keys, NEW v \in Values, Put(t, k, v)
  PROVE  Apart'
<1> DEFINE entry == [key |-> StoredKey(k), value |-> v, data |-> Nth(2), name |-> Nth(3),
                     cell |-> Nth(4), block |-> Nth(5)]
           i     == Index(k)
           gone  == {Nth(1)}
           cells == {Nth(4), Nth(5)}
           texts == {Nth(2), Nth(3)}
           none  == {}
<1>1. HasRoom(5) /\ clearing = NoTable /\ clearing' = NoTable
  BY DEF Put, PutPages, Ready
<1>2. Nth(1) \in free /\ Nth(2) \in free /\ Nth(3) \in free /\ Nth(4) \in free /\ Nth(5) \in free
  BY <1>1, NthFree
<1>3. \A j, l \in 1 .. 5 : j # l => Nth(j) # Nth(l)
  BY <1>1, NthDistinct
<1>4. /\ gone \cup none \cup cells \cup texts \subseteq free
      /\ none \cap (cells \cup texts) = {} /\ cells \cap texts = {}
      /\ gone \cap (none \cup cells \cup texts) = {}
  <2>1. /\ Nth(1) # Nth(2) /\ Nth(1) # Nth(3) /\ Nth(1) # Nth(4) /\ Nth(1) # Nth(5)
        /\ Nth(2) # Nth(4) /\ Nth(2) # Nth(5) /\ Nth(3) # Nth(4) /\ Nth(3) # Nth(5)
    BY <1>3
  <2> QED
    BY <1>2, <2>1
<1>5. free' = free \ (gone \cup none \cup cells \cup texts) /\ lost' = lost \cup gone
  <2>1. free' = free \ {Nth(j) : j \in 1 .. 5} /\ lost' = lost \cup gone
    BY DEF Put, PutPages, Take
  <2>2. {Nth(j) : j \in 1 .. 5} = gone \cup none \cup cells \cup texts
    <3>1. 1 .. 5 = {1, 2, 3, 4, 5}
      OBVIOUS
    <3> QED
      BY <3>1
  <2> QED
    BY <2>1, <2>2
<1>6. /\ \A u \in Tables : /\ table'[u].ht = table[u].ht
                           /\ table'[u].array = table[u].array
                           /\ table'[u].data = table[u].data
                           /\ u # t => table'[u] = table[u]
      /\ table'[t].buckets = [table[t].buckets EXCEPT ![i] = <<entry>> \o @]
      /\ i \in Buckets /\ table' \in [Tables -> TableRecords]
  BY PutTyped
<1>7. \A u \in Tables : OwnPages(u)' = OwnPages(u) \cup (IF u = t THEN none ELSE {})
  BY <1>6 DEF OwnPages
<1>8. table[t].buckets \in [Buckets -> Seq(Entries)]
  BY DEF Typed, TypeOK, TableRecords
<1>9. entry \in Entries
  <2>1. <<entry>> \o table[t].buckets[i] \in Seq(Entries)
    <3>1. table'[t].buckets[i] = <<entry>> \o table[t].buckets[i]
      BY <1>6, <1>8
    <3>2. table'[t].buckets \in [Buckets -> Seq(Entries)]
      BY <1>6 DEF TableRecords
    <3> QED
      BY <1>6, <3>1, <3>2
  <2>2. Nth(2) \in Pages /\ Nth(3) \in Pages /\ Nth(4) \in Pages /\ Nth(5) \in Pages
    BY <1>2 DEF Typed, TypeOK
  <2>3. StoredKey(k) \in Kept
    BY DEF StoredKey, Kept
  <2> QED
    BY <2>2, <2>3 DEF Entries
<1>10. ASSUME NEW u \in Tables, NEW b \in Buckets
       PROVE  /\ Cells(u, b)' = Cells(u, b) \cup (IF u = t /\ b = i THEN cells ELSE {})
              /\ Texts(u, b)' = Texts(u, b) \cup (IF u = t /\ b = i THEN texts ELSE {})
  <2>1. CASE u = t /\ b = i
    <3>1. table'[t].buckets[i] = <<entry>> \o table[t].buckets[i]
      BY <1>6, <1>8
    <3>2. table[t].buckets[i] \in Seq(Entries)
      BY <1>6, <1>8
    <3>3. /\ CellPages(<<entry>> \o table[t].buckets[i])
               = {entry.cell, entry.block} \cup CellPages(table[t].buckets[i])
          /\ TextPages(<<entry>> \o table[t].buckets[i])
               = {entry.data, entry.name} \cup TextPages(table[t].buckets[i])
      BY <1>9, <3>2, OneMoreEntry
    <3> QED
      BY <2>1, <3>1, <3>3 DEF Cells, Texts
  <2>2. CASE ~(u = t /\ b = i)
    <3>1. table'[u].buckets[b] = table[u].buckets[b]
      BY <1>6, <1>8, <2>2
    <3> QED
      BY <2>2, <3>1 DEF Cells, Texts
  <2> QED
    BY <2>1, <2>2
<1> HIDE DEF gone, cells, texts, none, i
<1> QED
  <2>1. Given(t, i, gone, none, cells, texts)
    BY <1>1, <1>4, <1>5, <1>7, <1>10 DEF Given
  <2> QED
    BY <1>6, <2>1, GivenKeepsApart

LEMMA ListKeysApart ==
  ASSUME Typed, Apart, NEW t \in Tables, ListKeys(t)
  PROVE  Apart'
<1> DEFINE gone == {Nth(k) : k \in 1 .. KeysPages}
           none == {}
<1>1. gone \subseteq free
  BY NthFree DEF ListKeys
<1>2. /\ clearing = NoTable /\ clearing' = NoTable /\ UNCHANGED table
      /\ free' = free \ gone /\ lost' = lost \cup gone
  BY DEF ListKeys, Ready, Take
<1>3. 1 \in Buckets
  BY SizesAssumption DEF Buckets
<1> HIDE DEF gone
<1>4. /\ gone \cup none \cup none \cup none \subseteq free
      /\ none \cap (none \cup none) = {} /\ none \cap none = {}
      /\ gone \cap (none \cup none \cup none) = {}
      /\ free' = free \ (gone \cup none \cup none \cup none)
  BY <1>1, <1>2
<1>5. /\ \A u \in Tables : OwnPages(u)' = OwnPages(u) \cup (IF u = t THEN none ELSE {})
      /\ \A u \in Tables, b \in Buckets :
           /\ Cells(u, b)' = Cells(u, b) \cup (IF u = t /\ b = 1 THEN none ELSE {})
           /\ Texts(u, b)' = Texts(u, b) \cup (IF u = t /\ b = 1 THEN none ELSE {})
  BY <1>2 DEF OwnPages, Cells, Texts
<1> HIDE DEF none
<1> QED
  <2>1. Given(t, 1, gone, none, none, none)
    BY <1>2, <1>4, <1>5 DEF Given
  <2> QED
    BY <1>3, <2>1, GivenKeepsApart

(* Nothing was returned while no table is cleared. *)
LEMMA NothingReturned ==
  ASSUME clearing = NoTable, NEW t \in Tables
  PROVE  Returned(t) = {}
  BY NamesAssumption DEF Returned

(* What neither pages nor tables change leaves them apart. *)
LEMMA ApartKept ==
  ASSUME Apart, UNCHANGED <<free, lost, table>>,
         \A t \in Tables : Returned(t)' = Returned(t)
  PROVE  Apart'
<1>1. /\ \A t \in Tables : OwnPages(t)' = OwnPages(t) /\ Held(t)' = Held(t)
      /\ \A t \in Tables, b \in Buckets : /\ Cells(t, b)' = Cells(t, b)
                                          /\ Texts(t, b)' = Texts(t, b)
                                          /\ PagesOf(t, b)' = PagesOf(t, b)
  BY DEF Held, EntryPages, OwnPages, PagesOf, Cells, Texts
<1> QED
  BY <1>1 DEF Apart

LEMMA ClearCallApart ==
  ASSUME Typed, Apart, NEW t \in Tables, ClearCall(t)
  PROVE  Apart'
<1>1. /\ clearing = NoTable /\ at' = 1 /\ UNCHANGED <<free, lost, table>>
  BY DEF ClearCall, Ready, pool
<1>2. \A u \in Tables : Returned(u) = {} /\ Returned(u)' = {}
  BY <1>1, NothingReturned DEF Returned
<1> QED
  BY <1>1, <1>2, ApartKept

LEMMA ClearBucketApart ==
  ASSUME Typed, Apart, ClearBucket
  PROVE  Apart'
<1> PICK t \in Tables : t = clearing
  BY ClearBucketTables DEF ClearBucket
<1> DEFINE data  == table[t].data
           cells == Cells(t, at)
           texts == Texts(t, at)
           back  == IF at = 1 THEN {data} ELSE {}
<1>1. t \in Tables /\ at \in Buckets /\ at' = at + 1 /\ t = clearing /\ clearing' = t
  BY ClearBucketTables DEF ClearBucket
<1>2. free' = free \cup cells \cup back /\ lost' = lost \cup texts
  BY DEF ClearBucket, Cells, Texts
<1>3. \A u \in Tables : OwnPages(u)' = OwnPages(u)
  BY ClearBucketTables DEF OwnPages
<1>4. ASSUME NEW u \in Tables, NEW b \in Buckets
      PROVE  IF u = t /\ b = at
             THEN Cells(u, b)' = {} /\ Texts(u, b)' = {}
             ELSE Cells(u, b)' = Cells(u, b) /\ Texts(u, b)' = Texts(u, b)
  BY ClearBucketTables, NoEntryPages DEF Cells, Texts
<1>5. ASSUME NEW u \in Tables, NEW b \in Buckets
      PROVE  PagesOf(u, b)' = IF u = t /\ b = at THEN {} ELSE PagesOf(u, b)
  BY <1>4 DEF PagesOf
<1>6. data # Null /\ data \in OwnPages(t)
  BY <1>1 DEF ClearBucket, Typed, Shapes, Emptying, Shaped, IsUsable, OwnPages
<1>7. /\ Returned(t)' = {data} /\ Returned(t) \subseteq {data}
      /\ \A u \in Tables : u # t => Returned(u)' = {} /\ Returned(u) = {}
  <2>1. at' > 1
    BY <1>1 DEF Buckets
  <2>2. table'[t].data = table[t].data
    BY <1>1, ClearBucketTables
  <2> QED
    BY <1>1, <2>1, <2>2 DEF Returned
<1>8. ASSUME NEW u \in Tables
      PROVE  Held(u)' = IF u = t THEN Held(u) \ (cells \cup texts) ELSE Held(u)
  <2>1. ASSUME NEW p
        PROVE  p \in Held(u)' <=> p \in Held(u) /\ ~(u = t /\ p \in PagesOf(t, at))
    <3>1. p \in Held(u)' <=> p \in OwnPages(u)' \/ \E b \in Buckets : p \in PagesOf(u, b)'
      BY DEF Held, EntryPages, PagesOf, Cells, Texts
    <3>2. p \in Held(u) <=> p \in OwnPages(u) \/ \E b \in Buckets : p \in PagesOf(u, b)
      BY HeldIs
    <3>3. CASE u # t
      BY <1>3, <1>5, <3>1, <3>2, <3>3
    <3>4. CASE u = t
      <4>1. p \in PagesOf(t, at) =>
              p \notin OwnPages(t) /\ \A b \in Buckets : b # at => p \notin PagesOf(t, b)
        BY <1>1 DEF Apart
      <4> QED
        BY <1>1, <1>3, <1>5, <3>1, <3>2, <3>4, <4>1
    <3> QED
      BY <3>3, <3>4
  <2>2. PagesOf(t, at) = cells \cup texts
    BY DEF PagesOf
  <2> QED
    BY <2>1, <2>2
<1>9. /\ cells \cup texts \subseteq Held(t) /\ data \in Held(t)
      /\ cells \cap texts = {} /\ data \notin cells \cup texts
  BY <1>1, <1>6, HeldIs DEF PagesOf, Apart
<1> HIDE DEF data, cells, texts
<1>10. ASSUME NEW p \in Pages PROVE (p \in free \cup lost \/ \E u \in Tables : p \in Held(u))'
  BY <1>2, <1>8 DEF Apart
<1>11. (free \cap lost = {})'
  <2>1. (cells \cup texts \cup {data}) \cap lost = {} /\ texts \cap free = {} /\ free \cap lost = {}
    BY <1>1, <1>7, <1>9 DEF Apart
  <2> QED
    BY <1>2, <1>9, <2>1
<1>12. ASSUME NEW u \in Tables
       PROVE  (Held(u) \cap lost = {} /\ Held(u) \cap free \subseteq Returned(u))'
  <2>1. Held(u) \cap lost = {} /\ Held(u) \cap free \subseteq Returned(u)
    BY DEF Apart
  <2>2. CASE u = t
    <3>1. Held(t)' = Held(t) \ (cells \cup texts)
      BY <1>8
    <3>2. free' \subseteq free \cup cells \cup {data}
      BY <1>2
    <3>3. (Held(t) \cap lost = {})' /\ Held(t)' \cap free' \subseteq {data}
      BY <1>2, <1>7, <2>1, <2>2, <3>1, <3>2
    <3> QED
      BY <1>7, <2>2, <3>3
  <2>3. CASE u # t
    <3>1. Held(u) \cap Held(t) = {}
      BY <1>1, <2>3 DEF Apart
    <3> QED
      BY <1>2, <1>7, <1>8, <1>9, <2>1, <2>3, <3>1
  <2> QED
    BY <2>2, <2>3
<1>13. ASSUME NEW u \in Tables, NEW w \in Tables, u # w PROVE (Held(u) \cap Held(w) = {})'
  BY <1>8, <1>13 DEF Apart
<1>14. ASSUME NEW u \in Tables, NEW b \in Buckets
       PROVE  (OwnPages(u) \cap PagesOf(u, b) = {} /\ Cells(u, b) \cap Texts(u, b) = {})'
  BY <1>3, <1>4, <1>5 DEF Apart
<1>15. ASSUME NEW u \in Tables, NEW b \in Buckets, NEW c \in Buckets, b # c
       PROVE  (PagesOf(u, b) \cap PagesOf(u, c) = {})'
  BY <1>5, <1>15 DEF Apart
<1> QED
  BY <1>10, <1>11, <1>12, <1>13, <1>14, <1>15 DEF Apart

LEMMA ClearEndApart ==
  ASSUME Typed, Apart, ClearEnd
  PROVE  Apart'
<1> PICK t \in Tables : t = clearing
  BY DEF ClearEnd, Typed, TypeOK
<1> DEFINE own == {table[t].data, table[t].array, table[t].ht}
<1>1. t \in Tables /\ t = clearing /\ clearing' = NoTable /\ at = NumBuckets + 1
  BY DEF ClearEnd, Typed, TypeOK
<1>2. free' = free \cup own /\ lost' = lost
  BY DEF ClearEnd
<1>3. \A u \in Tables : table'[u] = IF u = t THEN Absent ELSE table[u]
  BY <1>1 DEF ClearEnd, Typed, TypeOK
<1>4. OwnPages(t) = own
  BY <1>1 DEF ClearEnd, Typed, Shapes, Emptying, Shaped, IsUsable, OwnPages
<1>5. \A b \in Buckets : PagesOf(t, b) = {}
  <2>1. \A b \in Buckets : b < at
    BY <1>1, SizesAssumption DEF Buckets
  <2>2. \A b \in Buckets : table[t].buckets[b] = <<>>
    BY <2>1 DEF ClearEnd, Typed, Shapes, Emptying
  <2> QED
    BY <2>2, NoEntryPages DEF PagesOf, Cells, Texts
<1>6. Held(t) = own
  BY <1>4, <1>5, HeldIs
<1>7. OwnPages(t)' = {} /\ \A b \in Buckets : PagesOf(t, b)' = {} /\ Cells(t, b)' = {}
  BY <1>1, <1>3, NoEntryPages DEF Absent, NoEntries, OwnPages, PagesOf, Cells, Texts
<1>8. Held(t)' = {}
  BY <1>7 DEF Held, EntryPages, PagesOf, Cells, Texts
<1>9. ASSUME NEW u \in Tables, u # t
      PROVE  /\ OwnPages(u)' = OwnPages(u) /\ Held(u)' = Held(u)
             /\ \A b \in Buckets : /\ Cells(u, b)' = Cells(u, b) /\ Texts(u, b)' = Texts(u, b)
                                   /\ PagesOf(u, b)' = PagesOf(u, b)
  BY <1>3, <1>9 DEF OwnPages, Held, EntryPages, PagesOf, Cells, Texts
<1>10. \A u \in Tables : Returned(u)' = {} /\ (u # t => Returned(u) = {})
  BY <1>1, NamesAssumption DEF Returned
<1> HIDE DEF own
<1>11. ASSUME NEW p \in Pages PROVE (p \in free \cup lost \/ \E u \in Tables : p \in Held(u))'
  BY <1>2, <1>6, <1>9 DEF Apart
<1>12. (free \cap lost = {})'
  BY <1>1, <1>2, <1>6 DEF Apart
<1>13. ASSUME NEW u \in Tables
       PROVE  (Held(u) \cap lost = {} /\ Held(u) \cap free \subseteq Returned(u))'
  <2>1. CASE u = t
    BY <1>8, <2>1
  <2>2. CASE u # t
    <3>1. Held(u) \cap own = {} /\ Held(u) \cap lost = {} /\ Held(u) \cap free = {}
      BY <1>1, <1>6, <1>10, <2>2 DEF Apart
    <3> QED
      BY <1>2, <1>9, <2>2, <3>1
  <2> QED
    BY <2>1, <2>2
<1>14. ASSUME NEW u \in Tables, NEW w \in Tables, u # w PROVE (Held(u) \cap Held(w) = {})'
  BY <1>8, <1>9, <1>14 DEF Apart
<1>15. ASSUME NEW u \in Tables, NEW b \in Buckets
       PROVE  (OwnPages(u) \cap PagesOf(u, b) = {} /\ Cells(u, b) \cap Texts(u, b) = {})'
  BY <1>7, <1>9 DEF Apart
<1>16. ASSUME NEW u \in Tables, NEW b \in Buckets, NEW c \in Buckets, b # c
       PROVE  (PagesOf(u, b) \cap PagesOf(u, c) = {})'
  BY <1>7, <1>9, <1>16 DEF Apart
<1> QED
  BY <1>11, <1>12, <1>13, <1>14, <1>15, <1>16 DEF Apart

LEMMA StepApart ==
  ASSUME Typed, Apart, [Next]_vars
  PROVE  Apart'
<1>1. ASSUME NEW t \in Tables, Quiet(t) PROVE Apart'
  <2>1. UNCHANGED <<free, lost, table, clearing, at>>
    BY <1>1, QuietStays DEF Stays
  <2> QED
    BY <2>1, ApartKept DEF Returned
<1>2. ASSUME NEW t \in Tables, Create(t) \/ CreateHalf(t) \/ ListKeys(t) \/ ClearCall(t)
      PROVE  Apart'
  BY <1>2, CreateApart, CreateHalfApart, ListKeysApart, ClearCallApart
<1>3. ASSUME NEW t \in Tables, NEW k \in Keys, NEW v \in Values, Put(t, k, v) PROVE Apart'
  BY <1>3, PutApart
<1>4. CASE ClearBucket \/ ClearEnd
  BY <1>4, ClearBucketApart, ClearEndApart
<1>5. CASE UNCHANGED vars
  BY <1>5, ApartKept DEF vars, pool, Returned
<1> QED
  BY <1>1, <1>2, <1>3, <1>4, <1>5, NextCases

LEMMA BlocksApartNow ==
  ASSUME Typed, Apart
  PROVE  BlocksApart
<1> SUFFICES ASSUME clearing = NoTable
             PROVE  /\ free \cup lost \cup UNION {Held(t) : t \in Tables} = Pages
                    /\ free \cap lost = {}
                    /\ \A t \in Tables : Held(t) \cap (free \cup lost) = {}
                    /\ \A t, u \in Tables : t # u => Held(t) \cap Held(u) = {}
  BY DEF BlocksApart, Held
<1>1. ASSUME NEW t \in Tables PROVE Held(t) \subseteq Pages
  <2>1. table[t] \in TableRecords
    BY DEF Typed, TypeOK
  <2>2. OwnPages(t) \subseteq Pages
    BY <2>1 DEF OwnPages, TableRecords, MaybePage
  <2>3. ASSUME NEW b \in Buckets PROVE PagesOf(t, b) \subseteq Pages
    <3>1. table[t].buckets[b] \in Seq(Entries)
      BY <2>1 DEF TableRecords
    <3>2. \A e \in EntriesOf(table[t].buckets[b]) : e \in Entries
      BY <3>1, ElementOfSeq DEF EntriesOf
    <3> QED
      BY <3>2 DEF PagesOf, Cells, Texts, CellPages, TextPages, Entries
  <2> QED
    BY <2>2, <2>3, HeldIs
<1>2. free \subseteq Pages /\ lost \subseteq Pages
  BY DEF Typed, TypeOK
<1>3. free \cup lost \cup UNION {Held(t) : t \in Tables} = Pages
  BY <1>1, <1>2 DEF Apart
<1>4. \A t \in Tables : Held(t) \cap (free \cup lost) = {}
  BY NothingReturned DEF Apart
<1> QED
  BY <1>3, <1>4 DEF Apart

(* Between calls every page is free, a block of one table, or lost:        *)
(* clearing one table, with its interior and repeated frees, gives back    *)
(* nothing of another.                                                     *)
THEOREM BlocksStayApart == Spec => []BlocksApart
<1>1. Init => Safe /\ Apart
  BY InitTyped, InitApart DEF Init, Safe, InteriorFreesHarmless
<1>2. Safe /\ Apart /\ [Next]_vars => (Safe /\ Apart)'
  BY StepSafe, StepApart DEF Safe
<1>3. Safe /\ Apart => BlocksApart
  BY BlocksApartNow DEF Safe
<1> QED
  BY <1>1, <1>2, <1>3, PTL DEF Spec

-----------------------------------------------------------------------------
(* What the counter says while the first of a clear's frees of the buffer  *)
(* is behind it and the last one is not: one of the two pages too many.    *)
Ahead == IF clearing # NoTable /\ at > 1 THEN 1 ELSE 0

(* The blocks of a table are different pages, the buffer is free as soon   *)
(* as the first bucket is cleared, and every entry has two pages that its  *)
(* clear gives back.                                                       *)
Counted ==
  /\ free_page_num = Cardinality(free) + 2 * clears + Ahead
  /\ Ahead = 1 => table[clearing].data \in free
  /\ \A t \in Tables :
       table[t].array # Null =>
         /\ table[t].ht # table[t].array
         /\ table[t].ht # table[t].data
         /\ table[t].array # table[t].data
  /\ \A t \in Tables, b \in Buckets :
       IsFiniteSet(Cells(t, b)) /\ Cardinality(Cells(t, b)) = 2 * Len(table[t].buckets[b])

LEMMA FreeFinite ==
  ASSUME TypeOK
  PROVE  IsFiniteSet(free) /\ Cardinality(free) \in Nat /\ clears \in Nat /\ free_page_num \in Int
<1>1. IsFiniteSet(Pages)
  BY SizesAssumption, FS_Interval DEF Pages
<1>2. IsFiniteSet(free)
  BY <1>1, FS_Subset DEF TypeOK
<1> QED
  BY <1>2, FS_CardinalityType DEF TypeOK

(* The pages of n allocations are n.                                       *)
LEMMA NthCounted ==
  ASSUME NEW n \in Nat, HasRoom(n)
  PROVE  LET taken == {Nth(k) : k \in 1 .. n}
         IN  IsFiniteSet(taken) /\ Cardinality(taken) = n /\ taken \subseteq free
<1> DEFINE taken == {Nth(k) : k \in 1 .. n}
           f     == [k \in 1 .. n |-> Nth(k)]
<1>1. f \in Bijection(1 .. n, taken)
  <2>1. f \in [1 .. n -> taken]
    OBVIOUS
  <2>2. \A j, k \in 1 .. n : f[j] = f[k] => j = k
    BY NthDistinct
  <2>3. \A p \in taken : \E k \in 1 .. n : f[k] = p
    OBVIOUS
  <2> HIDE DEF f, taken
  <2> QED
    BY <2>1, <2>2, <2>3 DEF Bijection, Injection, Surjection, IsInjective
<1>2. ExistsBijection(1 .. n, taken)
  BY <1>1 DEF ExistsBijection
<1>3. Cardinality(taken) = n
  BY <1>2, FS_CountingElements
<1>4. IsFiniteSet(taken)
  BY <1>2, FS_NatBijection
<1>5. taken \subseteq free
  BY NthFree
<1> QED
  BY <1>3, <1>4, <1>5

(* Taking pages leaves the counter where it was ahead of the free pages.   *)
LEMMA TakeCounted ==
  ASSUME Typed, Counted, clearing = NoTable, clearing' = NoTable, clears' = clears,
         NEW n \in Nat, HasRoom(n), NEW gone, Take(n, gone)
  PROVE  /\ free_page_num' = Cardinality(free') + 2 * clears' + Ahead'
         /\ Ahead' = 0
<1> DEFINE taken == {Nth(k) : k \in 1 .. n}
<1>1. IsFiniteSet(taken) /\ Cardinality(taken) = n /\ taken \subseteq free
  BY NthCounted
<1>2. free' = free \ taken /\ free_page_num' = free_page_num - n
  BY DEF Take
<1> HIDE DEF taken
<1>3. IsFiniteSet(free) /\ Cardinality(free) \in Nat /\ clears \in Nat
  BY FreeFinite DEF Typed
<1>4. free \cap taken = taken
  BY <1>1
<1>5. Cardinality(free') = Cardinality(free) - n
  BY <1>1, <1>2, <1>3, <1>4, FS_Difference
<1>6. Ahead = 0 /\ Ahead' = 0
  BY DEF Ahead
<1>7. free_page_num = Cardinality(free) + 2 * clears + 0
  BY <1>6 DEF Counted
<1>8. \A x, y, z \in Nat : (x + 2 * y + 0) - z \in Int /\ (x + 2 * y + 0) - z = (x - z) + 2 * y + 0
  OBVIOUS
<1>9. free_page_num' = (Cardinality(free) - n) + 2 * clears + 0
  BY <1>2, <1>3, <1>7, <1>8
<1> QED
  BY <1>5, <1>6, <1>9

LEMMA InitCounted ==
  ASSUME Init
  PROVE  Counted
<1>1. /\ free = Pages /\ free_page_num = NumPages /\ clears = 0 /\ clearing = NoTable
      /\ \A t \in Tables : table[t] = Absent
  BY DEF Init
<1>2. Cardinality(Pages) = NumPages
  <2>1. NumPages \in Nat
    BY SizesAssumption
  <2>2. Cardinality(1 .. NumPages) = IF 1 > NumPages THEN 0 ELSE NumPages - 1 + 1
    BY <2>1, FS_Interval
  <2> QED
    BY <2>1, <2>2 DEF Pages
<1>3. Ahead = 0
  BY <1>1 DEF Ahead
<1>4. \A t \in Tables, b \in Buckets : Cells(t, b) = {} /\ table[t].buckets[b] = <<>>
  BY <1>1, NoEntryPages DEF Absent, NoEntries, Cells
<1>5. \A t \in Tables, b \in Buckets :
        IsFiniteSet(Cells(t, b)) /\ Cardinality(Cells(t, b)) = 2 * Len(table[t].buckets[b])
  <2>1. IsFiniteSet({}) /\ Cardinality({}) = 2 * Len(<<>>)
    BY FS_EmptySet
  <2> QED
    BY <1>4, <2>1
<1>6. \A t \in Tables : table[t].array = Null
  BY <1>1 DEF Absent
<1>7. free_page_num = Cardinality(free) + 2 * clears + Ahead
  BY <1>1, <1>2, <1>3, SizesAssumption
<1> QED
  BY <1>3, <1>5, <1>6, <1>7 DEF Counted

(* A table that is new has different blocks and no entries.                *)
LEMMA NewTableCounted ==
  ASSUME Typed, Counted, clearing = NoTable, clearing' = NoTable, clears' = clears,
         NEW n \in Nat, HasRoom(n), NEW gone, Take(n, gone),
         NEW t \in Tables, NEW new, table' = [table EXCEPT ![t] = new],
         new.buckets = NoEntries,
         new.array # Null => /\ new.ht # new.array
                             /\ new.ht # new.data
                             /\ new.array # new.data
  PROVE  Counted'
<1>1. free_page_num' = Cardinality(free') + 2 * clears' + Ahead' /\ Ahead' = 0
  BY TakeCounted
<1>2. \A u \in Tables : table'[u] = IF u = t THEN new ELSE table[u]
  BY DEF Typed, TypeOK
<1>3. ASSUME NEW u \in Tables, NEW b \in Buckets
      PROVE  (IsFiniteSet(Cells(u, b)) /\ Cardinality(Cells(u, b)) = 2 * Len(table[u].buckets[b]))'
  <2>1. CASE u = t
    <3>1. Cells(u, b)' = {} /\ table'[u].buckets[b] = <<>>
      BY <1>2, <2>1, NoEntryPages DEF NoEntries, Cells
    <3> QED
      BY <3>1, FS_EmptySet
  <2>2. CASE u # t
    <3>1. Cells(u, b)' = Cells(u, b) /\ table'[u].buckets[b] = table[u].buckets[b]
      BY <1>2, <2>2 DEF Cells
    <3> QED
      BY <3>1 DEF Counted
  <2> QED
    BY <2>1, <2>2
<1>4. ASSUME NEW u \in Tables, table'[u].array # Null
      PROVE  /\ table'[u].ht # table'[u].array
             /\ table'[u].ht # table'[u].data
             /\ table'[u].array # table'[u].data
  BY <1>2, <1>4 DEF Counted
<1> QED
  BY <1>1, <1>3, <1>4 DEF Counted

LEMMA CreateCounted ==
  ASSUME Typed, Counted, NEW t \in Tables, Create(t) \/ CreateHalf(t)
  PROVE  Counted'
<1>1. CASE Create(t)
  <2> DEFINE new == [ht |-> Nth(1), array |-> Nth(2), data |-> Nth(3), buckets |-> NoEntries]
  <2>1. HasRoom(CreatePages) /\ CreatePages \in Nat /\ CreatePages >= 3
    BY <1>1, PagesCounted DEF Create
  <2>2. Nth(1) # Nth(2) /\ Nth(1) # Nth(3) /\ Nth(2) # Nth(3)
    BY <2>1, NthDistinct
  <2>3. /\ clearing = NoTable /\ clearing' = NoTable /\ clears' = clears
        /\ Take(CreatePages, {Nth(k) : k \in 4 .. CreatePages})
        /\ table' = [table EXCEPT ![t] = new]
    BY <1>1 DEF Create, Ready
  <2>4. /\ new.buckets = NoEntries
        /\ new.ht # new.array /\ new.ht # new.data /\ new.array # new.data
    BY <2>2
  <2> HIDE DEF new
  <2> QED
    BY <2>1, <2>3, <2>4, NewTableCounted
<1>2. CASE CreateHalf(t)
  <2> DEFINE new == [Absent EXCEPT !.ht = Nth(1)]
  <2>1. /\ clearing = NoTable /\ clearing' = NoTable /\ clears' = clears
        /\ HasRoom(1) /\ Take(1, {})
        /\ table' = [table EXCEPT ![t] = new]
    BY <1>2 DEF CreateHalf, Ready
  <2>2. new.buckets = NoEntries /\ new.array = Null
    BY DEF Absent
  <2> HIDE DEF new
  <2> QED
    BY <2>1, <2>2, NewTableCounted
<1> QED
  BY <1>1, <1>2

(* An entry that is new has two pages of its own that will be given back.  *)
LEMMA PutCounted ==
  ASSUME Typed, Apart, Counted, NEW t \in Tables, NEW k \in Keys, NEW v \in Values, Put(t, k, v)
  PROVE  Counted'
<1> DEFINE entry == [key |-> StoredKey(k), value |-> v, data |-> Nth(2), name |-> Nth(3),
                     cell |-> Nth(4), block |-> Nth(5)]
           i     == Index(k)
<1>1. /\ HasRoom(5) /\ clearing = NoTable /\ clearing' = NoTable /\ clears' = clears
      /\ Take(5, {Nth(1)})
  BY DEF Put, PutPages, Ready
<1>2. free_page_num' = Cardinality(free') + 2 * clears' + Ahead' /\ Ahead' = 0
  BY <1>1, TakeCounted
<1>3. Nth(4) \in free /\ Nth(5) \in free /\ Nth(4) # Nth(5)
  BY <1>1, NthFree, NthDistinct
<1>4. /\ \A u \in Tables : /\ table'[u].ht = table[u].ht
                           /\ table'[u].array = table[u].array
                           /\ table'[u].data = table[u].data
                           /\ u # t => table'[u] = table[u]
      /\ table'[t].buckets = [table[t].buckets EXCEPT ![i] = <<entry>> \o @]
      /\ i \in Buckets /\ table' \in [Tables -> TableRecords]
  BY PutTyped
<1>5. table[t].buckets \in [Buckets -> Seq(Entries)]
  BY DEF Typed, TypeOK, TableRecords
<1>6. entry \in Entries
  <2>1. Nth(2) \in Pages /\ Nth(3) \in Pages /\ Nth(4) \in Pages /\ Nth(5) \in Pages
    BY <1>1, NthFree DEF Typed, TypeOK
  <2>2. StoredKey(k) \in Kept
    BY DEF StoredKey, Kept
  <2> QED
    BY <2>1, <2>2 DEF Entries
<1>7. PICK s \in Seq(Entries), e \in Entries : s = table[t].buckets[i] /\ e = entry
  BY <1>4, <1>5, <1>6
<1>8. table'[t].buckets[i] = <<e>> \o s
  BY <1>4, <1>5, <1>7
<1>9. e.cell = Nth(4) /\ e.block = Nth(5)
  BY <1>7
<1> HIDE DEF entry, i
<1>10. Len(<<e>> \o s) = Len(s) + 1 /\ Len(s) \in Nat
  OBVIOUS
<1>11. /\ IsFiniteSet(CellPages(<<e>> \o s))
       /\ Cardinality(CellPages(<<e>> \o s)) = 2 * Len(<<e>> \o s)
  <2>1. CellPages(s) = Cells(t, i)
    BY <1>7 DEF Cells
  <2>2. IsFiniteSet(CellPages(s)) /\ Cardinality(CellPages(s)) = 2 * Len(s)
    BY <1>4, <1>7, <2>1 DEF Counted
  <2>3. e.cell \notin CellPages(s) /\ e.block \notin CellPages(s) /\ e.cell # e.block
    <3>1. Held(t) \cap free = {}
      BY <1>1, NothingReturned DEF Apart
    <3>2. CellPages(s) \subseteq Held(t)
      BY <1>4, <2>1, HeldIs DEF PagesOf
    <3> QED
      BY <1>3, <1>9, <3>1, <3>2
  <2>4. /\ IsFiniteSet(CellPages(s) \cup {e.cell})
        /\ Cardinality(CellPages(s) \cup {e.cell}) = 2 * Len(s) + 1
    BY <2>2, <2>3, FS_AddElement
  <2>5. /\ IsFiniteSet((CellPages(s) \cup {e.cell}) \cup {e.block})
        /\ Cardinality((CellPages(s) \cup {e.cell}) \cup {e.block}) = (2 * Len(s) + 1) + 1
    BY <2>3, <2>4, FS_AddElement
  <2>6. CellPages(<<e>> \o s) = (CellPages(s) \cup {e.cell}) \cup {e.block}
    BY OneMoreEntry
  <2>7. \A n \in Nat : (2 * n + 1) + 1 = 2 * (n + 1)
    OBVIOUS
  <2>8. Cardinality(CellPages(<<e>> \o s)) = 2 * (Len(s) + 1)
    BY <1>10, <2>5, <2>6, <2>7
  <2> QED
    BY <1>10, <2>5, <2>6, <2>8
<1>12. ASSUME NEW u \in Tables, NEW b \in Buckets
       PROVE  (IsFiniteSet(Cells(u, b)) /\ Cardinality(Cells(u, b)) = 2 * Len(table[u].buckets[b]))'
  <2>1. CASE u = t /\ b = i
    BY <1>8, <1>11, <2>1 DEF Cells
  <2>2. CASE ~(u = t /\ b = i)
    <3>1. table'[u].buckets[b] = table[u].buckets[b]
      BY <1>4, <1>5, <2>2
    <3> QED
      BY <3>1 DEF Counted, Cells
  <2> QED
    BY <2>1, <2>2
<1> QED
  BY <1>2, <1>4, <1>12 DEF Counted

(* get_ht_keys only takes pages.                                           *)
LEMMA ListKeysCounted ==
  ASSUME Typed, Counted, NEW t \in Tables, ListKeys(t)
  PROVE  Counted'
<1>1. /\ HasRoom(KeysPages) /\ clearing = NoTable /\ clearing' = NoTable /\ clears' = clears
      /\ Take(KeysPages, {Nth(k) : k \in 1 .. KeysPages}) /\ UNCHANGED table
  BY DEF ListKeys, Ready
<1>2. free_page_num' = Cardinality(free') + 2 * clears' + Ahead' /\ Ahead' = 0
  BY <1>1, PagesCounted, TakeCounted
<1>3. \A u \in Tables, b \in Buckets : Cells(u, b)' = Cells(u, b)
  BY <1>1 DEF Cells
<1> QED
  BY <1>1, <1>2, <1>3 DEF Counted

(* Where no page, table or clear is touched.                               *)
LEMMA CountedKept ==
  ASSUME Counted, UNCHANGED <<free, free_page_num, table, clears>>, Ahead' = Ahead,
         UNCHANGED clearing \/ Ahead = 0
  PROVE  Counted'
<1>1. \A u \in Tables, b \in Buckets : Cells(u, b)' = Cells(u, b)
  BY DEF Cells
<1> QED
  BY <1>1 DEF Counted

(* The cells and blocks of a bucket come back, with the first one the      *)
(* array's buffer, which is counted as two pages.                          *)
LEMMA ClearBucketCounted ==
  ASSUME Typed, Apart, Counted, ClearBucket
  PROVE  Counted'
<1> PICK t \in Tables : t = clearing
  BY ClearBucketTables DEF ClearBucket
<1> DEFINE data  == table[t].data
           cells == Cells(t, at)
           back  == IF at = 1 THEN {data} ELSE {}
           len   == Len(table[t].buckets[at])
<1>1. at \in Buckets /\ at' = at + 1 /\ clearing' = clearing /\ clears' = clears
      /\ clearing # NoTable
  BY ClearBucketTables DEF ClearBucket
<1>2. /\ free' = free \cup cells \cup back
      /\ free_page_num' = free_page_num + 2 * len + (IF at = 1 THEN 2 ELSE 0)
  BY DEF ClearBucket, Cells
<1>3. \A u \in Tables : /\ table'[u].ht = table[u].ht
                        /\ table'[u].array = table[u].array
                        /\ table'[u].data = table[u].data
                        /\ u # t => table'[u] = table[u]
  BY ClearBucketTables
<1>4. \A b \in Buckets : table'[t].buckets[b] = IF b = at THEN <<>> ELSE table[t].buckets[b]
  BY ClearBucketTables
<1>5. IsFiniteSet(cells) /\ Cardinality(cells) = 2 * len /\ len \in Nat
  <2>1. table[t].buckets[at] \in Seq(Entries)
    BY <1>1 DEF Typed, TypeOK, TableRecords
  <2> QED
    BY <1>1, <2>1 DEF Counted
<1>6. data \in OwnPages(t) /\ data \in Held(t)
  <2>1. data # Null
    BY <1>1 DEF ClearBucket, Typed, Shapes, Emptying, Shaped, IsUsable
  <2>2. data \in OwnPages(t)
    BY <2>1 DEF OwnPages
  <2> QED
    BY <2>2, HeldIs
<1>7. data \notin cells
  BY <1>1, <1>6 DEF Apart, PagesOf
<1>8. cells \subseteq Held(t)
  BY <1>1, HeldIs DEF PagesOf
<1>9. Held(t) \cap free \subseteq (IF at > 1 THEN {data} ELSE {})
  BY DEF Apart, Returned
<1>10. Ahead = IF at > 1 THEN 1 ELSE 0
  BY <1>1 DEF Ahead
<1>11. Ahead' = 1
  <2>1. at + 1 > 1
    BY <1>1 DEF Buckets
  <2> QED
    BY <1>1, <2>1 DEF Ahead
<1>12. at = 1 <=> ~(at > 1)
  BY <1>1 DEF Buckets
<1>13. cells \cap free = {}
  BY <1>7, <1>8, <1>9
<1>14. IsFiniteSet(free) /\ Cardinality(free) \in Nat /\ clears \in Nat
  BY FreeFinite DEF Typed
<1> HIDE DEF data, cells, len
<1>15. IsFiniteSet(free \cup cells) /\ Cardinality(free \cup cells) = Cardinality(free) + 2 * len
  <2>1. free \cap cells = {} /\ Cardinality({}) = 0
    BY <1>13, FS_EmptySet
  <2>2. Cardinality(free \cup cells) = Cardinality(free) + Cardinality(cells) - Cardinality(free \cap cells)
    BY <1>5, <1>14, FS_Union
  <2>3. \A x, y \in Nat : x + 2 * y - 0 = x + 2 * y
    OBVIOUS
  <2> QED
    BY <1>5, <1>14, <2>1, <2>2, <2>3, FS_Union
<1>16. free_page_num = Cardinality(free) + 2 * clears + Ahead
  BY DEF Counted
<1>17. free_page_num' = Cardinality(free') + 2 * clears' + 1
  <2>1. PICK x \in Nat, y \in Nat, z \in Nat : x = Cardinality(free) /\ y = len /\ z = clears
    BY <1>5, <1>14
  <2>2. CASE at = 1
    <3>1. data \notin free \cup cells
      BY <1>6, <1>7, <1>9, <1>12, <2>2
    <3>2. Cardinality(free') = (x + 2 * y) + 1
      BY <1>2, <1>15, <2>1, <2>2, <3>1, FS_AddElement
    <3>3. free_page_num' = (x + 2 * z + 0) + 2 * y + 2
      BY <1>2, <1>10, <1>12, <1>16, <2>1, <2>2
    <3>4. (x + 2 * z + 0) + 2 * y + 2 = ((x + 2 * y) + 1) + 2 * z + 1
      OBVIOUS
    <3> QED
      BY <1>1, <2>1, <3>2, <3>3, <3>4
  <2>3. CASE at # 1
    <3>1. Cardinality(free') = x + 2 * y
      BY <1>2, <1>15, <2>1, <2>3
    <3>2. free_page_num' = (x + 2 * z + 1) + 2 * y + 0
      BY <1>2, <1>10, <1>12, <1>16, <2>1, <2>3
    <3>3. (x + 2 * z + 1) + 2 * y + 0 = (x + 2 * y) + 2 * z + 1
      OBVIOUS
    <3> QED
      BY <1>1, <2>1, <3>1, <3>2, <3>3
  <2> QED
    BY <2>2, <2>3
<1>18. table'[clearing'].data \in free'
  <2>1. table'[clearing'].data = data
    BY <1>1, <1>3 DEF data
  <2>2. CASE at = 1
    BY <1>2, <2>1, <2>2
  <2>3. CASE at # 1
    BY <1>2, <1>10, <1>12, <2>1, <2>3 DEF Counted, data
  <2> QED
    BY <2>2, <2>3
<1>19. ASSUME NEW u \in Tables, NEW b \in Buckets
       PROVE  (IsFiniteSet(Cells(u, b)) /\ Cardinality(Cells(u, b)) = 2 * Len(table[u].buckets[b]))'
  <2>1. CASE u = t /\ b = at
    <3>1. Cells(u, b)' = {} /\ table'[u].buckets[b] = <<>>
      BY <1>4, <2>1, NoEntryPages DEF Cells
    <3>2. IsFiniteSet({}) /\ Cardinality({}) = 2 * Len(<<>>)
      BY FS_EmptySet
    <3> QED
      BY <3>1, <3>2
  <2>2. CASE ~(u = t /\ b = at)
    <3>1. table'[u].buckets[b] = table[u].buckets[b]
      BY <1>3, <1>4, <2>2
    <3> QED
      BY <3>1 DEF Counted, Cells
  <2> QED
    BY <2>1, <2>2
<1> QED
  BY <1>3, <1>11, <1>17, <1>18, <1>19 DEF Counted

(* The struct and the array come back; the buffer, which is free, is       *)
(* counted once more.                                                      *)
LEMMA ClearEndCounted ==
  ASSUME Typed, Apart, Counted, ClearEnd
  PROVE  Counted'
<1> PICK t \in Tables : t = clearing
  BY DEF ClearEnd, Typed, TypeOK
<1> DEFINE data == table[t].data
           array == table[t].array
           ht == table[t].ht
<1>1. /\ clearing # NoTable /\ clearing' = NoTable /\ at = NumBuckets + 1
      /\ clears' = clears + 1 /\ free_page_num' = free_page_num + 3
      /\ free' = free \cup {data, array, ht}
  BY DEF ClearEnd
<1>2. \A u \in Tables : table'[u] = IF u = t THEN Absent ELSE table[u]
  BY DEF ClearEnd, Typed, TypeOK
<1>3. Ahead = 1 /\ Ahead' = 0 /\ at > 1
  <2>1. at > 1
    BY <1>1, SizesAssumption
  <2> QED
    BY <1>1, <2>1 DEF Ahead
<1>4. data \in free
  BY <1>3 DEF Counted
<1>5. array # Null /\ ht # Null
  BY <1>1 DEF ClearEnd, Typed, Shapes, Emptying, Shaped, IsUsable
<1>6. ht # array /\ ht # data /\ array # data
  BY <1>5 DEF Counted
<1>7. array \notin free /\ ht \notin free
  <2>1. array \in Held(t) /\ ht \in Held(t)
    BY <1>5, HeldIs DEF OwnPages
  <2>2. Held(t) \cap free \subseteq {data}
    BY <1>1, <1>3 DEF Apart, Returned
  <2> QED
    BY <1>6, <2>1, <2>2
<1>8. IsFiniteSet(free) /\ Cardinality(free) \in Nat /\ clears \in Nat
  BY FreeFinite DEF Typed
<1>9. free_page_num = Cardinality(free) + 2 * clears + 1
  BY <1>3 DEF Counted
<1> HIDE DEF data, array, ht
<1>10. Cardinality(free') = (Cardinality(free) + 1) + 1
  <2>1. IsFiniteSet(free \cup {array}) /\ Cardinality(free \cup {array}) = Cardinality(free) + 1
    BY <1>7, <1>8, FS_AddElement
  <2>2. Cardinality((free \cup {array}) \cup {ht}) = (Cardinality(free) + 1) + 1
    BY <1>6, <1>7, <2>1, FS_AddElement
  <2>3. free' = (free \cup {array}) \cup {ht}
    BY <1>1, <1>4
  <2> QED
    BY <2>2, <2>3
<1>11. free_page_num' = Cardinality(free') + 2 * clears' + Ahead'
  <2>1. PICK x \in Nat, y \in Nat : x = Cardinality(free) /\ y = clears
    BY <1>8
  <2>2. (x + 2 * y + 1) + 3 = ((x + 1) + 1) + 2 * (y + 1) + 0
    OBVIOUS
  <2> QED
    BY <1>1, <1>3, <1>9, <1>10, <2>1, <2>2
<1>12. ASSUME NEW u \in Tables, NEW b \in Buckets
       PROVE  (IsFiniteSet(Cells(u, b)) /\ Cardinality(Cells(u, b)) = 2 * Len(table[u].buckets[b]))'
  <2>1. CASE u = t
    <3>1. Cells(u, b)' = {} /\ table'[u].buckets[b] = <<>>
      BY <1>2, <2>1, NoEntryPages DEF Absent, NoEntries, Cells
    <3>2. IsFiniteSet({}) /\ Cardinality({}) = 2 * Len(<<>>)
      BY FS_EmptySet
    <3> QED
      BY <3>1, <3>2
  <2>2. CASE u # t
    <3>1. Cells(u, b)' = Cells(u, b) /\ table'[u].buckets[b] = table[u].buckets[b]
      BY <1>2, <2>2 DEF Cells
    <3> QED
      BY <3>1 DEF Counted
  <2> QED
    BY <2>1, <2>2
<1>13. ASSUME NEW u \in Tables, table'[u].array # Null
       PROVE  /\ table'[u].ht # table'[u].array
              /\ table'[u].ht # table'[u].data
              /\ table'[u].array # table'[u].data
  BY <1>2, <1>13 DEF Counted, Absent
<1> QED
  BY <1>3, <1>11, <1>12, <1>13 DEF Counted

LEMMA StepCounted ==
  ASSUME Typed, Apart, Counted, [Next]_vars
  PROVE  Counted'
<1>1. ASSUME NEW t \in Tables, Quiet(t) PROVE Counted'
  <2>1. UNCHANGED <<free, free_page_num, table, clearing, at, clears>>
    BY <1>1, QuietStays DEF Stays
  <2> QED
    BY <2>1, CountedKept DEF Ahead
<1>2. ASSUME NEW t \in Tables, ClearCall(t) PROVE Counted'
  <2>1. /\ clearing = NoTable /\ at' = 1
        /\ UNCHANGED <<free, free_page_num, table, clears>>
    BY <1>2 DEF ClearCall, Ready, pool
  <2>2. Ahead = 0 /\ Ahead' = 0
    BY <2>1 DEF Ahead
  <2> QED
    BY <2>1, <2>2, CountedKept
<1>3. ASSUME NEW t \in Tables, Create(t) \/ CreateHalf(t) \/ ListKeys(t) PROVE Counted'
  BY <1>3, CreateCounted, ListKeysCounted
<1>4. ASSUME NEW t \in Tables, NEW k \in Keys, NEW v \in Values, Put(t, k, v) PROVE Counted'
  BY <1>4, PutCounted
<1>5. CASE ClearBucket \/ ClearEnd
  BY <1>5, ClearBucketCounted, ClearEndCounted
<1>6. CASE UNCHANGED vars
  BY <1>6, CountedKept DEF vars, pool, Ahead
<1> QED
  BY <1>1, <1>2, <1>3, <1>4, <1>5, <1>6, NextCases

(* The three frees of the array's buffer put the allocator's counter two   *)
(* pages ahead of the pages that are free with every clear, and nothing    *)
(* else the table does moves it.                                           *)
THEOREM CounterDriftsByClears == Spec => []CounterDrift
<1>1. Init => Safe /\ Apart /\ Counted
  BY InitTyped, InitApart, InitCounted DEF Init, Safe, InteriorFreesHarmless
<1>2. Safe /\ Apart /\ Counted /\ [Next]_vars => (Safe /\ Apart /\ Counted)'
  BY StepSafe, StepApart, StepCounted DEF Safe
<1>3. Safe /\ Apart /\ Counted => CounterDrift
  <2> SUFFICES ASSUME Safe, Counted, clearing = NoTable
               PROVE  free_page_num = Cardinality(free) + 2 * clears
    BY DEF CounterDrift
  <2>1. Ahead = 0
    BY DEF Ahead
  <2>2. Cardinality(free) \in Nat /\ clears \in Nat
    BY FreeFinite DEF Safe, Typed
  <2> QED
    BY <2>1, <2>2 DEF Counted
<1> QED
  BY <1>1, <1>2, <1>3, PTL DEF Spec

-----------------------------------------------------------------------------
(* A set of naturals that is not empty has a least element.                *)
LEMMA HasLeast ==
  ASSUME NEW T \in SUBSET Nat, T # {}
  PROVE  \E i \in T : \A j \in T : i <= j
<1> DEFINE R == {ss \in Nat \X Nat : ss[1] < ss[2]}
<1>1. IsWellFoundedOn(R, Nat)
  BY NatLessThanWellFounded, Zenon DEF OpToRel
<1>2. \A x, y \in Nat : x < y => <<x, y>> \in R
  OBVIOUS
<1> HIDE DEF R
<1>3. PICK i \in T : \A j \in T : ~ (<<j, i>> \in R)
  BY <1>1, WFMin, Zenon
<1>4. ASSUME NEW j \in T PROVE i <= j
  <2>1. i \in Nat /\ j \in Nat /\ ~ (<<j, i>> \in R)
    BY <1>3
  <2>2. ~ (j < i)
    BY <1>2, <2>1, Zenon
  <2> QED
    BY <2>1, <2>2
<1> QED
  BY <1>4

(* The entries of a bucket that have the key k, and the first of them.     *)
At(b, k)    == {i \in DOMAIN b : b[i].key = k}
First(b, k) == CHOOSE i \in At(b, k) : \A j \in At(b, k) : i <= j
Found(b, k) == b[First(b, k)].value

LEMMA FirstIsLeast ==
  ASSUME NEW b \in Seq(Entries), NEW k, At(b, k) # {}
  PROVE  First(b, k) \in At(b, k) /\ \A j \in At(b, k) : First(b, k) <= j
<1>1. At(b, k) \subseteq Nat
  BY DEF At
<1>2. \E i \in At(b, k) : \A j \in At(b, k) : i <= j
  BY <1>1, HasLeast
<1> QED
  BY <1>2 DEF First

LEMMA LeastIsFirst ==
  ASSUME NEW b \in Seq(Entries), NEW k, NEW i \in At(b, k), \A j \in At(b, k) : i <= j
  PROVE  First(b, k) = i
<1>1. At(b, k) \subseteq Nat
  BY DEF At
<1>2. First(b, k) \in At(b, k) /\ First(b, k) <= i
  BY FirstIsLeast
<1>3. i <= First(b, k)
  BY <1>2
<1> QED
  BY <1>1, <1>2, <1>3

(* A new entry hides what was stored under its key, and nothing else.      *)
LEMMA FoundAfterPut ==
  ASSUME NEW s \in Seq(Entries), NEW e \in Entries, NEW k
  PROVE  /\ At(<<e>> \o s, k) # {} <=> e.key = k \/ At(s, k) # {}
         /\ e.key = k => Found(<<e>> \o s, k) = e.value
         /\ e.key # k /\ At(s, k) # {} => Found(<<e>> \o s, k) = Found(s, k)
<1> DEFINE b == <<e>> \o s
<1>1. b \in Seq(Entries) /\ Len(b) = Len(s) + 1 /\ Len(s) \in Nat
  OBVIOUS
<1>2. b[1] = e /\ \A i \in 1 .. Len(s) : b[i + 1] = s[i]
  OBVIOUS
<1>3. DOMAIN b = 1 .. Len(s) + 1 /\ DOMAIN s = 1 .. Len(s)
  BY <1>1
<1> HIDE DEF b
<1>4. 1 \in At(b, k) <=> e.key = k
  BY <1>1, <1>2, <1>3 DEF At
<1>5. ASSUME NEW i \in At(b, k), i # 1
      PROVE  i - 1 \in At(s, k)
  <2>1. i \in 1 .. Len(s) + 1 /\ b[i].key = k
    BY <1>3 DEF At
  <2>2. i - 1 \in 1 .. Len(s) /\ (i - 1) + 1 = i
    BY <1>1, <1>5, <2>1
  <2>3. b[i] = s[i - 1]
    BY <1>2, <2>2
  <2> QED
    BY <1>3, <2>1, <2>2, <2>3 DEF At
<1>6. ASSUME NEW i \in At(s, k)
      PROVE  i + 1 \in At(b, k) /\ b[i + 1] = s[i] /\ i \in Nat
  <2>1. i \in 1 .. Len(s) /\ s[i].key = k
    BY <1>3 DEF At
  <2>2. i + 1 \in 1 .. Len(s) + 1 /\ b[i + 1] = s[i]
    BY <1>1, <1>2, <2>1
  <2> QED
    BY <1>3, <2>1, <2>2 DEF At
<1>7. At(b, k) # {} <=> e.key = k \/ At(s, k) # {}
  BY <1>4, <1>5, <1>6
<1>8. ASSUME e.key = k
      PROVE  Found(b, k) = e.value
  <2>1. \A j \in At(b, k) : 1 <= j
    BY <1>3 DEF At
  <2>2. First(b, k) = 1
    BY <1>1, <1>4, <1>8, <2>1, LeastIsFirst
  <2> QED
    BY <1>2, <2>2 DEF Found
<1>9. ASSUME e.key # k, At(s, k) # {}
      PROVE  Found(b, k) = Found(s, k)
  <2> DEFINE f == First(s, k)
  <2>1. f \in At(s, k) /\ \A j \in At(s, k) : f <= j
    BY <1>9, FirstIsLeast
  <2> HIDE DEF f
  <2>2. f + 1 \in At(b, k) /\ b[f + 1] = s[f] /\ f \in Nat
    BY <1>6, <2>1
  <2>3. ASSUME NEW j \in At(b, k) PROVE f + 1 <= j
    <3>1. j # 1
      BY <1>4, <1>9
    <3>2. f <= j - 1 /\ j \in Nat
      BY <1>3, <1>5, <2>1, <3>1 DEF At
    <3> QED
      BY <2>2, <3>2
  <2>4. First(b, k) = f + 1
    BY <1>1, <2>2, <2>3, LeastIsFirst
  <2> QED
    BY <2>2, <2>4 DEF Found, f
<1> QED
  BY <1>7, <1>8, <1>9 DEF b

-----------------------------------------------------------------------------
(* What buckets hold, as a map.                                            *)
Bound(bs, k) == At(bs[Bucket[k]], k) # {}
MapOf(bs)    == [k \in {k \in Keys : Bound(bs, k)} |-> Found(bs[Bucket[k]], k)]

LEMMA ContentsIsMapOf == \A t : Contents(t) = MapOf(table[t].buckets)
  BY DEF Contents, MapOf, Bound, Matches, FirstMatch, At, First, Found

LEMMA NothingStored == MapOf(NoEntries) = Promise!Empty
<1>1. \A k \in Keys : ~Bound(NoEntries, k)
  BY BucketAssumption DEF NoEntries, Bound, At
<1>2. {k \in Keys : Bound(NoEntries, k)} = {}
  BY <1>1
<1> QED
  BY <1>2 DEF MapOf, Promise!Empty

(* Putting an entry first into its bucket writes its value under its key.  *)
LEMMA PutWrites ==
  ASSUME NEW bs \in [Buckets -> Seq(Entries)], NEW new \in [Buckets -> Seq(Entries)],
         NEW e \in Entries, e.key \in Keys,
         new = [bs EXCEPT ![Bucket[e.key]] = <<e>> \o @]
  PROVE  MapOf(new) = Promise!Written(MapOf(bs), e.key, e.value)
<1> DEFINE i == Bucket[e.key]
<1>1. i \in Buckets /\ \A k \in Keys : Bucket[k] \in Buckets
  BY BucketAssumption
<1>2. \A b \in Buckets : new[b] = IF b = i THEN <<e>> \o bs[i] ELSE bs[b]
  BY <1>1
<1>3. ASSUME NEW k \in Keys
      PROVE  /\ Bound(new, k) <=> k = e.key \/ Bound(bs, k)
             /\ k = e.key => Found(new[Bucket[k]], k) = e.value
             /\ k # e.key /\ Bound(bs, k) =>
                  Found(new[Bucket[k]], k) = Found(bs[Bucket[k]], k)
  <2>1. CASE Bucket[k] = i
    <3>1. bs[i] \in Seq(Entries) /\ new[Bucket[k]] = <<e>> \o bs[i]
      BY <1>1, <1>2, <2>1
    <3>2. /\ At(<<e>> \o bs[i], k) # {} <=> e.key = k \/ At(bs[i], k) # {}
          /\ e.key = k => Found(<<e>> \o bs[i], k) = e.value
          /\ e.key # k /\ At(bs[i], k) # {} => Found(<<e>> \o bs[i], k) = Found(bs[i], k)
      BY <3>1, FoundAfterPut
    <3> QED
      BY <2>1, <3>1, <3>2 DEF Bound
  <2>2. CASE Bucket[k] # i
    <3>1. new[Bucket[k]] = bs[Bucket[k]] /\ k # e.key
      BY <1>1, <1>2, <2>2
    <3> QED
      BY <3>1 DEF Bound
  <2> QED
    BY <2>1, <2>2
<1>4. {k \in Keys : Bound(new, k)} = {k \in Keys : Bound(bs, k)} \cup {e.key}
  BY <1>3
<1>5. DOMAIN MapOf(bs) = {k \in Keys : Bound(bs, k)}
  BY DEF MapOf
<1>6. \A k \in {k \in Keys : Bound(bs, k)} : MapOf(bs)[k] = Found(bs[Bucket[k]], k)
  BY DEF MapOf
<1>7. MapOf(new) = [k \in {k \in Keys : Bound(bs, k)} \cup {e.key} |-> Found(new[Bucket[k]], k)]
  BY <1>4 DEF MapOf
<1>8. ASSUME NEW k \in {k \in Keys : Bound(bs, k)} \cup {e.key}
      PROVE  Found(new[Bucket[k]], k) = IF k = e.key THEN e.value ELSE MapOf(bs)[k]
  BY <1>3, <1>6
<1> HIDE DEF i
<1> QED
  BY <1>5, <1>7, <1>8 DEF Promise!Written

Forgets(bs, new) ==
  \E S \in SUBSET DOMAIN MapOf(bs) : MapOf(new) = [k \in S |-> MapOf(bs)[k]]

(* Emptying one bucket forgets the keys that hash there.                   *)
LEMMA EmptyingForgets ==
  ASSUME NEW bs \in [Buckets -> Seq(Entries)], NEW new \in [Buckets -> Seq(Entries)],
         NEW i \in Buckets,
         \A b \in Buckets : new[b] = IF b = i THEN <<>> ELSE bs[b]
  PROVE  Forgets(bs, new)
<1> DEFINE S == {k \in Keys : Bound(bs, k) /\ Bucket[k] # i}
<1>1. \A k \in Keys : Bucket[k] \in Buckets
  BY BucketAssumption
<1>2. ASSUME NEW k \in Keys
      PROVE  /\ Bound(new, k) <=> Bound(bs, k) /\ Bucket[k] # i
             /\ Bucket[k] # i => new[Bucket[k]] = bs[Bucket[k]]
  BY <1>1 DEF Bound, At
<1>3. {k \in Keys : Bound(new, k)} = S
  BY <1>2
<1>4. S \subseteq DOMAIN MapOf(bs)
  BY DEF MapOf
<1>5. MapOf(new) = [k \in S |-> Found(new[Bucket[k]], k)]
  BY <1>3 DEF MapOf
<1>6. \A k \in S : Found(new[Bucket[k]], k) = MapOf(bs)[k]
  BY <1>2 DEF MapOf
<1> HIDE DEF S
<1>7. MapOf(new) = [k \in S |-> MapOf(bs)[k]]
  BY <1>5, <1>6
<1> QED
  BY <1>4, <1>7 DEF Forgets

-----------------------------------------------------------------------------
(* Two of the variables of HashMap that HashTable does not have; the third *)
(* says that the process does not run any more.                            *)
Made == {t \in Tables : IsUsable(t)}
Maps == [t \in Tables |-> Contents(t)]

LEMMA InitIsMap ==
  ASSUME Init
  PROVE  Promise!Init
<1>1. \A t \in Tables : table[t].array = Null /\ table[t].buckets = NoEntries
  BY DEF Init, Absent
<1>2. Made = {}
  BY <1>1 DEF IsUsable, Made
<1>3. \A t \in Tables : Contents(t) = Promise!Empty
  BY <1>1, ContentsIsMapOf, NothingStored
<1>4. Maps = [t \in Tables |-> Promise!Empty]
  BY <1>3 DEF Maps
<1>5. /\ clearing = NoTable /\ answer = Promise!Reply("none", NoValue, NoValue, TRUE)
      /\ (status # "running") = FALSE
  BY DEF Init, Reply, Promise!Reply
<1> QED
  BY <1>2, <1>4, <1>5 DEF Promise!Init, Made, Maps

(* Tables that do not change hold what they held.                          *)
LEMMA SameMaps ==
  ASSUME UNCHANGED table
  PROVE  Made' = Made /\ Maps' = Maps
  BY DEF Made, Maps, IsUsable, Contents, Matches, FirstMatch

LEMMA OneMap ==
  ASSUME NEW t \in Tables, \A u \in Tables : u # t => table'[u] = table[u]
  PROVE  Maps' = [Maps EXCEPT ![t] = MapOf(table'[t].buckets)]
<1>1. \A u \in Tables : Contents(u)' = MapOf(table'[u].buckets)
  BY DEF Contents, MapOf, Bound, Matches, FirstMatch, At, First, Found
<1>2. \A u \in Tables : u # t => Contents(u)' = Contents(u)
  BY <1>1, ContentsIsMapOf
<1> QED
  BY <1>1, <1>2 DEF Maps

(* A table that is made, or half made, holds nothing, as before.           *)
LEMMA NewTableMaps ==
  ASSUME Typed, NEW t \in Tables, IsNull(t), NEW new, new.buckets = NoEntries,
         table' = [table EXCEPT ![t] = new]
  PROVE  /\ Maps' = Maps /\ t \notin Made
         /\ Made' = IF new.array # Null THEN Made \cup {t} ELSE Made
<1>1. table \in [Tables -> TableRecords]
  BY DEF Typed, TypeOK
<1>2. table[t] = Absent
  BY DEF Typed, Shapes, Shaped, IsNull
<1>3. \A u \in Tables : table'[u] = IF u = t THEN new ELSE table[u]
  BY <1>1
<1>4. Maps' = Maps
  <2>1. Maps' = [Maps EXCEPT ![t] = MapOf(NoEntries)]
    BY <1>3, OneMap
  <2>2. Maps[t] = MapOf(NoEntries)
    BY <1>2, ContentsIsMapOf DEF Maps, Absent
  <2> QED
    BY <2>1, <2>2 DEF Maps
<1> QED
  BY <1>2, <1>3, <1>4 DEF Made, IsUsable, Absent

LEMMA CreateIsMap ==
  ASSUME Typed, NEW t \in Tables, Create(t) \/ CreateHalf(t)
  PROVE  Promise!Create(t)
<1>1. CASE Create(t)
  <2> DEFINE new == [ht |-> Nth(1), array |-> Nth(2), data |-> Nth(3), buckets |-> NoEntries]
  <2>1. IsNull(t) /\ table' = [table EXCEPT ![t] = new] /\ clearing = NoTable
        /\ clearing' = clearing /\ answer' = Reply("create", NoValue, NoValue, TRUE)
    BY <1>1 DEF Create, Ready, Answer
  <2>2. new.array # Null /\ new.buckets = NoEntries
    <3>1. 2 \in 1 .. CreatePages /\ HasRoom(CreatePages)
      BY <1>1, PagesCounted DEF Create
    <3> QED
      BY <3>1, NthTyped, PagesCounted DEF Typed
  <2> HIDE DEF new
  <2>3. Maps' = Maps /\ t \notin Made /\ Made' = Made \cup {t}
    BY <2>1, <2>2, NewTableMaps
  <2> QED
    BY <2>1, <2>3 DEF Promise!Create, Promise!Idle, Promise!Reply, Reply, Made, Maps
<1>2. CASE CreateHalf(t)
  <2> DEFINE new == [Absent EXCEPT !.ht = Nth(1)]
  <2>1. IsNull(t) /\ table' = [table EXCEPT ![t] = new] /\ clearing = NoTable
        /\ clearing' = clearing /\ answer' = Reply("create", NoValue, NoValue, FALSE)
    BY <1>2 DEF CreateHalf, Ready, Answer
  <2>2. new.array = Null /\ new.buckets = NoEntries
    BY DEF Absent
  <2> HIDE DEF new
  <2>3. Maps' = Maps /\ t \notin Made /\ Made' = Made
    BY <2>1, <2>2, NewTableMaps
  <2> QED
    BY <2>1, <2>3 DEF Promise!Create, Promise!Idle, Promise!Reply, Reply, Made, Maps
<1> QED
  BY <1>1, <1>2

LEMMA PutIsMap ==
  ASSUME Typed, NEW t \in Tables, NEW k \in Keys, NEW v \in Values, Put(t, k, v)
  PROVE  Promise!Put(t, k, v)
<1> DEFINE e   == [key |-> StoredKey(k), value |-> v, data |-> Nth(2), name |-> Nth(3),
                   cell |-> Nth(4), block |-> Nth(5)]
           old == table[t].buckets
           new == table'[t].buckets
<1>1. table' \in [Tables -> TableRecords]
      /\ \A u \in Tables : table'[u].array = table[u].array /\ (u # t => table'[u] = table[u])
  BY PutTyped
<1>2. new = [old EXCEPT ![Index(k)] = <<e>> \o @] /\ Index(k) \in Buckets
  BY PutTyped
<1>3. old \in [Buckets -> Seq(Entries)] /\ new \in [Buckets -> Seq(Entries)]
  BY <1>1 DEF Typed, TypeOK, TableRecords
<1>4. e \in Entries
  <2>1. free \subseteq Pages /\ HasRoom(5)
    BY DEF Put, PutPages, Typed, TypeOK
  <2>2. Nth(2) \in Pages /\ Nth(3) \in Pages /\ Nth(4) \in Pages /\ Nth(5) \in Pages
    BY <2>1, NthFree
  <2>3. StoredKey(k) \in Kept
    BY DEF StoredKey, Kept
  <2> QED
    BY <2>2, <2>3 DEF Entries
<1>5. e.key = Cut[k] /\ e.key \in Keys /\ e.value = v /\ Bucket[e.key] = Index(k)
  BY CutAssumption DEF StoredKey, Index
<1> HIDE DEF e, old, new
<1>6. MapOf(new) = Promise!Written(MapOf(old), Cut[k], v)
  BY <1>2, <1>3, <1>4, <1>5, PutWrites
<1>7. Maps' = [Maps EXCEPT ![t] = MapOf(new)]
  BY <1>1, OneMap DEF new
<1>8. Maps[t] = MapOf(old)
  BY ContentsIsMapOf DEF Maps, old
<1>9. Maps' = [Maps EXCEPT ![t] = Promise!Written(@, Cut[k], v)]
  BY <1>6, <1>7, <1>8
<1>10. Made' = Made /\ t \in Made
  BY <1>1 DEF Put, Made, IsUsable
<1>11. clearing = NoTable /\ clearing' = clearing /\ answer' = Reply("put", Cut[k], v, TRUE)
       /\ NoValue \notin {k, v}
  BY NamesAssumption DEF Put, Ready, Answer
<1> QED
  BY <1>9, <1>10, <1>11 DEF Promise!Put, Promise!Idle, Promise!Reply, Reply, Made, Maps

LEMMA LookupIsMap ==
  ASSUME Typed, NEW t \in Tables, NEW k \in Keys, Lookup(t, k)
  PROVE  Promise!Lookup(t, k)
<1>1. clearing = NoTable /\ clearing' = clearing /\ UNCHANGED table
  BY DEF Lookup, Ready
<1>2. Maps[t] = Contents(t)
  BY DEF Maps
<1>3. /\ k \in DOMAIN Contents(t) <=> Matches(t, k) # {}
      /\ Matches(t, k) # {} =>
           Contents(t)[k] = table[t].buckets[Bucket[k]][FirstMatch(t, k)].value
  BY DEF Contents
<1>4. answer' = IF k \in DOMAIN Maps[t]
                THEN Reply("lookup", k, Maps[t][k], TRUE)
                ELSE Reply("lookup", k, NoValue, FALSE)
  BY <1>2, <1>3 DEF Lookup, Answer
<1>5. Made' = Made /\ Maps' = Maps
  BY <1>1, SameMaps
<1> QED
  BY <1>1, <1>4, <1>5 DEF Promise!Lookup, Promise!Idle, Promise!Reply, Reply, Made, Maps

(* The other calls that answer leave every table alone.                    *)
LEMMA AnswersAreMap ==
  ASSUME Typed, NEW t \in Tables
  PROVE  /\ CreateNone(t) => Promise!Create(t)
         /\ ListKeys(t) \/ ListKeysNull(t) => Promise!ListKeys(t)
         /\ ClearNull(t) \/ ClearCall(t) => Promise!BeginClear(t)
         /\ \A k, v : PutRefused(t, k, v) => Promise!Put(t, k, v)
<1>1. IsNull(t) => t \notin Made /\ table[t].buckets = NoEntries
  BY DEF Typed, Shapes, Shaped, IsNull, Absent, Made, IsUsable
<1>2. table[t].buckets = NoEntries => DOMAIN Maps[t] = {}
  <2>1. table[t].buckets = NoEntries => Maps[t] = Promise!Empty
    BY ContentsIsMapOf, NothingStored DEF Maps
  <2>2. DOMAIN Promise!Empty = {}
    BY DEF Promise!Empty
  <2> QED
    BY <2>1, <2>2
<1>3. t \in Made <=> IsUsable(t)
  BY DEF Made
<1>4. ASSUME CreateNone(t) PROVE Promise!Create(t)
  <2>1. UNCHANGED <<table, clearing>> /\ clearing = NoTable /\ IsNull(t)
        /\ answer' = Reply("create", NoValue, NoValue, FALSE)
    BY <1>4 DEF CreateNone, Ready, Answer
  <2> QED
    BY <1>1, <2>1, SameMaps DEF Promise!Create, Promise!Idle, Promise!Reply, Reply, Made, Maps
<1>5. ASSUME ListKeys(t) \/ ListKeysNull(t) PROVE Promise!ListKeys(t)
  <2>1. /\ UNCHANGED <<table, clearing>> /\ clearing = NoTable
        /\ table[t].buckets = NoEntries
        /\ answer' = Reply("keys", NoValue, {}, t \in Made)
    <3>1. CASE ListKeys(t)
      BY <1>3, <3>1 DEF ListKeys, Ready, Answer, pool
    <3>2. CASE ListKeysNull(t)
      <4>1. /\ UNCHANGED <<table, clearing>> /\ clearing = NoTable /\ IsNull(t)
            /\ answer' = Reply("keys", NoValue, {}, FALSE)
        BY <3>2 DEF ListKeysNull, Ready, Answer
      <4>2. (t \in Made) = FALSE
        BY <1>1, <4>1
      <4> QED
        BY <1>1, <4>1, <4>2
    <3> QED
      BY <1>5, <3>1, <3>2
  <2>2. Made' = Made /\ Maps' = Maps /\ DOMAIN Maps[t] = {}
    BY <1>2, <2>1, SameMaps
  <2> QED
    BY <2>1, <2>2 DEF Promise!ListKeys, Promise!Idle, Promise!Reply, Reply, Made, Maps
<1>6. ASSUME ClearNull(t) PROVE Promise!BeginClear(t)
  <2>1. UNCHANGED <<table, clearing>> /\ clearing = NoTable /\ IsNull(t)
        /\ answer' = Reply("clear", NoValue, NoValue, FALSE)
    BY <1>6 DEF ClearNull, Ready, Answer
  <2>2. Made' = Made /\ Maps' = Maps /\ t \notin Made
    BY <1>1, <2>1, SameMaps
  <2> QED
    BY <2>1, <2>2 DEF Promise!BeginClear, Promise!Idle, Promise!Reply, Reply, Made, Maps
<1>7. ASSUME ClearCall(t) PROVE Promise!BeginClear(t)
  <2>1. UNCHANGED <<table, answer>> /\ clearing = NoTable /\ clearing' = t /\ t \in Made
    BY <1>3, <1>7 DEF ClearCall, Ready
  <2>2. Made' = Made /\ Maps' = Maps
    BY <2>1, SameMaps
  <2> QED
    BY <2>1, <2>2 DEF Promise!BeginClear, Promise!Idle, Made, Maps
<1>8. ASSUME NEW k, NEW v, PutRefused(t, k, v) PROVE Promise!Put(t, k, v)
  <2>1. UNCHANGED <<table, clearing>> /\ clearing = NoTable
        /\ ~(t \in Made /\ NoValue \notin {k, v})
        /\ answer' = Reply("put", k, v, FALSE)
    BY <1>3, <1>8 DEF PutRefused, Ready, Answer
  <2>2. Made' = Made /\ Maps' = Maps
    BY <2>1, SameMaps
  <2> QED
    BY <2>1, <2>2 DEF Promise!Put, Promise!Idle, Promise!Reply, Reply, Made, Maps
<1> QED
  BY <1>4, <1>5, <1>6, <1>7, <1>8

(* clear_ht forgets bucket by bucket, and has forgotten all at the end.    *)
LEMMA ClearBucketIsMap ==
  ASSUME Typed, ClearBucket
  PROVE  Promise!Forget
<1> PICK t \in Tables : t = clearing
  BY ClearBucketTables
<1> DEFINE old == table[t].buckets
           new == table'[t].buckets
<1>1. \A b \in Buckets : new[b] = IF b = at THEN <<>> ELSE old[b]
  BY ClearBucketTables
<1>2. \A u \in Tables : table'[u].array = table[u].array /\ (u # t => table'[u] = table[u])
  BY ClearBucketTables
<1>3. old \in [Buckets -> Seq(Entries)] /\ new \in [Buckets -> Seq(Entries)] /\ at \in Buckets
  BY ClearBucketTables DEF Typed, TypeOK, TableRecords
<1> HIDE DEF new, old
<1>4. PICK S \in SUBSET DOMAIN MapOf(old) : MapOf(new) = [k \in S |-> MapOf(old)[k]]
  <2>1. Forgets(old, new)
    BY <1>1, <1>3, EmptyingForgets
  <2> QED
    BY <2>1 DEF Forgets
<1>5. Maps' = [Maps EXCEPT ![t] = MapOf(new)]
  BY <1>2, OneMap DEF new
<1>6. Maps[t] = MapOf(old)
  BY ContentsIsMapOf DEF Maps, old
<1>7. S \in SUBSET DOMAIN Maps[clearing]
      /\ Maps' = [Maps EXCEPT ![clearing] = [k \in S |-> @[k]]]
  BY <1>4, <1>5, <1>6
<1>8. Made' = Made
  BY <1>2 DEF Made, IsUsable
<1>9. clearing # NoTable /\ UNCHANGED <<clearing, answer>>
  BY DEF ClearBucket
<1> QED
  BY <1>7, <1>8, <1>9 DEF Promise!Forget, Made, Maps

LEMMA ClearEndIsMap ==
  ASSUME Typed, ClearEnd
  PROVE  Promise!EndClear
<1> PICK t \in Tables : t = clearing
  BY DEF ClearEnd, Typed, TypeOK
<1>1. \A u \in Tables : table'[u] = IF u = t THEN Absent ELSE table[u]
  BY DEF ClearEnd, Typed, TypeOK
<1>2. table[t].buckets = NoEntries
  <2>1. \A b \in Buckets : b < at
    BY SizesAssumption DEF ClearEnd, Buckets
  <2>2. \A b \in Buckets : table[t].buckets[b] = <<>>
    BY <2>1 DEF ClearEnd, Typed, Shapes, Emptying
  <2>3. table[t].buckets \in [Buckets -> Seq(Entries)]
    BY DEF Typed, TypeOK, TableRecords
  <2> QED
    BY <2>2, <2>3 DEF NoEntries
<1>3. Maps[t] = Promise!Empty
  BY <1>2, ContentsIsMapOf, NothingStored DEF Maps
<1>4. Maps' = Maps
  <2>1. Maps' = [Maps EXCEPT ![t] = MapOf(NoEntries)]
    BY <1>1, OneMap DEF Absent
  <2> QED
    BY <1>3, <2>1, NothingStored DEF Maps
<1>5. Made' = Made \ {t}
  BY <1>1 DEF Made, IsUsable, Absent
<1>6. clearing # NoTable /\ clearing' = NoTable
      /\ answer' = Reply("clear", NoValue, NoValue, TRUE)
  BY DEF ClearEnd, Answer
<1> QED
  BY <1>3, <1>4, <1>5, <1>6 DEF Promise!EndClear, Promise!Reply, Reply, Made, Maps

LEMMA StutterIsMap ==
  ASSUME UNCHANGED <<table, clearing, answer>>
  PROVE  UNCHANGED <<Made, Maps, clearing, answer>>
  BY SameMaps

LEMMA QuietIsMap ==
  ASSUME Typed, NEW t \in Tables, Quiet(t), status' = "running"
  PROVE  Promise!Request
<1>1. CASE CreateNone(t) \/ ListKeysNull(t) \/ ClearNull(t)
  BY <1>1, AnswersAreMap DEF Promise!Request
<1>2. ~(\/ CreateShort(t) \/ PutShort(t) \/ ListKeysShort(t) \/ ListKeysCrashes(t)
        \/ AssertionFails(t) \/ \E k \in Keys : PutLiteral(t, k))
  BY DEF CreateShort, PutShort, ListKeysShort, Shortage, ListKeysCrashes, AssertionFails, PutLiteral
<1>3. CASE \E k \in Keys : Lookup(t, k)
  BY <1>3, LookupIsMap DEF Promise!Request
<1>4. CASE \E k \in Keys \cup {NoValue}, v \in Values \cup {NoValue} : PutRefused(t, k, v)
  BY <1>4, AnswersAreMap DEF Promise!Request
<1> QED
  BY <1>1, <1>2, <1>3, <1>4 DEF Quiet

LEMMA StepIsMap ==
  ASSUME Typed, [Next]_vars
  PROVE  [Promise!Next]_(Promise!vars)
<1>1. CASE status' # "running"
  BY <1>1 DEF Promise!Next
<1>2. CASE UNCHANGED vars
  <2>1. UNCHANGED <<Made, Maps, clearing, answer, status>>
    BY <1>2, StutterIsMap DEF vars
  <2> QED
    BY <2>1 DEF Promise!vars, Made, Maps
<1>3. CASE Next /\ status' = "running"
  <2>1. ASSUME NEW t \in Tables, Quiet(t) PROVE status = "running" /\ Promise!Request
    BY <1>3, <2>1, QuietStays, QuietIsMap
  <2>2. ASSUME NEW t \in Tables, Create(t) \/ CreateHalf(t) \/ ListKeys(t) \/ ClearCall(t)
        PROVE  status = "running" /\ Promise!Request
    <3>1. status = "running"
      BY <2>2 DEF Create, CreateHalf, ListKeys, ClearCall, Ready
    <3> QED
      BY <2>2, <3>1, CreateIsMap, AnswersAreMap DEF Promise!Request
  <2>3. ASSUME NEW t \in Tables, NEW k \in Keys, NEW v \in Values, Put(t, k, v)
        PROVE  status = "running" /\ Promise!Request
    <3>1. status = "running"
      BY <2>3 DEF Put, Ready
    <3> QED
      BY <2>3, <3>1, PutIsMap DEF Promise!Request
  <2>4. ASSUME ClearBucket \/ ClearEnd PROVE status = "running" /\ Promise!Request
    <3>1. status = "running"
      BY <2>4 DEF ClearBucket, ClearEnd
    <3>2. Promise!Request
      BY <2>4, ClearBucketIsMap, ClearEndIsMap DEF Promise!Request
    <3> QED
      BY <3>1, <3>2
  <2>5. status = "running" /\ Promise!Request
    BY <1>3, <2>1, <2>2, <2>3, <2>4, NextCases
  <2> QED
    BY <1>3, <2>5 DEF Promise!Next
<1> QED
  BY <1>1, <1>2, <1>3

(* Every table is a map from cut keys to values: what was put last under a *)
(* key is what a lookup of it finds, whatever keys collide, and clearing   *)
(* one table, bucket by bucket, takes nothing from another, as long as the *)
(* process goes on.  What may end it is not excluded: KeysListed says that *)
(* listing the keys of a filled table does not, and fails.                 *)
THEOREM ImplementsMap == Spec => IsMap
<1>1. Init => Safe /\ Promise!Init
  BY InitTyped, InitIsMap DEF Init, Safe, InteriorFreesHarmless
<1>2. Safe /\ [Next]_vars => Safe' /\ [Promise!Next]_(Promise!vars)
  BY StepSafe, StepIsMap DEF Safe
<1> QED
  BY <1>1, <1>2, PTL DEF Spec, IsMap, Promise!Spec

=============================================================================
