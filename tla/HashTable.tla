----------------------------- MODULE HashTable ------------------------------
(***************************************************************************)
(* The hash table (src/modules/ds/HashTable.c) over the dynamic array      *)
(* (GenericDynamicArray.c) and the lists (GenericLinkedList.c), down to    *)
(* the pages its blocks take: every block here is at most one page, and    *)
(* the allocator gives the lowest free one.                                *)
(*                                                                         *)
(* A bucket is a list whose sentinel is an element of the array; clear_ht  *)
(* gives its address back as if it were a block.  g_deallocate reads a     *)
(* header in front of what it is given: for the first sentinel that is the *)
(* header of the array's own block, for the others it is the last field of *)
(* the sentinel before, its next pointer.                                  *)
(*                                                                         *)
(* A bucket is the sequence of its entries, last inserted first: that the  *)
(* links form one is what LinkedList shows.                                *)
(***************************************************************************)
EXTENDS Integers, Sequences, FiniteSets

CONSTANTS
  Tables,      \* the variables that hold a HashTable pointer
  Keys,        \* the strings used as keys
  Values,      \* the values stored
  Cut,         \* the first max_key_size characters of each key
  Bucket,      \* h(key) % darray_size, plus one
  NumBuckets,  \* INITIAL_HT_SIZE
  NumPages,    \* bound: the length of the page table
  NoTable,     \* no table is being cleared
  NoValue      \* no value, or no key: NULL

Pages   == 1 .. NumPages
Null    == 0
Buckets == 1 .. NumBuckets
Kept    == {Cut[k] : k \in Keys}

ASSUME SizesAssumption == NumBuckets \in Nat \ {0} /\ NumPages \in Nat
ASSUME CutAssumption == Cut \in [Keys -> Keys] /\ \A k \in Keys : Cut[Cut[k]] = Cut[k]
ASSUME BucketAssumption == Bucket \in [Keys -> Buckets]
ASSUME NamesAssumption ==
  NoTable \notin Tables /\ NoValue \notin Values /\ NoValue \notin Keys

VARIABLES
  free,           \* the pages that are free
  free_page_num,  \* pt.free_page_num
  table,          \* each *ht: its blocks and its buckets
  clearing,       \* the table clear_ht is working on
  at,             \* the bucket it is at
  answer,         \* what the last call returned, and the caller's key then
  status,         \* the process: running, crashed, exited, replaced or corrupt
  lost,           \* history: pages taken that no pointer leads to any more
  clears          \* history: how many tables have been cleared

pool == <<free, free_page_num, lost>>
vars == <<pool, table, clearing, at, answer, status, clears>>

NoEntries == [b \in Buckets |-> <<>>]
Absent    == [ht |-> Null, array |-> Null, data |-> Null, buckets |-> NoEntries]

Reply(op, k, v, ok) == [op |-> op, key |-> k, value |-> v, ok |-> ok]
Answer(op, k, v, ok) == answer' = Reply(op, k, v, ok)

Ready == status = "running" /\ clearing = NoTable

(* A table whose array could not be had is neither NULL nor usable. *)
IsNull(t)   == table[t].ht = Null
IsHalf(t)   == table[t].ht # Null /\ table[t].array = Null
IsUsable(t) == table[t].array # Null

Init ==
  /\ free = Pages
  /\ free_page_num = NumPages
  /\ table = [t \in Tables |-> Absent]
  /\ clearing = NoTable
  /\ at = 1
  /\ answer = Reply("none", NoValue, NoValue, TRUE)
  /\ status = "running"
  /\ lost = {}
  /\ clears = 0

-----------------------------------------------------------------------------
(* The k-th of the pages a series of g_alloc calls gets. *)
IsNth(p, k) == Cardinality({q \in free : q <= p}) = k
Nth(k)      == CHOOSE p \in free : IsNth(p, k)
HasRoom(n)  == \A k \in 1 .. n : \E p \in free : IsNth(p, k)

(* n pages are taken; those in the set gone stay taken for good. *)
Take(n, gone) ==
  /\ free' = free \ {Nth(k) : k \in 1 .. n}
  /\ free_page_num' = free_page_num - n
  /\ lost' = lost \cup gone

(* There are fewer than n free pages.  g_allocate ends the process if the  *)
(* counter says otherwise; else it takes a page from somebody, which the   *)
(* model does not follow, or returns NULL, which most callers here write   *)
(* through.                                                                *)
Shortage(n) ==
  /\ ~HasRoom(n)
  /\ \/ free_page_num > Cardinality(free) /\ status' = "exited"
     \/ free_page_num = Cardinality(free) /\ status' \in {"replaced", "crashed"}
  /\ UNCHANGED <<pool, table, clearing, at, answer, clears>>

-----------------------------------------------------------------------------
(* init_ht: the struct, the array and its buffer; then, for each bucket, a *)
(* block that init_ll replaces at once by a sentinel, of which the array   *)
(* gets a copy: neither is ever freed.                                     *)
CreatePages == 3 + 2 * NumBuckets

Create(t) ==
  /\ Ready
  /\ IsNull(t)
  /\ HasRoom(CreatePages)
  /\ table' = [table EXCEPT ![t] = [ht |-> Nth(1), array |-> Nth(2), data |-> Nth(3),
                                    buckets |-> NoEntries]]
  /\ Take(CreatePages, {Nth(k) : k \in 4 .. CreatePages})
  /\ Answer("create", NoValue, NoValue, TRUE)
  /\ UNCHANGED <<clearing, at, status, clears>>

(* g_alloc returns NULL for the struct: nothing is left behind. *)
CreateNone(t) ==
  /\ Ready
  /\ IsNull(t)
  /\ free = {} /\ free_page_num = 0
  /\ Answer("create", NoValue, NoValue, FALSE)
  /\ UNCHANGED <<pool, table, clearing, at, status, clears>>

(* g_alloc returns NULL for the array, or for its buffer and the array is  *)
(* given back: the struct stays behind.                                    *)
CreateHalf(t) ==
  /\ Ready
  /\ IsNull(t)
  /\ HasRoom(1) /\ ~HasRoom(3) /\ free_page_num = Cardinality(free)
  /\ table' = [table EXCEPT ![t] = [Absent EXCEPT !.ht = Nth(1)]]
  /\ Take(1, {})
  /\ Answer("create", NoValue, NoValue, FALSE)
  /\ UNCHANGED <<clearing, at, status, clears>>

CreateShort(t) == Ready /\ IsNull(t) /\ Shortage(CreatePages)

-----------------------------------------------------------------------------
(* put_ht: the bucket struct, which insert_ll copies and nobody frees, the *)
(* data, the key, a cell and its block.                                    *)
PutPages == 5

(* Mutant of Index: the key is hashed before it is cut. *)
IndexUncut(k) == Bucket[k]

Index(k) == Bucket[Cut[k]]

(* Mutant of StoredKey: the key is copied as it came. *)
StoredWhole(k) == k

StoredKey(k) == Cut[k]

Put(t, k, v) ==
  /\ Ready
  /\ IsUsable(t)
  /\ HasRoom(PutPages)
  /\ LET entry == [key |-> StoredKey(k), value |-> v,
                   data |-> Nth(2), name |-> Nth(3), cell |-> Nth(4), block |-> Nth(5)]
     IN  table' = [table EXCEPT ![t].buckets[Index(k)] = <<entry>> \o @]
  /\ Take(PutPages, {Nth(1)})
  /\ Answer("put", Cut[k], v, TRUE)
  /\ UNCHANGED <<clearing, at, status, clears>>

(* There is no table, no key or no data. *)
PutRefused(t, k, v) ==
  /\ Ready
  /\ ~IsUsable(t) \/ NoValue \in {k, v}
  /\ Answer("put", k, v, FALSE)
  /\ UNCHANGED <<pool, table, clearing, at, status, clears>>

(* A long key is cut in the caller's memory, which may be a literal. *)
PutLiteral(t, k) ==
  /\ Ready
  /\ IsUsable(t)
  /\ Cut[k] # k
  /\ status' = "crashed"
  /\ UNCHANGED <<pool, table, clearing, at, answer, clears>>

PutShort(t) == Ready /\ IsUsable(t) /\ Shortage(PutPages)

-----------------------------------------------------------------------------
(* search_ll in the bucket of k: the first entry whose key is equal. *)
Matches(t, k) ==
  LET b == table[t].buckets[Bucket[k]] IN {i \in DOMAIN b : b[i].key = k}

FirstMatch(t, k) ==
  CHOOSE i \in Matches(t, k) : \A j \in Matches(t, k) : i <= j

(* lookup_ht hashes and compares the key uncut. *)
Lookup(t, k) ==
  /\ Ready
  /\ ~IsHalf(t)
  /\ IF Matches(t, k) = {}
       THEN Answer("lookup", k, NoValue, FALSE)
       ELSE Answer("lookup", k, table[t].buckets[Bucket[k]][FirstMatch(t, k)].value, TRUE)
  /\ UNCHANGED <<pool, table, clearing, at, status, clears>>

(* get_ht_keys: an array and a string per bucket, for the caller to keep.  *)
(* The answer is the set of the keys copied into them.                     *)
KeysPages == 1 + NumBuckets

ListKeys(t) ==
  /\ Ready
  /\ IsUsable(t)
  /\ table[t].buckets = NoEntries
  /\ HasRoom(KeysPages)
  /\ Take(KeysPages, {Nth(k) : k \in 1 .. KeysPages})
  /\ Answer("keys", NoValue, {}, TRUE)
  /\ UNCHANGED <<table, clearing, at, status, clears>>

ListKeysNull(t) ==
  /\ Ready
  /\ IsNull(t)
  /\ Answer("keys", NoValue, {}, FALSE)
  /\ UNCHANGED <<pool, table, clearing, at, status, clears>>

(* The walk starts at the sentinel, which has no data: with an entry in a  *)
(* bucket it reads through NULL.                                           *)
ListKeysCrashes(t) ==
  /\ Ready
  /\ IsUsable(t)
  /\ table[t].buckets # NoEntries
  /\ status' = "crashed"
  /\ UNCHANGED <<pool, table, clearing, at, answer, clears>>

ListKeysShort(t) == Ready /\ IsUsable(t) /\ Shortage(KeysPages)

(* The array of a half table is NULL: an assertion ends lookups, listings  *)
(* and clears.                                                             *)
AssertionFails(t) ==
  /\ Ready
  /\ IsHalf(t)
  /\ status' = "crashed"
  /\ UNCHANGED <<pool, table, clearing, at, answer, clears>>

-----------------------------------------------------------------------------
ClearNull(t) ==
  /\ Ready
  /\ IsNull(t)
  /\ Answer("clear", NoValue, NoValue, FALSE)
  /\ UNCHANGED <<pool, table, clearing, at, status, clears>>

ClearCall(t) ==
  /\ Ready
  /\ IsUsable(t)
  /\ clearing' = t
  /\ at' = 1
  /\ UNCHANGED <<pool, table, answer, status, clears>>

EntriesOf(b) == {b[i] : i \in DOMAIN b}
CellPages(b) == {e.cell : e \in EntriesOf(b)} \cup {e.block : e \in EntriesOf(b)}
TextPages(b) == {e.data : e \in EntriesOf(b)} \cup {e.name : e \in EntriesOf(b)}

(* Mutant of Emptied: the cells are freed but the sentinel still has them. *)
EmptiedKeepsLink(buckets) == buckets

(* The buckets once remove_ll has taken every cell of one out. *)
Emptied(buckets) == [buckets EXCEPT ![at] = <<>>]

(* clear_ht at one bucket: clear_ll frees the cells and their blocks, but  *)
(* not the keys and data these point to; then the sentinel is given back   *)
(* by clear_ll and by clear_ht.  In front of the first one is the header   *)
(* of the array's buffer; in front of another one a NULL pointer, which    *)
(* reads as a header of no pages, if the bucket before is empty.           *)
ClearBucket ==
  /\ status = "running"
  /\ clearing # NoTable
  /\ at \in Buckets
  /\ LET t == table[clearing]
         b == t.buckets[at]
     IN  /\ table' = [table EXCEPT ![clearing].buckets = Emptied(@)]
         /\ free' = free \cup CellPages(b) \cup (IF at = 1 THEN {t.data} ELSE {})
         /\ free_page_num' = free_page_num + 2 * Len(b) + (IF at = 1 THEN 2 ELSE 0)
         /\ lost' = lost \cup TextPages(b)
         /\ status' = IF at > 1 /\ t.buckets[at - 1] # <<>> THEN "corrupt" ELSE status
  /\ at' = at + 1
  /\ UNCHANGED <<clearing, answer, clears>>

(* Mutant of ClearEnd: *ht is not set to NULL. *)
ClearEndKeepsHandle ==
  /\ status = "running"
  /\ clearing # NoTable
  /\ at = NumBuckets + 1
  /\ LET t == table[clearing]
     IN  free' = free \cup {t.data, t.array, t.ht}
  /\ free_page_num' = free_page_num + 3
  /\ clearing' = NoTable
  /\ clears' = clears + 1
  /\ Answer("clear", NoValue, NoValue, TRUE)
  /\ UNCHANGED <<table, lost, at, status>>

(* Mutant of ClearEnd: darray_destroy is skipped, the buffer having been   *)
(* given back already.                                                     *)
ClearEndNoDestroy ==
  /\ status = "running"
  /\ clearing # NoTable
  /\ at = NumBuckets + 1
  /\ LET t == table[clearing]
     IN  /\ free' = free \cup {t.ht}
         /\ lost' = lost \cup {t.array}
  /\ free_page_num' = free_page_num + 1
  /\ table' = [table EXCEPT ![clearing] = Absent]
  /\ clearing' = NoTable
  /\ clears' = clears + 1
  /\ Answer("clear", NoValue, NoValue, TRUE)
  /\ UNCHANGED <<at, status>>

(* darray_destroy and the struct: the buffer is given back a third time. *)
ClearEnd ==
  /\ status = "running"
  /\ clearing # NoTable
  /\ at = NumBuckets + 1
  /\ LET t == table[clearing]
     IN  free' = free \cup {t.data, t.array, t.ht}
  /\ free_page_num' = free_page_num + 3
  /\ table' = [table EXCEPT ![clearing] = Absent]
  /\ clearing' = NoTable
  /\ clears' = clears + 1
  /\ Answer("clear", NoValue, NoValue, TRUE)
  /\ UNCHANGED <<lost, at, status>>

Next ==
  \/ \E t \in Tables :
       \/ Create(t) \/ CreateNone(t) \/ CreateHalf(t) \/ CreateShort(t)
       \/ PutShort(t) \/ ListKeys(t) \/ ListKeysNull(t) \/ ListKeysCrashes(t)
       \/ ListKeysShort(t) \/ AssertionFails(t) \/ ClearNull(t) \/ ClearCall(t)
  \/ \E t \in Tables, k \in Keys :
       Lookup(t, k) \/ PutLiteral(t, k) \/ \E v \in Values : Put(t, k, v)
  \/ \E t \in Tables, k \in Keys \cup {NoValue}, v \in Values \cup {NoValue} : PutRefused(t, k, v)
  \/ ClearBucket \/ ClearEnd

Spec == Init /\ [][Next]_vars
-----------------------------------------------------------------------------
Entries ==
  [key : Kept, value : Values, data : Pages, name : Pages, cell : Pages, block : Pages]

MaybePage == Pages \cup {Null}
TableRecords ==
  [ht : MaybePage, array : MaybePage, data : MaybePage, buckets : [Buckets -> Seq(Entries)]]

(* Pages are pages, and every key that is stored was cut. *)
TypeOK ==
  /\ free \subseteq Pages /\ lost \subseteq Pages
  /\ free_page_num \in Int /\ clears \in Nat
  /\ table \in [Tables -> TableRecords]
  /\ clearing \in Tables \cup {NoTable}
  /\ at \in 1 .. NumBuckets + 1
  /\ status \in {"running", "crashed", "exited", "replaced", "corrupt"}

(* The pages of a table's own blocks, and those of its entries. *)
OwnPages(t)   == {table[t].ht, table[t].array, table[t].data} \ {Null}
EntryPages(t) == UNION {CellPages(table[t].buckets[b]) \cup TextPages(table[t].buckets[b])
                          : b \in Buckets}

(* Between calls, every page is free, or a block of one table, or lost:    *)
(* clear_ht gives back blocks of its own table only, and what it does not  *)
(* give back nothing refers to.                                            *)
BlocksApart ==
  status = "running" /\ clearing = NoTable =>
    LET held(t) == OwnPages(t) \cup EntryPages(t) IN
    /\ free \cup lost \cup UNION {held(t) : t \in Tables} = Pages
    /\ free \cap lost = {}
    /\ \A t \in Tables : held(t) \cap (free \cup lost) = {}
    /\ \A t, u \in Tables : t # u => held(t) \cap held(u) = {}

(* Giving sentinels back as if they were blocks never writes outside the   *)
(* page table: when the header of one is read, the bucket before it has    *)
(* been emptied, so that it says "no pages".                               *)
InteriorFreesHarmless == status # "corrupt"

(* What the three frees of the array's buffer cost: with every clear the   *)
(* allocator counts two pages more than are free.                          *)
CounterDrift ==
  clearing = NoTable => free_page_num = Cardinality(free) + 2 * clears

(* The map in table t: the entry found first under each key. *)
Contents(t) ==
  [k \in {k \in Keys : Matches(t, k) # {}} |->
     table[t].buckets[Bucket[k]][FirstMatch(t, k)].value]

(* The table keeps the promise of HashMap: the value last put under a key  *)
(* is found, also with collisions, cut keys, several tables and after      *)
(* others were cleared, for as long as the process goes on.  That the      *)
(* process does go on is not promised: KeysListed shows where it does not. *)
Promise == INSTANCE HashMap
  WITH made <- {t \in Tables : IsUsable(t)}, maps <- [t \in Tables |-> Contents(t)],
       ended <- status # "running"

IsMap == Promise!Spec

(* A table that was filled can be asked for its keys, given memory enough  *)
(* for any call and keys that need not be cut: test_hash_table.c:34 does   *)
(* so after two calls of put_ht, and asserts that it gets an answer.       *)
KeysListed ==
  /\ HasRoom(CreatePages)
  /\ \A t \in Tables : ~IsHalf(t)
  /\ \A k \in Keys : Cut[k] = k
  => status # "crashed"
=============================================================================
