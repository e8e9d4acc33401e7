# Verification of Gaveta

Gaveta is a small C database: records in a data file, B+-trees over their keys,
a configuration and schema reader and a command line, all on top of a page
allocator of its own. This directory holds TLA+ models of the allocator, the
B+-tree, the queue, the list and the hash table, of the reading of a
configuration and of the program from start to end, the TLC configurations that
check them, and TLAPS proofs about all of these parts.

The program is single-threaded: every operation runs to its end before the next
one starts. The hard behaviours are therefore not interleavings of threads but
long sequences of legal calls, failures in the middle of a call, evictions that
nobody is told of, memory that is given back twice or from its middle, and state
that is stale or was never set when it is used.

Paths below are relative to the repository; line numbers are those of the
modelled commit.

## 1. Inventory

| Component | Source | State | Operations | Modelled |
|---|---|---|---|---|
| Page allocator | `src/modules/memory/mem.c` | page table (`free`, `used`), `free_page_num`, headers in the pages, free stack, semaphore, the static hand of `second_chance` | `init_memory`, `g_allocate`, `g_reallocate`, `g_deallocate`, `second_chance`, `clear_memory` | `PagePool` |
| B+-tree index | `src/modules/ds/BTree.c` | node objects, `root`, the cache, the free rrns and file of the index | `b_insert` (`insert_key`, `split`, `promote`), `b_search`, `b_range_search`, `b_remove` (`redistribute`, `merge`), `clear_btree` | `BTreeNode`, `BTree` |
| Node cache | `BTree.c` (`load_btree_node`, `write_index_record`), `src/modules/ds/GenericQueue.c` | queue of nodes, capacity | lookup by rrn, insert, evict the oldest | in `BTree`, as a sequence |
| Free rrn lists | `BTree.c` (`get_free_rrn`, `load_list`), `src/modules/ds/GenericLinkedList.c` | a list per file, saved on close | take the head, insert at the head, export, read | in `BTree`, as a sequence |
| Generic queue | `src/modules/ds/GenericQueue.c` | sentinel, linked cells, tail | push, pop, top, search, clear, init | `LinkedQueue` |
| Generic list | `src/modules/ds/GenericLinkedList.c` | sentinel, linked cells, a file | insert, remove, search, count, export, read, clear, init | `LinkedList` |
| Dynamic array | `src/modules/ds/GenericDynamicArray.c` | buffer, size, capacity | push, grow, destroy | in `HashTable` and `App`, as they use it |
| Hash table | `src/modules/ds/HashTable.c` | array of buckets, each a list | init, put, lookup, keys, clear | `HashTable`, `HashMap` |
| Data file, records | `BTree.c` (`write_data_record`, `load_data_record`) | fixed-size records at an offset | read, write | no: pure I/O |
| Configuration, schema | `src/modules/config/config.c` | a parsed table of fields, the columns | `read_btree_config`, `read_schema` | `Config` |
| App, command line | `src/App.c`; `create_btree_from_file` and the files of a tree in `BTree.c` | the trees, their streams | main, create, clear, the prompt | `App` |
| Log, helpers | `src/modules/log`, `src/modules/utils` | none | messages; `g_crit_error` ends the process | its exit only |

`PROJECT.json` lists the same parts with their status, and under `hazards` each
place where something can go wrong that a test would hardly reach.

**Interactions.** Every structure allocates with `g_alloc`/`g_dealloc`, so the
allocator's replacement can take a page away from any of them. A tree finds its
nodes only through its cache: a node that is not in the cache is an error, never
a read of the file. Removal gives rrns to the free list of the index; insertion
takes them from it. The lists and queues call back a comparison function of
their user. The hash table keeps sentinels of lists, and the application copies
of trees, as elements of a dynamic array; both give pointers into the array's
buffer back to the allocator when they are cleared.

**What correctness means, part by part.**
- *Allocator*: no two holders own the same page; the unsigned counter never
  wraps; replacement happens only when there is no other way; calls end; the
  semaphore never blocks the one thread.
- *B+-tree*: it is a set of keys; searches, insertions, removals and range
  queries answer truly; leaves are linked in key order; all leaves are equally
  deep and at least half full; no node array overruns, whatever fails; freed
  nodes are not used; calls end.
- *Cache and free list*: a live node is found by its rrn, and once; an rrn that
  is handed out is not in use.
- *Queue, list, hash table*: sequence and map semantics; what is given back
  belongs to the structure that is cleared, and nothing refers to it any more.
- *Configuration*: what is read is what the file says, whatever was in memory.
- *Application*: trees that are given different names and addresses share no
  files; a stream is open for one tree and is closed once; the prompt comes up
  with all the trees when nothing is wrong.

## 2. Modules

| Module | Role |
|---|---|
| `PagePool` | the page allocator over one pool |
| `MCPagePool` | owners and symmetry for TLC |
| `PagePoolProofs` | the theorems about `PagePool` |
| `BTreeNode` | the changes `BTree.c` makes to one node, as operators |
| `BTree` | the index: one action per stretch of a call between two nodes |
| `IndexMap` | the abstract specification: what an index promises |
| `MCBTree` | keys, data rrns and setups for TLC |
| `BTreeNodeProofs` | lemmas about the operators of `BTreeNode`: arrays, order of the keys, ranges of the children |
| `BTreeProofs` | the theorems about `BTree` that hold whatever fails |
| `BTreeOrderProofs` | the theorems about `BTree` until the first fault: order, depth, `IndexMap` |
| `LinkedQueue` | the generic queue, cell by cell |
| `LinkedList` | the generic list, cell by cell, and its file |
| `SeqStore` | the abstract specification of both: a sequence, and a file |
| `MCLinkedQueue`, `MCLinkedList` | cells, values and symmetry for TLC |
| `LinkedQueueProofs`, `LinkedListProofs` | the theorems about `LinkedQueue` and `LinkedList` |
| `HashTable` | hash tables over the array and the lists, down to pages |
| `HashMap` | the abstract specification: a map per table |
| `MCHashTable` | tables, keys, cuts and hashes for TLC |
| `HashTableProofs` | the theorems about `HashTable`, and that it implements `HashMap` |
| `Config` | reading one configuration file |
| `App` | main to its end; extends `Config` |
| `MCApp` | words, files and disks for TLC |
| `AppProofs` | the theorems about `App` |

`BTree` keeps its cache and its free list as sequences. That the code's queue
and list are sequences is what `LinkedQueue` and `LinkedList` show of their own;
that a cell cannot be had in the middle of a tree operation is a step of `BTree`
(`UncheckedAllocationCrashes`).

Operators named "Mutant of ..." in the comment above them are not part of the
models; they are plausible bugs. Each stands before the definition it distorts
and shows that the property it is paired with in `PROJECT.json` can fail.

### 2.1 PagePool

| Model | Code |
|---|---|
| `free`, `used` | `pt.pages[i].free`, `.used` |
| `free_page_num` | `pt.free_page_num` |
| `header[p]` | `page_num` of the `alloc_header` last written at page `p` |
| `hand` | the `static int i` of `second_chance` |
| `memory_s` | the value of the semaphore |
| `region[o]` | the buffer caller `o` believes it holds |
| `pc`, `caller`, `want`, `curr`, `moving`, `fresh` | the call in progress and its locals |
| `status` | running, `clear_memory` done, ended by `g_crit_error`, or memory ruined |
| `replaced` | history: a page has been taken back |

`AllocateCall`, `EnterSweep`, `SweepTake`, `SweepSkip`, `Reclaim`, `ReturnNull`,
`TakeRun` and `ExitOnFragmentation` are the stretches of `g_allocate` and
`second_chance` from one loop test to the next; `ReallocateCall` and
`CopyAndFree` are the two ends of `g_reallocate`, with an allocation between
them. `Deallocate` trusts the header, as the code does, so it may free pages
that replacement already freed or gave to somebody else. A header that lies
inside somebody else's live region may have been overwritten: reading it
(`ReadBadHeader`) ends the model with status `corrupt`. It is an outcome beside
the one where the header survived. A byte count is represented by the number of
pages the code rounds it up to; one more page than the pool has is a possible
request, since the size test does not count the header.

Kept exactly: the page that replacement takes is the one *after* the
unreferenced one; the end test `curr != i - 1`, which nothing meets when the
hand is at 0; the extra `sem_post` on the failing path; the hand that survives
`clear_memory` and a new `init_memory`.

### 2.2 BTreeNode, BTree and IndexMap

| Model | Code |
|---|---|
| `heap`, `alive` | node objects; those not freed |
| `root`, `cache`, `free_rrn` | `b->root`, `b->cache`, `b->io.index->free_rrn` |
| `op`, `pc`, `curr`, `path` | the call, where it is, its node, the frames of the recursive `insert_key` |
| `promo`, `r_child` | the promoted key and the new right node |
| `seen` | the keys a range query has collected |
| `lost` | history: the call has lost a node object that it took to look one up |
| `answer` | the status or the keys the last call returned |
| `status`, `faults` | the process; history of the faults met |

A node is a record of rrn, leaf flag, keys, children (rrns) and link. A key is
its identifier; the data rrn it carries is the constant function `DataRrn`. A
call is a sequence of actions, one per node visited. `Write` is the whole tail
of `write_index_record`: the node is put into the cache unless its rrn is there,
and a full cache frees its oldest node, whoever is using it.

**As built, and supposing storage.** As built, `alloc_btree_node` stores through
a `NULL` array, so the first insertion crashes, and the cache compares byte
copies of pointers as if they were nodes. A model of only that would say nothing
about the tree. The variable `setup`, which no step changes, separates the two:
with `storage` false it is the program as it is; with `storage` true a node comes
with its arrays, a key with its identifier, the cache compares rrns, and all the
rest is as in the source. `setup` also holds the capacity of the cache, what may
fail, the free rrns of a warm start, and how many nodes an insertion must find
unused (a bound). A run explores every setup of its constant `Setups`. One setup
of `tree_failures` is the program as it is, whose first insertion crashes at
`BTree.c:184` (`AllocationCrashes`); the other setups ask whether the algorithms
would be right once that is repaired.

**Memory.** Where the code tests what `alloc_btree_node` returned, a failed
allocation is a refusal of the step that asked for it. Three places do not test:
`load_btree_node` writes the rrn into its new node (`BTree.c:196-197`), `push_gq`
and `insert_ll` write into a new cell. `TakesUnchecked` says which steps of a
call come to one of them, `UncheckedAllocationCrashes` is the crash, and
"unchecked" the fault. `load_btree_node` gives the node object of line 196 back
when the cache does not have the rrn, and overwrites the pointer to it when the
cache does (line 208): every hit loses an object. `lost` says that the call in
progress has had a hit. The objects lost are not counted: the memory of a node is
never given out again in the model, and a pool that is used up by them is the
"mem" failure of any later allocation.

**Cold and warm start.** `get_free_rrn` returns 0 whenever the list is empty, so
a tree that only ever grew clashes at its first split (run `tree_newrrn`).
`b_remove` gives the removed key's data rrn to the free list of the *index*, so a tree
whose root leaf has seen insertions and removals has rrns to hand out. `WarmInit`
is such a state: a root leaf of one key with rrn 0, and a free list. It is how a
tree with `storage` gets past one node at all.

**Where the model stops.** After a freed node was used, an rrn was given out
twice, or a read past an array did harm, what follows is undefined; `status`
becomes `corrupt`, `clashed` or `crashed` and nothing moves. Where the read may
be harmless, both outcomes are there (`ReadPastKeys`, `StaleRead`). Memory of a
freed node is not handed out again in the model. It also stops where a leaf would
be borrowed from or merged with an internal node (`Usable`), which needs nodes
of one level under rrns of another: only after a fault.

**The promise.** `IndexMap` is a set of keys, at most one request at a time,
each effect atomic. The tree implements it (`KeepsPromise`) under the mapping
`present` = keys in leaves, `routing` = keys in internal nodes, `done` = past the
step that changed the leaves, `broken` = one of the code's faults has happened.
`routing` is in the specification because the code's leaf splits *copy* keys
into internal nodes, where `b_search` and `b_remove` stop without finding them:
the promise is the strongest true one, and `tree_search` shows what is missing
from it. The promise ends at the first eviction, failed write, rebalancing,
emptied root or removal of an absent key, because the code does not keep it
then. Range queries are promised for all keys, the routing ones too.

### 2.3 LinkedQueue, LinkedList and SeqStore

| Model | Code |
|---|---|
| `gq`, `ll` | the sentinel `*gq`, `*ll` |
| `next`, `tail`, `data` | the fields of the cells; `data` is what the cell's block holds |
| `cells`, `blocks` | what `g_alloc` gave and `g_dealloc` did not take back |
| `pc`, `aux`, `key`, `count`, `pos` | the call in progress and its locals |
| `file` | the numbers in the file at `path` |
| `chain` | history: the cells in the order of the structure |
| `before` | history: the length when a reading began |

A cell that was freed can be handed out again, with its old contents, so a
pointer that is kept too long shows. Loops take one action per turn, everything
else is one action. An allocation that fails (`OutOfMemory`) crashes the process,
as built: both files write to the new cell before anybody tests it. The model
makes no call between a clear and the next `init_*`, since `*gq` dangles there;
the code that does (`clear_btree`) reads what was freed.

The free rrn lists hold `u16` blocks but are exported as `u32`, so an exported
number has something of what lies behind the block above its own 16 bits, and
reading cuts it off. `Width` stands for 2^16 and `Behind` for what may be there.
`read_ll_from_disk` inserts at the head, so reading reverses; it ends by `feof`,
which the trailing blank of its format makes true with the last number. Its only
caller, `load_list`, cannot reach the call; it is modelled as the operation the
list offers.

`SeqStore` is a sequence growing at its head (list) or its end (queue), with
requests answered from the whole sequence, and one file. Clearing and saving
take several steps and exclude everything else; reading is atomic. A save may be
refused at any time, since the file may not open (`GenericLinkedList.c:141-145`),
and that of an empty list always is; so may a reading. A refused save leaves the
file of an earlier one: the promise is only that the file is what the last save
that was not refused wrote. Writing to a file that is open is supposed to
succeed. Both
structures implement it under `items` = the contents of the cells of `chain`. Only
`chain` could not be read off the cells by a closed formula: `Linked` and
`ListLinked` say that following the links gives exactly it.

### 2.4 HashTable and HashMap

| Model | Code |
|---|---|
| `free`, `free_page_num` | the allocator's free pages and its count of them |
| `table[t]` | `*ht` of the variable `t`: the pages of the struct, the array and its buffer, and the buckets |
| an entry | key and value, and the pages of its data, its name, its cell and its block |
| `clearing`, `at` | the table `clear_ht` works on, and its bucket |
| `answer` | what the last call returned |
| `status` | running, or how the process, or what the model follows, ended |
| `lost`, `clears` | history: pages nobody can give back any more; clears so far |

Every block of a table is at most one page, and the allocator gives the lowest
free one: `Nth(k)` is the page the k-th allocation of a call gets, `HasRoom(n)`
says that n can be had. What the allocator does inside a call is `PagePool`'s
matter; here a shortage ends the process (`exited`), yields `NULL`, which most
callers write through (`crashed`), or starts replacement (`replaced`), where the
model stops.

`clear_ht` gives every bucket's sentinel back, twice, though it is an element of
the array. `g_deallocate` reads the header in front of what it is given. For the
first bucket that is the header of the array's own buffer, which is given back
there, and once more by `darray_destroy`: hence a counter that is too high by
two for every clear. For the others it is the last field of the sentinel before,
its `next` pointer: `NULL` once that bucket was emptied, which reads as a header
of no pages, and only then. `ClearBucket` has both cases.

`init_ht` allocates a block and a sentinel per bucket that nothing frees,
`put_ht` a struct; they go to `lost`. `put_ht` cuts a long key in the caller's
own memory, which a literal does not survive (`PutLiteral`); `lookup_ht` does
not cut it, so a long key is never found: `HashMap` promises exactly this.
A `NULL` key and `NULL` data are refused.

`HashMap` promises that any table can be asked for its keys, and keeps every
promise until the process ends (`ended`). `get_ht_keys` reads through `NULL` as
soon as there is an entry (`ListKeysCrashes`), so asking a filled table is what
ends it. That the process goes on is not in `IsMap`; the run `hash_keys` checks
it of its own, as a test of the repository expects it, and finds it violated.

### 2.5 Config and App

| Model | Code |
|---|---|
| `rest`, `eof` | what is unread of the file, `feof(fp)` |
| `key`, `value` | the two strings of `read_btree_config` |
| `cfg`, `schema`, `puts` | `*cfg`, the keys of its schema; history: columns put |
| `reading` | where `read_btree_config` is |
| `setup`, `next` | the files and the disk; the file main is at |
| `pc`, `tree` | where main or `create_btree_from_file` is, and its tree |
| `trees`, `at` | `app.btrees`; where `clear_app` is |
| `opened`, `open` | the streams by the order of their opening; those open |
| `source`, `reused`, `refused` | the file that is read, and history: memory was given back; a tree was given up |

A file is the sequence of its words, each with a colon behind it or not.
`fscanf(fp, " %[^:]: %s", key, value)` takes as the key everything up to the next
colon, and the word after it as the value; it may read a key only, nothing at
all, or stop at a colon for ever, and what it cannot read keeps its last
content. A word is known by the fields it mentions (`strstr`), what it is
without its first character and quotes (`Text`), and as a number (`Number`); so
`schema_size` mentions `schema` too, and the order of the tests matters
(`FieldsAssumption` says it of the five field names; other words may mention what
they like).
`cfg`, `key` and `value` are on the stack and never initialised: each part is
what the previous call left there, or `Junk`. `read_schema` takes every later
pair as a column, up to the end of the file or, when the last key has a brace,
beyond it, until the pool is used up (`Starve`; `MaxPuts` is the bound).

What a file *means* is only defined for files laid out as the shipped one
(`IsPlain`): fields and values in turn, then perhaps the schema, no brace, no
colon by itself. Every clause is needed. The last one came from the proof: a word
behind the last value, with no colon, becomes one more column of the schema, so
such a file is not plain.

A setup says which files are listed, which of them do not open (`absent`) or do
not close (`unclosed`, a refusal of the reader), which paths no tree can open
(`broken`), and which data files hold a record (`records`) or part of one
(`partial`).

`AllocTree` gives the fields nobody sets zero, or anything once pages that were
used may be handed out to a tree (`reused`). There are two ways to that. One is a
tree that was given up. The other is `Build`: `build_tree_from_data_file` takes
pages for the record, its buffer and its key, lets `fread` fill the buffer, and
gives all of them back (`BTree.c:65-77`). The cells and blocks of the two free
rrn lists take the first four of these pages; the record and the key are a page
each, so if the buffer has more than three and part of a record has reached the
fourth, that page is the next tree's `io_buf`. A `FILE` pointer is `Null`, `Wild`
or the number of a stream. The files are opened where the pointer is `NULL`. A tree
without its data file is given up (`Refuse`). A data file with a record crashes
the program, since `b_insert` is called with a key that was never filled in.
`load_btree_node` never reads a file, so a tree that comes up is empty. The array
takes a *copy* of the struct; a fifth tree makes `realloc` abort the process
(`PushGrows`). `clear_app` frees the elements of the array as if they were
blocks: the header that is read for one is the last field of the tree before,
`io.write_reqs`, and the first one's is that of the buffer.

## 3. Runs

`CHECK_DEADLOCK FALSE` wherever the system really may stop: the process may have
exited, crashed or been stopped by one of the statuses above.

| Run | Shows | Bounds |
|---|---|---|
| `pool` | exclusiveness until replacement, counter, need for replacement, semaphore; every call ends | 3 pages, 2 owners |
| `pool_unused` | (violated) the page reported "Not used" is not used | 3 pages, 2 owners |
| `tree` | types, leaf order, balance, the promise; every call ends | 5 keys, 7 nodes |
| `tree_failures` | memory safety, cache, node arrays, no node of the tree lost, the promise: when writes and allocations fail anywhere, when nodes are evicted, when the tree is emptied, and as built | 5 keys, 7 nodes, four setups |
| `tree_newrrn` | (violated) an rrn from an empty list is new | 3 keys |
| `tree_search` | (violated) every inserted key is found | 3 keys |
| `queue` | links, tail, allocations; the queue implements a sequence; every search and clear ends | 4 cells, 2 values |
| `list` | links, allocations; the list and its file implement theirs, with saves and readings refused anywhere | 4 cells, values 0 and 1, files of numbers to 3 |
| `hash` | blocks of tables apart, interior frees harmless, the counter's drift; each table implements a map until the process ends | 2 tables, 3 keys, 2 buckets, 24 pages |
| `hash_keys` | (violated) a filled table can be asked for its keys | 2 tables, 3 keys, none cut |
| `app` | configurations read as written, files and streams of trees apart, harm only on pages used again; the prompt comes up | 371 disks, see below |
| `config_example` | (violated) the example configuration is read | the example |

**Why the bounds are enough.** *Pool*: three pages have the free/taken patterns
that matter (fragmented in the middle, a run at either end, none free) and hand
positions at 0, at the end and between; with two owners one can lose its pages
to the other and use them still. That nothing depends on the number of owners or
pages is what the proofs add. `MaxGrow` = 1 makes a reallocation cross a page;
`MaxSem` and `MaxExtra` stop new calls once the counters have drifted (both only
ever drift upwards, and the guards compare them with `want` and 0 only), a call
in progress still finishes.

*Tree*: order 3 is the smallest with every case: two keys per node, splits of a
leaf and of an internal node, siblings that can give a key and ones that cannot,
leftmost, middle and rightmost leaves. Five keys give three levels. `MaxNodes`
bounds allocation over the whole life; `setup.reserve` makes sure that an
insertion that has started can split all the way up, so the bound never cuts a
call short. `MaxFree` stops removals when the free list is long: with six free
rrns and a bound of four, removals start once the first split has taken two. In
`tree_failures` the bound is two; one setup there has a single free rrn, so that
removals start at once and the tree is emptied, and keeps few nodes. `MaxSeen` stops following a range query that
goes in circles, which happens only after a failed split (a listed hazard); the
run that checks liveness has no failures and its queries stay far below it. A
cache capacity of 3 holds two nodes (the code evicts when the count *reaches*
the capacity), so that already a split evicts; 128, the real one, never evicts
here.

*Queue and list*: `Cells` is the bound; with the sentinel, four cells hold three
elements, so that there is a first, a middle and a last one and a freed cell is
handed out again while others are queued. A value is only compared with another,
so two suffice. `Width` 2 and `Behind` {0, 1} tell a value that was cut off from
one that was not. A file is read only if there are cells for its numbers.

*Hash table*: two tables show that one is not harmed by clearing the other. Two
keys collide; a third is long, is cut to the first, and uncut has another
bucket. Two buckets are the least with a sentinel behind another. 24 pages are
room for both tables and two entries in all, or for one, its entries and its
clear, before something is short; leaks make every behaviour end in a shortage,
so all the ways to be short happen.

*Application*: the files are all those of at most three words out of five (a
field, the schema, a value, a brace, a colon), with a line end or without; five
longer ones, the shipped file, every field twice, addresses and a word that only
contains a field's name among them; pairs of files with and without a name on
disks that work, refuse a file or have a record; three files of which the first,
or all but one, are given up; a first file that does not open or does not close;
two and three trees of which the first has part of a record; two trees with an
address for the list files given to both, the same or another, or to the first
only; four and five files; none, and no list. `MaxPuts`
is five columns, more than any file here has that ends, so a run that starves is
one that never ends.

**Properties.** For the pool: `ExclusiveUntilReplacement` (no overlap, page
table, headers and counter agree), `NeverUnderCounts`, `ReplacementOnlyWhenNeeded`,
`SemAvailable`, `CallReturns`. For the tree: `LeafListOrdered` and `Balanced`
(structure), `NodeBounds` (arrays, whatever happened before), `MemorySafe` (no
use of freed or missing nodes unless by a named fault, an allocation nobody tests
among them), `CacheHoldsTree`, `NoNodeLost` (no node of the tree; a call loses
the objects it took for lookups, which it only can in a tree with an internal
node, or in a range query), `KeepsPromise` (the refinement) and `CallsReturn`. For the queue
and the list: `Linked` and `ListLinked` (the links visit every cell once, in
order, and end; the tail is there), `NothingLost` (what is allocated is what the
queue needs, the list's part is in `ListLinked`), `IsFifo` and `IsLifo` (the
refinements) and `QueueCallsReturn`. For the hash table: `BlocksApart` (each page
free, lost, or of one table), `InteriorFreesHarmless`, `CounterDrift` and `IsMap`
(the refinement). For the application: `ConfigAsWritten` and `SchemaAsWritten`
(against the file's words, for plain files), `OwnFiles` (index and data files
are shared only if the names are the same or one is missing, the files of the
free rrn lists only if the addresses are the same or one is missing),
`StreamsOwned`, `CorruptOnlyOnUsedPages` and `Serves`. A tree that is given no
address for a list file takes the one that the tree before it left on the stack
(`config.c:108-112` completes only an empty one), and writes its lists over that
tree's: this is not excluded, because the code does it. The addresses on the
stack are part of the model; `ConfigAsWritten` says that a given one wins.

**Fairness.** `FairSpec` of the pool, the tree and the queue has weak fairness on the steps of the
call in progress, and none on making calls. The program is sequential: a call
that can go on is the only thing that runs, and it runs. Nothing waits for
anybody else, the semaphore included (`SemAvailable`), so weak fairness is all
that is needed and all that the code gives. In `App` it is on `Work`, everything
but the user's `Exit`: `Serves` says that the prompt comes up, and that the
program ends once it was told to.

## 4. Findings

1. `pool_unused`: `second_chance` returns the page after the unreferenced one
   (`mem.c:265`), so `g_allocate` takes back, and logs as "Not used", a page that
   may be in use.
2. `tree_newrrn`: an empty free list yields rrn 0 each time, "allocating new RRN"
   (`BTree.c:990`).
3. `tree_search`: keys copied up by a leaf split are not found, although the test
   expects all of them (`test/test_btree.c:24`).
4. `hash_keys`: `get_ht_keys` starts at a bucket's sentinel, which has no data,
   and crashes if the table has an entry (`HashTable.c:150`); the test asks a
   table with two for its keys (`test/test_hash_table.c:34-35`).
5. `config_example`: with the "Example btree.conf file" of `config.c:8`,
   `read_schema` never ends: at the end of the file it goes on while the last key
   has a brace (`config.c:32`).

That the first insertion into a tree as built crashes (`BTree.c:184`, against
`test/test_btree.c:12-14`) is the step `AllocationCrashes`, and has no run of its
own: what it violates is the step itself.

## 5. Proofs

`PagePoolProofs` proves, for every pool length, set of owners and bound:

| Theorem | States |
|---|---|
| `TypeCorrect` | `Spec => []TypeOK`; in particular the hand and the sweep index the page table within its length |
| `CounterNeverWraps` | `Spec => []NeverUnderCounts` |
| `ReplacementIsNeeded` | `Spec => []ReplacementOnlyWhenNeeded` |
| `RegionsExclusive` | `Spec => []ExclusiveUntilReplacement` |
| `SemaphoreAvailable` | `Spec => []SemAvailable` |

Assumptions: `NumPages` is a positive number, `NoOwner` is no owner, the bounds
are numbers. `Owners` may be infinite.

None of the five is inductive alone. `IInv` is
`TypeOK /\ CallInv /\ HeaderInv /\ NeverUnderCounts`:
- `CallInv` ties `pc` to the locals of the call: who called, how much, whether a
  reallocation is under way and so whether there is an old region. `CopyAndFree`
  reads the old region's header, and needs it.
- `HeaderInv`: a header at a region's start is at least 1 and never reaches past
  the pool, even after the region was taken away. The loop of `g_deallocate`
  stays inside the table because of it.
- `NeverUnderCounts` needs that freeing adds at least as much to the counter as
  to the set of free pages, and that a run found free counts as many pages as it
  has (`RunCounted`, `TakeCounts`, `FreeCounts`).

`ReplacementIsNeeded` adds `ShortInv`, "during a replacement the counter is below
`want`", and combines it with `NeverUnderCounts`: fewer than `want` pages are
free, so no run of that length is. `RegionsExclusive` adds `Exclusive`, the
conjunction of its four parts, which is inductive as long as nothing was
replaced; `Reclaim` is the step that ends it.

`LinkedQueueProofs` proves, for every set of cells and values, finite or not:

| Theorem | States |
|---|---|
| `TypeCorrect` | `Spec => []TypeOK`; in particular the tail is never `NULL` |
| `QueueIsLinked` | `Spec => []Linked` |
| `QueueLosesNothing` | `Spec => []NothingLost` |
| `QueueImplementsFifo` | `Spec => IsFifo`, the refinement of `SeqStore` |

Assumptions: `Null` is no cell, `NoValue` is no value, `MemFails` is a Boolean.

The inductive invariant is `TypeOK /\ Linked /\ NothingLost /\ Filled /\ Walk`.
`Linked` needs `NothingLost`: a push writes to a cell it was just given, and
leaves the links alone only if that cell is not queued; a removal needs that no
cell is queued twice. `Filled` says that the blocks of queued cells hold values
and that a cleared queue is empty. `Walk` says where a search is: at a queued
cell, with no cell before it holding the key, which is why the answer "not found"
is true of the whole queue. The refinement has one step per action: a push
appends, a removal takes the head, the turns of a search but its last are
stutters, the last is `Find`.

`LinkedListProofs` proves, for every set of cells, any width of a block and
whatever lies behind one:

| Theorem | States |
|---|---|
| `ListIsLinked` | `Spec => []ListLinked` |
| `ListImplementsLifo` | `Spec => IsLifo`, the refinement of `SeqStore` with its file |

Assumptions: `Null` is no cell, `NoValue` no number, `Width` is positive,
`MemFails` a Boolean. The inductive invariant is `Types /\ ListLinked /\ Filled /\
Walk /\ Reading`. `Walk` says what the local pointer of a loop has behind it: a
search none of what it looks for, a count the cells it counted, an export the
cells that are in the file, each cut off to its value. `Reading` says that what
was read so far stands at the head of the list, the last number first. So when
the file ends, the list is the reversed file before the old list
(`ItemsAreLast`), which is the one step of the specification that reading is.

`BTreeNodeProofs` and `BTreeProofs` prove of the tree, for every order of at
least 3, any set of positive keys, any setups and any number of nodes:

| Theorem | States |
|---|---|
| `TypeCorrect` | `Specs => []TypeOK` |
| `ArraysKept` | `Specs => []NodeBounds` |
| `NodesKept` | `Specs => []NoNodeLost` |
| `TreeInCache` | `Specs => []CacheHoldsTree` |
| `MemoryKept` | `Specs => []MemorySafe` |

`Specs` is the disjunction of `Spec`, `WarmSpec`, `AnySpec` and `FairSpec`: cold
and warm start, as built and supposing storage, with every failure that a setup
allows. Assumptions besides: capacity and reserve of a setup are positive, `NoOp`
is no request, there is a node object.

`NodesKept` needs one thing more, the invariant `Lookups`: a call that has looked
up nothing yet is at the root, or has just begun, and from the first hit on the
root is an internal node, or the call is a range query (which looks up its next
leaf). It is proved beside the one that follows, since no other part needs it.

All five follow from one invariant, since none can be had without most of the
others: a node keeps within its arrays because a split gets the position that the
frame remembers, the frame is right because the nodes on the way are live, and
they are live because the cache still holds what it held. Its parts:
- `StoreTypes`, `CallTypes`: the variables' types.
- `Shapes`: every node object, freed ones too, keeps within its arrays. The
  operators of `BTreeNode` keep it; that is what `BTreeNodeProofs` is about.
- `Numbers`: live nodes have rrns, no two the same. `RrnClashes` stops the model
  where the code would break it.
- `Kept`: a live node is cached or the root.
- `Control`: what each place in a call knows; at a split the node is full, and a
  new right node comes with every split but a leaf's.
- `Frames`: the frames of `insert_key` begin at the root, stand at internal nodes
  and remember the position where the promoted key belongs; each leads to the next
  by `load_btree_node`, and on the way up no node is met twice. The last part is
  not obvious: rrns could lead in a circle. But then the descent, which is
  determined by the node and the key, would repeat and never meet the leaf it
  has reached (`Frames` while `pc = "descend"` says exactly this).
- `Whole`: as long as nothing was evicted or emptied and no absent key removed,
  the cached nodes are live and none is cached twice; the children of each live
  node can be loaded and are all leaves or all internal nodes (`Stored`); and what
  the call in progress holds is live and on the level it should be (`Called`).

`MemorySafe` is inductive together with `Whole`: a step that meets `NULL` or
freed memory needs a node that cannot be loaded or is not live, or is a crash on
memory that nobody tested, which is a fault of its own.

`BTreeOrderProofs` proves, under the same specifications and assumptions:

| Theorem | States |
|---|---|
| `LeavesStayOrdered` | `Specs => []LeafListOrdered` |
| `TreeStaysBalanced` | `Specs => []Balanced` |
| `TreeKeepsPromise` | `Specs => KeepsPromise`, the refinement of `IndexMap` |

The three properties speak of all leaves at once and of paths of any length, and
induction over the levels is out of reach. The invariant `OInv` therefore says
that *there are* places for the nodes, which every node relates only to those of
its children: `lo[n]` and `hi[n]`, the range of keys that node `n` has to itself
(0 where there is no bound), and `at[n]`, its depth. Its parts, which hold as
long as `Sound`:
- `Bounded`: a node's keys ascend and lie in its range (`Covers`); a leaf whose
  range has a lower bound holds that bound as its first key. It cannot be removed:
  `b_remove` stops at the internal node that has the copy.
- `Led`: a child's range is the one its parent leads to it by, its depth one more.
- `Apart`: two nodes of one depth have disjoint ranges.
- `Topped`: the root has depth 0 and the whole range, and every other node a
  parent.
- `Heights`: exactly the nodes of depth `top` are leaves.
- `Linked`: a leaf's link leads to the leaf whose range starts where its own ends,
  and the last one's to none.
- `Routed`: the keys of internal nodes are where ranges of leaves start; hence
  they are present (`RoutingPresent`), which `IndexMap` says of routing keys.
- `Filled`: but for the root and a leaf that has just lost a key, no node is less
  than half full. So such a leaf has a sibling to take from or merge with
  (`HasSibling`); the step that finds none is ruled out.
- `InCall`: what a call knows of the range of the node it is at. An insertion or a
  search is at a node whose range its key is in; a range query has collected the
  keys of its interval below the range of the leaf it is at.

Between a split and the step that gives the parent the new node, the tree is no
B+-tree: the new node has no parent and its left sibling's range is larger than
its keys. `Now(n)` is the node as it is, the waiting parent (`Waiter`) as if it had
taken the promoted key; all parts are about `Now`. With it a split is the step
that divides a range (`Divided`), and the parent's taking the key changes no
range. The parent may be full and be split next, so `Now` of it may hold a key too
many, which is why the lemmas about ranges in `BTreeNodeProofs` (`CoversMore`,
`SplitParts`) do not bound the number of keys.

TLC checked this invariant first, with the places computed from the tree.
`LeafListOrdered` follows since the leaves have disjoint ranges and every link
leads to the next one; `Balanced` from `Heights` and from the child's depth being
one more. For the refinement, every step is a request, the one effect of a
request (`EffectPromised`, `ApplyPromised`), an answer, or a stutter. That a key
not found in the leaf at the end of the descent is nowhere in the index
(`InLeaf`), and that one that is inserted or removed there is no routing key
(`NotRouted`), is what disjoint ranges are for.

From the first rebalancing, eviction or failed write on, `Sound` is false, and
nothing is said here: the code does not keep these properties then. What it does
keep is in `BTreeProofs`.

`HashTableProofs` proves, for every set of tables, keys and values, any number of
buckets and pages, any hash and any cut:

| Theorem | States |
|---|---|
| `TypeCorrect` | `Spec => []TypeOK`; in particular a clear never leaves the array of buckets |
| `FreesAreHarmless` | `Spec => []InteriorFreesHarmless` |
| `BlocksStayApart` | `Spec => []BlocksApart` |
| `CounterDriftsByClears` | `Spec => []CounterDrift` |
| `ImplementsMap` | `Spec => IsMap`, the refinement of `HashMap` |

Assumptions: there is a bucket, the hash yields buckets, cutting a key twice is
cutting it once, `NoTable` is no table, `NoValue` no value and no key.

`Typed` is `TypeOK /\ Shapes`. `Shapes` says that a table is whole, half made or
absent, and, in `Emptying`, that the buckets before the one `clear_ht` is at are
empty: that is why what stands where a sentinel's header is looked for says "no
pages", and why the table is an empty map when the clear ends. Pages are proved
apart by the inductive `Apart`: every page is free, lost or held by a table; two
tables share none, nor do a table's own blocks and its buckets, nor two buckets,
nor the pages of a bucket that are given back and those that are not. A
table that is being cleared holds one page that is also free, the buffer that was
given back early (`Returned`); nothing allocates before the clear is over. That
the allocations of one call get different free pages (`NthFree`, `NthDistinct`)
needs no cardinality theorem: `Nth(j)` and `Nth(k)` have different numbers of
free pages up to them.

`CounterDrift` says what the counter is between calls. `Counted` says it always: in
a clear whose first free of the buffer is done, it is one ahead (`Ahead`). That
needs the cardinalities of what the steps give and take: an entry holds two
pages that come back, the struct, the array and the buffer are three different
pages, and the buffer is free already when it is given back again.

For the map, `FoundAfterPut` says what a new entry at the head of a bucket hides;
the first match is a least index, which exists because the naturals are
well-founded. `Put` writes one key, emptying a bucket forgets the keys that hash
there, everything else leaves the maps alone. A step that ends the process is
the one of `HashMap` that ends its promise, and nothing moves after it.

`AppProofs` proves, for any words, files, disks and room in the array:

| Theorem | States |
|---|---|
| `TypeCorrect` | `Spec => []TypeOK`; the configuration's parts keep their types through every `fscanf`, the array is not overrun, a stream of a tree was opened |
| `StreamsAreOwned` | `Spec => []StreamsOwned` |
| `OnlyUsedPagesCorrupt` | `Spec => []CorruptOnlyOnUsedPages` |
| `SettingsAreWritten` | `Spec => []ConfigAsWritten` |
| `SchemaIsWritten` | `Spec => []SchemaAsWritten` |
| `FilesAreOwn` | `Spec => []OwnFiles` |

Assumptions: `Blank` and `Junk` are words, `Text` and `Number` are functions on
words, the bounds are numbers, a setup's list holds files. What other words than
the field names mention matters to none of the theorems.

The types need `AtFile`: while a tree is made main is at a file of the list.
`Streams` is inductive: `Owned`, a stream is open exactly if a tree that is not
cleared yet, or the one being made, holds it; `Apart`, pairwise by index, not by
record, since two elements of the array may be equal; `Places`, nothing is
cleared before the end, and a file is opened into a pointer that holds no
stream. `OnlyUsedPagesCorrupt` adds `Zeroed`: until a tree is given up or part of
a record is read for one, no tree is made of a page that was used, so every field
nobody sets is zero; with `Owned`, what
`clear_app` closes is open, and what it reads as a header says "no pages".

What is read is what is written because of `Written`: while a plain file is read
some number of its words is behind the reader (`Reached`), the settings are those
that these words say last (`SaidBy`), and the schema holds the columns among
them (`ColumnsTo`). Before the schema an even number of words is read
(`InPairs`), in it the reader stands behind a word without a colon
(`InColumns`): this is why a type is never taken for a name. The last
pair, which is handled twice when a line end follows it, sets what is set already. `TreesNamed` carries the
settings over to the tree; two trees with one index or data file then have one
name, since `Public` is one-to-one, and a list file that a configuration gives is
the one the tree has.

**Model-checked only.** Liveness (`CallReturns`, `CallsReturn`,
`QueueCallsReturn`, `Serves`): proofs under fairness are out of the prover's
reach. The properties that the runs of section 4 find violated.

## 6. Not modelled, and why

- The free stack of the allocator (written, never read), `is_mem_free` (no
  caller), percentages, wording, files as bytes.
- Several pools that share the static hand; pools re-initialised with another
  length (planned).
- `b_update` (empty); the content of data records, and a tree that starts from a
  file: the disk is never read by the index, whose write offset also differs from
  its read offset. Nothing that is written is read back, so there is no state for
  a restart to recover and no crash between two writes to model: every start is
  `Init` of `App`.
- What the free rrn files hold (`load_list` returns before it could read one);
  which file a tree writes is in `App`. An error in the middle of writing a list
  to a file that has opened: `fprintf` is not tested there.
- In `App` the size of the pool, except for columns, and the pages given back
  with the array's buffer: `HashTable` has the same pattern in full.
- `remove_ht` and `print_ht` (declared, never defined); the hash functions, which
  the constant `Bucket` stands for; `darray` operations without a caller.
- `clear_btree` of a tree with nodes: a tree the program makes has none, since
  nothing inserts into it (`App` has the rest of `clear_btree`).
- `write_btree_config` (opens and closes a file), strings longer than their
  buffers.
- Export and reading of a queue, which nothing calls; printing.
- `init_gq` and `init_ll` of a variable that already holds a structure; calls
  before the first of them.
- String helpers, comparison callbacks and the schema types have no state; the
  commands of the prompt only print, its insert does nothing.

## 7. Plan

Done: every part in section 2 is modelled and checked. Every safety property of a
passing run is proved, and every refinement: the queue and the list are
sequences, the hash table a map, the tree a set of keys until the first fault.

What is left, in this order:
1. Proofs: the allocator as an abstract heap, and that `LinkedQueue` and
   `HashTable` use it as they assume.
2. `PagePools`: pools of different lengths sharing one hand.
3. `BTree`: a run at an even order.
