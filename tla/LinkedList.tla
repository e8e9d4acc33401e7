----------------------------- MODULE LinkedList -----------------------------
(***************************************************************************)
(* The generic list (src/modules/ds/GenericLinkedList.c), which holds the  *)
(* free rrns of a file and the buckets of a hash table: a sentinel and     *)
(* cells that are inserted and removed behind it, each with a block of its *)
(* own.  A list of free rrns is written to a file of u32 numbers and can   *)
(* be read back; its blocks are narrower, so that writing takes along what *)
(* lies behind the block and reading cuts it off again.                    *)
(***************************************************************************)
EXTENDS Integers, Sequences, FiniteSets

CONSTANTS
  Cells,    \* addresses of cells (bound: so many can be allocated at once)
  Null,     \* the null pointer
  Width,    \* how many values a block can hold, 2^16 for an rrn
  Behind,   \* what may lie behind a block: 0 only, if a block holds a u32
  NoValue,  \* no value in an answer
  NoFile,   \* the file does not exist
  MemFails  \* TRUE: g_alloc may return NULL

Values == 0 .. Width - 1

ASSUME CellsAssumption == Null \notin Cells
ASSUME WidthAssumption == Width \in Nat \ {0} /\ Behind \subseteq Nat
ASSUME NoValueAssumption == NoValue \notin Nat
ASSUME MemFailsAssumption == MemFails \in BOOLEAN

VARIABLES
  ll,      \* *ll, the sentinel
  next,    \* the field next of each cell
  data,    \* the contents of each cell's block
  cells,   \* the cells that are allocated
  blocks,  \* those whose block is allocated
  file,    \* the file at path
  pc,      \* idle, search, size, write, read, clear; or cleared
  aux,     \* the local aux of the loops
  key,     \* what search_ll looks for
  count,   \* the local count of get_ll_size
  pos,     \* how many numbers read_ll_from_disk has read
  answer,  \* what the last call returned
  crashed, \* the process has crashed
  chain,   \* history: the cells in the list, last inserted first
  before   \* history: how many there were when reading began

memory == <<next, data, cells, blocks>>
locals == <<aux, key, count, pos, before>>
vars   == <<ll, memory, file, pc, locals, answer, crashed, chain>>

Reply(op, v, ok) == [op |-> op, value |-> v, ok |-> ok]

Ready == ~crashed /\ pc = "idle"

(* init_ll: a sentinel without a block. *)
Init ==
  /\ ll \in Cells
  /\ next = [c \in Cells |-> Null]
  /\ data = [c \in Cells |-> NoValue]
  /\ cells = {ll}
  /\ blocks = {}
  /\ file = NoFile
  /\ pc = "idle"
  /\ aux = Null /\ key = NoValue /\ count = 0 /\ pos = 0 /\ before = 0
  /\ answer = Reply("none", NoValue, TRUE)
  /\ crashed = FALSE
  /\ chain = <<>>

(* The call returns; its locals are gone. *)
Return(op, v, ok) ==
  /\ answer' = Reply(op, v, ok)
  /\ pc' = "idle"
  /\ aux' = Null /\ key' = NoValue /\ count' = 0 /\ pos' = 0 /\ before' = 0

-----------------------------------------------------------------------------
(* insert_ll: a new cell behind the sentinel. *)
Link(v) ==
  \E c \in Cells \ cells :
    /\ next'   = [next EXCEPT ![c] = next[ll], ![ll] = c]
    /\ data'   = [data EXCEPT ![c] = v]
    /\ cells'  = cells \cup {c}
    /\ blocks' = blocks \cup {c}
    /\ chain'  = <<c>> \o chain

Insert(v) ==
  /\ Ready
  /\ Link(v)
  /\ Return("put", v, TRUE)
  /\ UNCHANGED <<ll, file, crashed>>

(* Without memory for a cell or its block, create_ll_node writes through   *)
(* NULL: in insert_ll, in init_ll after a clear, or between two numbers of *)
(* read_ll_from_disk, whose own block is used without a test, too.         *)
OutOfMemory ==
  /\ ~crashed
  /\ pc \in {"idle", "cleared", "read"}
  /\ MemFails
  /\ crashed' = TRUE
  /\ UNCHANGED <<ll, memory, file, pc, locals, answer, chain>>

(* Mutant of Unlink: the cell is freed, its block is not. *)
UnlinkLeaks ==
  LET c == next[ll] IN
  /\ next'   = [next EXCEPT ![ll] = next[c]]
  /\ cells'  = cells \ {c}
  /\ chain'  = SubSeq(chain, 2, Len(chain))
  /\ UNCHANGED <<data, blocks>>

(* remove_ll takes the first cell out and frees it and its block. *)
Unlink ==
  LET c == next[ll] IN
  /\ next'   = [next EXCEPT ![ll] = next[c]]
  /\ cells'  = cells \ {c}
  /\ blocks' = blocks \ {c}
  /\ chain'  = SubSeq(chain, 2, Len(chain))
  /\ UNCHANGED data

RemoveEmpty ==
  /\ Ready
  /\ next[ll] = Null
  /\ Return("take", NoValue, FALSE)
  /\ UNCHANGED <<ll, memory, file, crashed, chain>>

Remove ==
  /\ Ready
  /\ next[ll] # Null
  /\ Unlink
  /\ Return("take", data[next[ll]], TRUE)
  /\ UNCHANGED <<ll, file, crashed>>

-----------------------------------------------------------------------------
(* search_ll: an empty list is an error, answered like a miss. *)
SearchCall(v) ==
  /\ Ready
  /\ IF next[ll] = Null
       THEN Return("find", v, FALSE)
       ELSE /\ pc' = "search" /\ aux' = next[ll] /\ key' = v
            /\ UNCHANGED <<count, pos, before, answer>>
  /\ UNCHANGED <<ll, memory, file, crashed, chain>>

SearchStep ==
  /\ pc = "search"
  /\ \/ data[aux] = key /\ Return("find", key, TRUE)
     \/ data[aux] # key /\ next[aux] = Null /\ Return("find", key, FALSE)
     \/ /\ data[aux] # key /\ next[aux] # Null
        /\ aux' = next[aux]
        /\ UNCHANGED <<pc, key, count, pos, before, answer>>
  /\ UNCHANGED <<ll, memory, file, crashed, chain>>

(* get_ll_size counts the cells. *)
SizeCall ==
  /\ Ready
  /\ pc' = "size" /\ aux' = next[ll]
  /\ UNCHANGED <<ll, memory, file, key, count, pos, before, answer, crashed, chain>>

SizeStep ==
  /\ pc = "size"
  /\ \/ aux = Null /\ Return("size", count, TRUE)
     \/ /\ aux # Null
        /\ count' = count + 1 /\ aux' = next[aux]
        /\ UNCHANGED <<pc, key, pos, before, answer>>
  /\ UNCHANGED <<ll, memory, file, crashed, chain>>

(* export_ll_to_disk: an empty list is refused, and any list when the file *)
(* cannot be opened; the file is left alone then, otherwise emptied first. *)
WriteCall ==
  /\ Ready
  /\ \/ /\ Return("save", NoValue, FALSE)
        /\ UNCHANGED file
     \/ /\ next[ll] # Null
        /\ file' = <<>> /\ pc' = "write" /\ aux' = next[ll]
        /\ UNCHANGED <<key, count, pos, before, answer>>
  /\ UNCHANGED <<ll, memory, crashed, chain>>

(* write_u32_node reads four bytes of the block.  Its result is ignored:   *)
(* the model supposes that writing to an open file does not fail.          *)
WriteStep ==
  /\ pc = "write"
  /\ \/ /\ aux = Null
        /\ Return("save", NoValue, TRUE)
        /\ UNCHANGED file
     \/ /\ aux # Null
        /\ \E g \in Behind : file' = Append(file, data[aux] + g * Width)
        /\ aux' = next[aux]
        /\ UNCHANGED <<pc, key, count, pos, before, answer>>
  /\ UNCHANGED <<ll, memory, crashed, chain>>

(* read_ll_from_disk: a file that cannot be opened, there or not, is       *)
(* refused.  (Bound: a file is read only if there are cells for its        *)
(* numbers.)                                                               *)
ReadCall ==
  /\ Ready
  /\ \/ Return("read", NoValue, FALSE)
     \/ /\ file # NoFile
        /\ Len(file) <= Cardinality(Cells \ cells)
        /\ pc' = "read" /\ before' = Len(chain)
        /\ UNCHANGED <<aux, key, count, pos, answer>>
  /\ UNCHANGED <<ll, memory, file, crashed, chain>>

(* Mutant of ReadStep: the end of the file is noticed one number late. *)
ReadStepTwice ==
  /\ ~crashed
  /\ pc = "read"
  /\ Link(file[IF pos < Len(file) THEN pos + 1 ELSE pos] % Width)
  /\ IF pos = Len(file) THEN Return("read", NoValue, TRUE)
     ELSE pos' = pos + 1 /\ UNCHANGED <<pc, aux, key, count, before, answer>>
  /\ UNCHANGED <<ll, file, crashed>>

(* One turn of its loop: each number goes to the head of the list.  The    *)
(* last scan also consumes the end of the file, and feof ends the loop.    *)
ReadStep ==
  /\ ~crashed
  /\ pc = "read"
  /\ Link(file[pos + 1] % Width)
  /\ IF pos + 1 = Len(file) THEN Return("read", NoValue, TRUE)
     ELSE pos' = pos + 1 /\ UNCHANGED <<pc, aux, key, count, before, answer>>
  /\ UNCHANGED <<ll, file, crashed>>

-----------------------------------------------------------------------------
(* clear_ll removes until the list is empty and frees the sentinel; *ll    *)
(* keeps its address.                                                      *)
ClearCall ==
  /\ Ready
  /\ pc' = "clear"
  /\ UNCHANGED <<ll, memory, file, locals, answer, crashed, chain>>

ClearRemove ==
  /\ pc = "clear"
  /\ next[ll] # Null
  /\ Unlink
  /\ UNCHANGED <<ll, file, pc, locals, answer, crashed>>

ClearEnd ==
  /\ pc = "clear"
  /\ next[ll] = Null
  /\ cells' = cells \ {ll}
  /\ pc' = "cleared"
  /\ answer' = Reply("clear", NoValue, TRUE)
  /\ UNCHANGED <<ll, next, data, blocks, file, locals, crashed, chain>>

(* The next init_ll of the same variable. *)
InitAgain ==
  /\ ~crashed
  /\ pc = "cleared"
  /\ ll' \in Cells \ cells
  /\ next'  = [next EXCEPT ![ll'] = Null]
  /\ data'  = [data EXCEPT ![ll'] = NoValue]
  /\ cells' = cells \cup {ll'}
  /\ pc'    = "idle"
  /\ UNCHANGED <<blocks, file, locals, answer, crashed, chain>>

-----------------------------------------------------------------------------
Next ==
  \/ SearchStep \/ SizeStep \/ WriteStep \/ ReadStep \/ ClearRemove \/ ClearEnd
  \/ \E v \in Values : Insert(v) \/ SearchCall(v)
  \/ OutOfMemory \/ RemoveEmpty \/ Remove
  \/ SizeCall \/ WriteCall \/ ReadCall
  \/ ClearCall \/ InitAgain

Spec == Init /\ [][Next]_vars
-----------------------------------------------------------------------------
Queued == {chain[i] : i \in DOMAIN chain}

(* The links from the sentinel lead through the cells, the last inserted   *)
(* first, and end; what is allocated is the sentinel, these cells and      *)
(* their blocks, each once, and nothing after a clear.                     *)
ListLinked ==
  /\ pc # "cleared" =>
       /\ next[ll] = IF chain = <<>> THEN Null ELSE chain[1]
       /\ \A i \in DOMAIN chain :
            next[chain[i]] = IF i = Len(chain) THEN Null ELSE chain[i + 1]
  /\ cells = Queued \cup (IF pc = "cleared" THEN {} ELSE {ll})
  /\ blocks = Queued
  /\ ll \notin Queued
  /\ \A i, j \in DOMAIN chain : i # j => chain[i] # chain[j]

(* What the list holds; while a file is being read, what it held before. *)
Items == LET kept == IF pc = "read" THEN SubSeq(chain, Len(chain) - before + 1, Len(chain))
                                    ELSE chain
         IN  [i \in 1 .. Len(kept) |-> data[kept[i]]]

(* The list is a last-in first-out sequence.  A save that succeeds has     *)
(* written all of it; one that is refused, as an empty list always is,     *)
(* leaves the file as it was, however old.  Reading puts what the file     *)
(* holds before the rest, reversed, or is refused and changes nothing.     *)
Store == INSTANCE SeqStore
  WITH AtHead <- TRUE, items <- Items,
       file <- IF pc = "write" THEN <<>> ELSE file,
       busy <- CASE pc = "clear" -> "clear" [] pc = "write" -> "save" [] OTHER -> "no"

IsLifo == Store!Spec
=============================================================================
