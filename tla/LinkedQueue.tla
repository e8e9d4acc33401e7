---------------------------- MODULE LinkedQueue -----------------------------
(***************************************************************************)
(* The generic queue (src/modules/ds/GenericQueue.c), which holds the node *)
(* cache of a tree: a sentinel cell, linked cells, and in the sentinel the *)
(* address of the last cell.  Each cell owns a block with a copy of what   *)
(* was pushed.  Cells that were freed may be handed out again.  The        *)
(* functions that export and read a queue have no caller.                  *)
(***************************************************************************)
EXTENDS Integers, Sequences

CONSTANTS
  Cells,    \* addresses of cells (bound: so many can be allocated at once)
  Null,     \* the null pointer
  Values,   \* what can be pushed
  NoValue,  \* no value in an answer
  MemFails  \* TRUE: g_alloc may return NULL

ASSUME CellsAssumption == Null \notin Cells
ASSUME ValuesAssumption == NoValue \notin Values
ASSUME MemFailsAssumption == MemFails \in BOOLEAN

VARIABLES
  gq,      \* *gq, the sentinel
  next,    \* the field next of each cell
  tail,    \* the field tail of the sentinel
  data,    \* the contents of each cell's block
  cells,   \* the cells that are allocated
  blocks,  \* those whose block is allocated
  pc,      \* idle, search, clear; or cleared, until the next init_gq
  aux,     \* the local aux of search_gq
  key,     \* what it looks for
  answer,  \* what the last call returned
  crashed, \* the process has crashed
  chain    \* history: the cells in the queue, in the order they were pushed

memory == <<next, data, cells, blocks>>
vars   == <<gq, tail, memory, pc, aux, key, answer, crashed, chain>>

Reply(op, v, ok) == [op |-> op, value |-> v, ok |-> ok]

Ready == ~crashed /\ pc = "idle"

(* init_gq: a sentinel without a block. *)
Init ==
  /\ gq \in Cells
  /\ next = [c \in Cells |-> Null]
  /\ tail = gq
  /\ data = [c \in Cells |-> NoValue]
  /\ cells = {gq}
  /\ blocks = {}
  /\ pc = "idle"
  /\ aux = Null
  /\ key = NoValue
  /\ answer = Reply("none", NoValue, TRUE)
  /\ crashed = FALSE
  /\ chain = <<>>

-----------------------------------------------------------------------------
(* Mutant of Push: the two assignments to the tail are swapped. *)
PushSwapped(v) ==
  /\ Ready
  /\ \E c \in Cells \ cells :
       /\ next'   = [next EXCEPT ![c] = c]
       /\ tail'   = c
       /\ data'   = [data EXCEPT ![c] = v]
       /\ cells'  = cells \cup {c}
       /\ blocks' = blocks \cup {c}
       /\ chain'  = Append(chain, c)
  /\ answer' = Reply("put", v, TRUE)
  /\ UNCHANGED <<gq, pc, aux, key, crashed>>

(* Mutant of Push: the link of the new cell is not set. *)
PushUnterminated(v) ==
  /\ Ready
  /\ \E c \in Cells \ cells :
       /\ next'   = [next EXCEPT ![tail] = c]
       /\ tail'   = c
       /\ data'   = [data EXCEPT ![c] = v]
       /\ cells'  = cells \cup {c}
       /\ blocks' = blocks \cup {c}
       /\ chain'  = Append(chain, c)
  /\ answer' = Reply("put", v, TRUE)
  /\ UNCHANGED <<gq, pc, aux, key, crashed>>

(* push_gq: a new cell after the last one. *)
Push(v) ==
  /\ Ready
  /\ \E c \in Cells \ cells :
       /\ next'   = [next EXCEPT ![c] = Null, ![tail] = c]
       /\ tail'   = c
       /\ data'   = [data EXCEPT ![c] = v]
       /\ cells'  = cells \cup {c}
       /\ blocks' = blocks \cup {c}
       /\ chain'  = Append(chain, c)
  /\ answer' = Reply("put", v, TRUE)
  /\ UNCHANGED <<gq, pc, aux, key, crashed>>

(* Without memory for a cell or its block, create_generic_queue_entry      *)
(* writes through NULL: in push_gq, or in init_gq after a clear.           *)
OutOfMemory ==
  /\ ~crashed
  /\ pc \in {"idle", "cleared"}
  /\ MemFails
  /\ crashed' = TRUE
  /\ UNCHANGED <<gq, tail, memory, pc, aux, key, answer, chain>>

(* Mutant of Unlink: the tail is left at the cell that is removed. *)
UnlinkKeepsTail ==
  LET c == next[gq] IN
  /\ next'   = [next EXCEPT ![gq] = next[c]]
  /\ cells'  = cells \ {c}
  /\ blocks' = blocks \ {c}
  /\ chain'  = SubSeq(chain, 2, Len(chain))
  /\ UNCHANGED <<tail, data>>

(* Mutant of Unlink: the tail becomes NULL with the last cell. *)
UnlinkNullTail ==
  LET c == next[gq] IN
  /\ next'   = [next EXCEPT ![gq] = next[c]]
  /\ tail'   = IF next[c] = Null THEN Null ELSE tail
  /\ cells'  = cells \ {c}
  /\ blocks' = blocks \ {c}
  /\ chain'  = SubSeq(chain, 2, Len(chain))
  /\ UNCHANGED data

(* Mutant of Unlink: the block is not freed. *)
UnlinkLeaks ==
  LET c == next[gq] IN
  /\ next'   = [next EXCEPT ![gq] = next[c]]
  /\ tail'   = IF next[c] = Null THEN gq ELSE tail
  /\ cells'  = cells \ {c}
  /\ chain'  = SubSeq(chain, 2, Len(chain))
  /\ UNCHANGED <<data, blocks>>

(* pop_gq takes the first cell out and frees it and its block; the tail    *)
(* goes back to the sentinel with the last cell.                           *)
Unlink ==
  LET c == next[gq] IN
  /\ next'   = [next EXCEPT ![gq] = next[c]]
  /\ tail'   = IF next[c] = Null THEN gq ELSE tail
  /\ cells'  = cells \ {c}
  /\ blocks' = blocks \ {c}
  /\ chain'  = SubSeq(chain, 2, Len(chain))
  /\ UNCHANGED data

PopEmpty ==
  /\ Ready
  /\ next[gq] = Null
  /\ answer' = Reply("take", NoValue, FALSE)
  /\ UNCHANGED <<gq, tail, memory, pc, aux, key, crashed, chain>>

Pop ==
  /\ Ready
  /\ next[gq] # Null
  /\ answer' = Reply("take", data[next[gq]], TRUE)
  /\ Unlink
  /\ UNCHANGED <<gq, pc, aux, key, crashed>>

(* top_gq. *)
Top ==
  /\ Ready
  /\ answer' = IF next[gq] = Null THEN Reply("top", NoValue, FALSE)
                                  ELSE Reply("top", data[next[gq]], TRUE)
  /\ UNCHANGED <<gq, tail, memory, pc, aux, key, crashed, chain>>

-----------------------------------------------------------------------------
(* search_gq: an empty queue is an error, answered like a miss. *)
SearchCall(v) ==
  /\ Ready
  /\ IF next[gq] = Null
       THEN /\ answer' = Reply("find", v, FALSE)
            /\ UNCHANGED <<pc, aux, key>>
       ELSE /\ pc' = "search" /\ aux' = next[gq] /\ key' = v
            /\ UNCHANGED answer
  /\ UNCHANGED <<gq, tail, memory, crashed, chain>>

SearchReturns(ok) ==
  /\ answer' = Reply("find", key, ok)
  /\ pc'  = "idle"
  /\ aux' = Null
  /\ key' = NoValue

(* One turn of the loop. *)
SearchStep ==
  /\ pc = "search"
  /\ \/ data[aux] = key /\ SearchReturns(TRUE)
     \/ data[aux] # key /\ next[aux] = Null /\ SearchReturns(FALSE)
     \/ data[aux] # key /\ next[aux] # Null /\ aux' = next[aux]
          /\ UNCHANGED <<pc, key, answer>>
  /\ UNCHANGED <<gq, tail, memory, crashed, chain>>

(* clear_gq pops until the queue is empty and frees the sentinel; *gq      *)
(* keeps its address.                                                      *)
ClearCall ==
  /\ Ready
  /\ pc' = "clear"
  /\ UNCHANGED <<gq, tail, memory, aux, key, answer, crashed, chain>>

ClearPop ==
  /\ pc = "clear"
  /\ next[gq] # Null
  /\ Unlink
  /\ UNCHANGED <<gq, pc, aux, key, answer, crashed>>

ClearEnd ==
  /\ pc = "clear"
  /\ next[gq] = Null
  /\ cells' = cells \ {gq}
  /\ pc' = "cleared"
  /\ answer' = Reply("clear", NoValue, TRUE)
  /\ UNCHANGED <<gq, next, tail, data, blocks, aux, key, crashed, chain>>

(* The next init_gq of the same variable. *)
InitAgain ==
  /\ ~crashed
  /\ pc = "cleared"
  /\ gq' \in Cells \ cells
  /\ next'  = [next EXCEPT ![gq'] = Null]
  /\ data'  = [data EXCEPT ![gq'] = NoValue]
  /\ tail'  = gq'
  /\ cells' = cells \cup {gq'}
  /\ pc'    = "idle"
  /\ UNCHANGED <<blocks, aux, key, answer, crashed, chain>>

-----------------------------------------------------------------------------
Step == SearchStep \/ ClearPop \/ ClearEnd

Next ==
  \/ Step
  \/ \E v \in Values : Push(v) \/ SearchCall(v)
  \/ OutOfMemory \/ PopEmpty \/ Pop \/ Top
  \/ ClearCall \/ InitAgain

Spec     == Init /\ [][Next]_vars
FairSpec == Spec /\ WF_vars(Step)
-----------------------------------------------------------------------------
(* Pointers are cells or NULL, and the tail is never NULL: push_gq writes  *)
(* through it without a test.                                              *)
TypeOK ==
  /\ gq \in Cells /\ tail \in Cells
  /\ next \in [Cells -> Cells \cup {Null}]
  /\ data \in [Cells -> Values \cup {NoValue}]
  /\ cells \in SUBSET Cells /\ blocks \in SUBSET Cells
  /\ pc \in {"idle", "search", "clear", "cleared"}
  /\ aux \in Cells \cup {Null}
  /\ key \in Values \cup {NoValue}
  /\ crashed \in BOOLEAN
  /\ chain \in Seq(Cells)

Queued == {chain[i] : i \in DOMAIN chain}

(* The links from the sentinel lead through the queued cells in the order  *)
(* they were pushed, each once, and end; the tail is where they end.       *)
Linked ==
  pc # "cleared" =>
    /\ next[gq] = IF chain = <<>> THEN Null ELSE chain[1]
    /\ \A i \in DOMAIN chain :
         next[chain[i]] = IF i = Len(chain) THEN Null ELSE chain[i + 1]
    /\ tail = IF chain = <<>> THEN gq ELSE chain[Len(chain)]

(* Memory is neither leaked nor freed twice: what is allocated is the      *)
(* sentinel, the queued cells and their blocks, and nothing after a clear. *)
NothingLost ==
  /\ cells = Queued \cup (IF pc = "cleared" THEN {} ELSE {gq})
  /\ blocks = Queued
  /\ gq \notin Queued
  /\ \A i, j \in DOMAIN chain : i # j => chain[i] # chain[j]

(* What the queue holds. *)
Items == [i \in 1 .. Len(chain) |-> data[chain[i]]]

(* The queue is a first-in first-out sequence of values. *)
Store == INSTANCE SeqStore
  WITH AtHead <- FALSE, Width <- 1, NoFile <- NoValue, file <- NoValue,
       items <- Items, busy <- IF pc = "clear" THEN "clear" ELSE "no"

IsFifo == Store!Spec

(* No search and no clear goes on for ever. *)
QueueCallsReturn == pc \in {"search", "clear"} ~> pc \in {"idle", "cleared"}
=============================================================================
