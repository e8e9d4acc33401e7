------------------------------ MODULE PagePool ------------------------------
(***************************************************************************)
(* The page allocator every other part of Gaveta allocates from            *)
(* (src/modules/memory/mem.c).  A pool is NumPages pages of PAGE_SIZE      *)
(* bytes.  g_allocate hands out the first run of free pages that is long   *)
(* enough and writes an alloc_header at the start of the run; when the     *)
(* free-page counter says the pool is short, second_chance picks pages to  *)
(* take back, whoever holds them.  A byte count is represented by the      *)
(* number of pages the code rounds it up to (line 83).                     *)
(*                                                                         *)
(* The program is sequential, so one call is in progress at a time: pc     *)
(* names the point that call has reached, and each action is the stretch   *)
(* of code up to the next loop test or return.                             *)
(***************************************************************************)
EXTENDS Integers, FiniteSets

CONSTANTS
  NumPages,   \* pt.len, the number of pages of the pool
  Owners,     \* the callers that hold regions, one region each
  NoOwner,    \* nobody: no call is in progress
  MaxGrow,    \* bound: pages a g_reallocate may ask for beyond the old region
  MaxSem,     \* bound: no call starts once memory_s is above this value
  MaxExtra    \* bound: nor once free_page_num exceeds the pool by more than this

ASSUME NumPagesAssumption == NumPages \in Nat \ {0}
ASSUME NoOwnerAssumption  == NoOwner \notin Owners
ASSUME BoundsAssumption   == MaxGrow \in Nat /\ MaxSem \in Nat /\ MaxExtra \in Nat

VARIABLES
  free,           \* pt.pages[i].free
  used,           \* pt.pages[i].used, the reference bit of second_chance
  free_page_num,  \* pt.free_page_num
  header,         \* page_num of the alloc_header last written at a page
  hand,           \* the static int i of second_chance
  memory_s,       \* the value of the semaphore
  region,         \* the region each caller holds, as it was handed out
  pc,             \* where the call in progress is
  caller,         \* who made it
  want,           \* its num_pages
  curr,           \* the local curr of second_chance
  moving,         \* TRUE inside g_reallocate
  fresh,          \* the buffer g_reallocate has obtained
  status,         \* the process: running, pool cleared, exited, corrupt
  replaced        \* history: a page has been taken back since init_memory

pool  == <<free, used, free_page_num, header>>
call  == <<caller, want, curr, moving, fresh>>
vars  == <<pool, hand, memory_s, region, pc, call, status, replaced>>

Pages    == 0 .. NumPages - 1
Region   == [start : Pages, pages : 1 .. NumPages]
NoRegion == [start |-> -1, pages |-> 0]

(* The pages a region covers. *)
PagesOf(r) == r.start .. r.start + r.pages - 1

FreePages == {p \in Pages : free[p]}

(* Mutant of FreeRun: the inner scan stops one page short. *)
FreeRunShort(i, n) == i + n <= NumPages /\ \A j \in i .. i + n - 2 : free[j]

(* A run of n free pages starting at page i. *)
FreeRun(i, n) == i + n <= NumPages /\ \A j \in i .. i + n - 1 : free[j]

(* The pool as the first init_memory of the process leaves it. *)
Init ==
  /\ free          = [p \in Pages |-> TRUE]
  /\ used          = [p \in Pages |-> FALSE]
  /\ free_page_num = NumPages
  /\ header        = [p \in Pages |-> 0]
  /\ memory_s      = 1
  /\ hand     = 0
  /\ region   = [o \in Owners |-> NoRegion]
  /\ pc       = "idle"
  /\ caller   = NoOwner
  /\ want     = 0
  /\ curr     = 0
  /\ moving   = FALSE
  /\ fresh    = NoRegion
  /\ status   = "running"
  /\ replaced = FALSE

-----------------------------------------------------------------------------
(* The semaphore: every lock must find it positive. *)
Lock   == memory_s > 0 /\ memory_s' = memory_s - 1
Unlock == memory_s' = memory_s + 1
Locked == memory_s > 0 /\ UNCHANGED memory_s     \* a whole sem_wait .. sem_post

(* The process can make a call (within the bounds on the two counters). *)
Ready ==
  /\ status = "running"
  /\ pc = "idle"
  /\ memory_s <= MaxSem
  /\ free_page_num <= NumPages + MaxExtra

(* Mutant of LoopTest: >= where the loop has >. *)
LoopTestEager(n, c) == IF n >= c THEN "evict" ELSE "scan"

(* The while of line 93 against the counter c: replace a page or go on. *)
LoopTest(n, c) == IF n > c THEN "evict" ELSE "scan"

(***************************************************************************)
(* g_allocate(n pages), up to the page count test.  n may be one more than *)
(* the pool: the size test of line 85 does not count the header.           *)
(***************************************************************************)
AllocateCall(o, n) ==
  /\ Ready
  /\ region[o] = NoRegion
  /\ caller' = o
  /\ want'   = n
  /\ moving' = FALSE
  /\ pc'     = LoopTest(n, free_page_num)
  /\ UNCHANGED <<pool, hand, memory_s, region, curr, fresh, status, replaced>>

(* second_chance starts its sweep at the hand, holding the semaphore. *)
EnterSweep ==
  /\ pc = "evict"
  /\ Lock
  /\ curr' = hand
  /\ pc'   = "sweep"
  /\ UNCHANGED <<pool, hand, region, caller, want, moving, fresh, status,
                 replaced>>

(* Mutant of SweepTake: the hand does not wrap around. *)
SweepTakeNoWrap ==
  /\ pc = "sweep"
  /\ ~used[curr]
  /\ hand' = curr + 1
  /\ Unlock
  /\ pc'   = "reclaim"
  /\ UNCHANGED <<pool, region, call, status, replaced>>

(* A page not referenced since the last sweep ends it; what is returned,   *)
(* and kept as the hand, is the page AFTER that one.                       *)
SweepTake ==
  /\ pc = "sweep"
  /\ ~used[curr]
  /\ hand' = (curr + 1) % NumPages
  /\ Unlock
  /\ pc'   = "reclaim"
  /\ UNCHANGED <<pool, region, call, status, replaced>>

(* Mutant of SweepSkip: the reference bit is not cleared. *)
SweepSkipKeepsBit ==
  /\ pc = "sweep"
  /\ used[curr]
  /\ curr' = (curr + 1) % NumPages
  /\ IF curr' # hand - 1
       THEN UNCHANGED <<memory_s, hand, pc>>
       ELSE Unlock /\ hand' = (curr' + 1) % NumPages /\ pc' = "full"
  /\ UNCHANGED <<pool, region, caller, want, moving, fresh, status, replaced>>

(* A referenced page loses its bit.  The sweep gives up when curr = i - 1, *)
(* which no page number equals when the hand is at page 0.                 *)
SweepSkip ==
  /\ pc = "sweep"
  /\ used[curr]
  /\ used' = [used EXCEPT ![curr] = FALSE]
  /\ curr' = (curr + 1) % NumPages
  /\ IF curr' # hand - 1
       THEN UNCHANGED <<memory_s, hand, pc>>
       ELSE Unlock /\ hand' = (curr' + 1) % NumPages /\ pc' = "full"
  /\ UNCHANGED <<free, free_page_num, header, region, caller, want, moving,
                 fresh, status, replaced>>

(* Mutant of Reclaim: free_page_num++ is forgotten. *)
ReclaimUncounted ==
  /\ pc = "reclaim"
  /\ Locked
  /\ free'     = [free EXCEPT ![hand] = TRUE]
  /\ replaced' = TRUE
  /\ pc'       = LoopTest(want, free_page_num)
  /\ UNCHANGED <<free_page_num, used, header, hand, region, call, status>>

(* g_allocate marks the page it was given free, whoever holds it. *)
Reclaim ==
  /\ pc = "reclaim"
  /\ Locked
  /\ free'          = [free EXCEPT ![hand] = TRUE]
  /\ free_page_num' = free_page_num + 1
  /\ replaced'      = TRUE
  /\ pc'            = LoopTest(want, free_page_num')
  /\ UNCHANGED <<used, header, hand, region, call, status>>

(* Replacement failed: NULL, after a sem_post that no sem_wait precedes. *)
ReturnNull ==
  /\ pc = "full"
  /\ Unlock
  /\ pc'     = "idle"
  /\ caller' = NoOwner
  /\ moving' = FALSE
  /\ UNCHANGED <<pool, hand, region, want, curr, fresh, status, replaced>>

(* The run of want pages at i, header written at its start. *)
TakeAt(i) ==
  LET r == [start |-> i, pages |-> want] IN
  /\ free' = [p \in Pages |-> IF p \in PagesOf(r) THEN FALSE ELSE free[p]]
  /\ used' = [p \in Pages |-> IF p \in PagesOf(r) THEN TRUE ELSE used[p]]
  /\ header' = [header EXCEPT ![i] = want]
  /\ free_page_num' = free_page_num - want
  /\ \/ /\ moving
        /\ fresh' = r
        /\ pc' = "copy"
        /\ UNCHANGED <<region, caller>>
     \/ /\ ~moving
        /\ region' = [region EXCEPT ![caller] = r]
        /\ pc' = "idle"
        /\ caller' = NoOwner
        /\ UNCHANGED fresh

(* First fit: the lowest run of free pages. *)
TakeRun ==
  /\ pc = "scan"
  /\ Locked
  /\ \E i \in Pages :
       /\ FreeRun(i, want)
       /\ \A k \in 0 .. i - 1 : ~FreeRun(k, want)
       /\ TakeAt(i)
  /\ UNCHANGED <<hand, want, curr, moving, status, replaced>>

(* No run is long enough, whatever the counter says: g_crit_error exits. *)
ExitOnFragmentation ==
  /\ pc = "scan"
  /\ Locked
  /\ \A i \in Pages : ~FreeRun(i, want)
  /\ status' = "exited"
  /\ pc'     = "idle"
  /\ caller' = NoOwner
  /\ moving' = FALSE
  /\ UNCHANGED <<pool, hand, region, want, curr, fresh, replaced>>

-----------------------------------------------------------------------------
(* Regions that callers may be writing to at this moment. *)
InUse(o) == {region[q] : q \in Owners \ {o}} \cup {fresh}

(* o's header lies in the middle of a region someone else writes to. *)
HeaderExposed(o) ==
  \E r \in InUse(o) : r.start # region[o].start /\ region[o].start \in PagesOf(r)

(* The loop of g_deallocate: it trusts the header, not the caller. *)
FreeByHeader(s) ==
  /\ free' = [p \in Pages |->
               IF p \in s .. s + header[s] - 1 THEN TRUE ELSE free[p]]
  /\ free_page_num' = free_page_num + header[s]
  /\ UNCHANGED <<used, header>>

(* g_deallocate of a region the caller holds. *)
Deallocate(o) ==
  /\ Ready
  /\ Locked
  /\ region[o] # NoRegion
  /\ FreeByHeader(region[o].start)
  /\ region' = [region EXCEPT ![o] = NoRegion]
  /\ UNCHANGED <<hand, pc, call, status, replaced>>

(* Mutant of DeallocateNull: the early return keeps the semaphore. *)
DeallocateNullKeepsSem ==
  /\ Ready
  /\ Lock
  /\ UNCHANGED <<pool, hand, region, pc, call, status, replaced>>

(* g_deallocate(NULL): the early return must give the semaphore back. *)
DeallocateNull ==
  /\ Ready
  /\ Locked
  /\ UNCHANGED <<pool, hand, region, pc, call, status, replaced>>

(* g_reallocate, up to its call of g_allocate: old size plus growth g. *)
ReallocateCall(o, g) ==
  /\ Ready
  /\ region[o] # NoRegion
  /\ caller' = o
  /\ moving' = TRUE
  /\ want'   = header[region[o].start] + g
  /\ want' <= NumPages + 1
  /\ pc'     = LoopTest(want', free_page_num)
  /\ UNCHANGED <<pool, hand, memory_s, region, curr, fresh, status, replaced>>

(* The rest of g_reallocate: memcpy, then g_deallocate of the old region. *)
CopyAndFree ==
  /\ pc = "copy"
  /\ Locked
  /\ FreeByHeader(region[caller].start)
  /\ region' = [region EXCEPT ![caller] = fresh]
  /\ fresh'  = NoRegion
  /\ moving' = FALSE
  /\ caller' = NoOwner
  /\ pc'     = "idle"
  /\ UNCHANGED <<hand, want, curr, status, replaced>>

(* A header read after somebody wrote over it: undefined from here on. *)
ReadBadHeader(o) ==
  /\ Ready \/ (pc = "copy" /\ caller = o)
  /\ region[o] # NoRegion
  /\ HeaderExposed(o)
  /\ status' = "corrupt"
  /\ pc'     = "idle"
  /\ caller' = NoOwner
  /\ UNCHANGED <<pool, hand, memory_s, region, want, curr, moving, fresh,
                 replaced>>

(* clear_memory gives the pool back, with whatever it still holds. *)
ClearMemory ==
  /\ Ready
  /\ status' = "cleared"
  /\ region' = [o \in Owners |-> NoRegion]
  /\ UNCHANGED <<pool, hand, memory_s, pc, call, replaced>>

(* A further init_memory.  The static hand of second_chance is not part of *)
(* the pool: it keeps its value from one pool to the next.                 *)
InitMemory ==
  /\ status = "cleared"
  /\ free'          = [p \in Pages |-> TRUE]
  /\ used'          = [p \in Pages |-> FALSE]
  /\ free_page_num' = NumPages
  /\ header'        = [p \in Pages |-> 0]
  /\ memory_s'      = 1
  /\ status'        = "running"
  /\ replaced'      = FALSE
  /\ UNCHANGED <<hand, region, pc, call>>

-----------------------------------------------------------------------------
(* What the call in progress does; the rest is up to the callers. *)
InCall ==
  \/ EnterSweep \/ SweepTake \/ SweepSkip \/ Reclaim \/ ReturnNull
  \/ TakeRun \/ ExitOnFragmentation \/ CopyAndFree

Next ==
  \/ InCall
  \/ \E o \in Owners :
       \/ \E n \in 1 .. NumPages + 1 : AllocateCall(o, n)
       \/ \E g \in 0 .. MaxGrow : ReallocateCall(o, g)
       \/ Deallocate(o)
       \/ ReadBadHeader(o)
  \/ DeallocateNull
  \/ ClearMemory
  \/ InitMemory

Spec     == Init /\ [][Next]_vars
FairSpec == Spec /\ WF_vars(InCall)

-----------------------------------------------------------------------------
(* Every variable has the type its C declaration and use give it; the      *)
(* counters are unsigned, so none may be negative.                         *)
TypeOK ==
  /\ free \in [Pages -> BOOLEAN]
  /\ used \in [Pages -> BOOLEAN]
  /\ free_page_num \in Nat
  /\ header \in [Pages -> 0 .. NumPages]
  /\ hand \in Pages
  /\ memory_s \in Nat
  /\ region \in [Owners -> Region \cup {NoRegion}]
  /\ pc \in {"idle", "evict", "sweep", "reclaim", "full", "scan", "copy"}
  /\ caller \in Owners \cup {NoOwner}
  /\ want \in 0 .. NumPages + 1
  /\ curr \in Pages
  /\ moving \in BOOLEAN
  /\ fresh \in Region \cup {NoRegion}
  /\ status \in {"running", "cleared", "exited", "corrupt"}
  /\ replaced \in BOOLEAN

(* free_page_num is never less than the number of free pages, whatever was *)
(* taken back or freed twice before: the subtraction of line 127 cannot    *)
(* wrap the unsigned counter around.                                       *)
NeverUnderCounts == free_page_num >= Cardinality(FreePages)

(* Regions being used: those the callers hold and the one g_reallocate is  *)
(* about to copy into.                                                     *)
Live == {region[o] : o \in Owners} \cup {fresh}

RegionsDisjoint ==
  /\ \A o, q \in Owners : o # q => PagesOf(region[o]) \cap PagesOf(region[q]) = {}
  /\ \A o \in Owners : PagesOf(region[o]) \cap PagesOf(fresh) = {}
TakenIffLive  == \A p \in Pages : ~free[p] <=> \E r \in Live : p \in PagesOf(r)
HeadersIntact == \A r \in Live \ {NoRegion} : header[r.start] = r.pages
CounterExact  == free_page_num = Cardinality(FreePages)

(* Until the first replacement the allocator keeps its promise: no page    *)
(* belongs to two live regions, a page is marked taken exactly when it     *)
(* belongs to one, every live region still starts with its own header and  *)
(* the counter is exact; so no header is ever read in a ruined state.      *)
ExclusiveUntilReplacement ==
  ~replaced /\ status # "cleared" =>
    RegionsDisjoint /\ TakenIffLive /\ HeadersIntact /\ CounterExact
      /\ status # "corrupt"

(* The counter test of line 93 never starts a replacement, which takes     *)
(* pages from live regions, while the first-fit scan would have succeeded. *)
ReplacementOnlyWhenNeeded ==
  pc \in {"evict", "sweep", "reclaim"} => \A i \in Pages : ~FreeRun(i, want)

(* No sem_wait ever blocks this single thread: outside the sweep, the one  *)
(* stretch that holds the semaphore over several steps, it has been given  *)
(* back on every path, the error paths included.                           *)
SemAvailable == pc # "sweep" => memory_s >= 1

(* Every call returns or ends the process: the sweep, whose end test can   *)
(* miss the starting page, and the replacement loop around it terminate.   *)
CallReturns == (pc # "idle") ~> (pc = "idle")

(* The page that g_allocate logs as "Not used page" and takes back has not *)
(* been referenced since the last sweep (mem.c:95).  The code violates it. *)
ReclaimedPageNotUsed == pc = "reclaim" => ~used[hand]

=============================================================================
