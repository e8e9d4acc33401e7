--------------------------- MODULE PagePoolProofs ---------------------------
(***************************************************************************)
(* Proofs about PagePool, for every pool size, every set of callers and    *)
(* every bound.  The inductive invariant says three things: what the call  *)
(* in progress may assume (CallInv), that no header ever written reaches   *)
(* past the end of the pool (HeaderInv), and that the counter is an upper  *)
(* bound of the free pages (NeverUnderCounts).                             *)
(***************************************************************************)
EXTENDS PagePool, FiniteSetTheorems, TLAPS

CallInv ==
  /\ pc # "idle" => caller \in Owners /\ want \in 1 .. NumPages + 1
  /\ pc # "idle" /\ moving => region[caller] # NoRegion
  /\ pc # "idle" /\ ~moving => region[caller] = NoRegion
  /\ pc = "copy" => moving /\ fresh # NoRegion
  /\ pc # "copy" /\ status # "corrupt" => fresh = NoRegion
  /\ pc # "idle" => status = "running"
  /\ status = "cleared" => \A o \in Owners : region[o] = NoRegion

HeaderInv ==
  /\ \A p \in Pages : p + header[p] <= NumPages
  /\ \A o \in Owners : region[o] # NoRegion => header[region[o].start] >= 1
  /\ fresh # NoRegion => header[fresh.start] >= 1

(* The two halves of TypeOK: Boolean-valued state, and the rest. *)
BoolOK ==
  /\ free \in [Pages -> BOOLEAN]
  /\ used \in [Pages -> BOOLEAN]
  /\ moving \in BOOLEAN
  /\ replaced \in BOOLEAN

DataOK ==
  /\ free_page_num \in Nat
  /\ header \in [Pages -> 0 .. NumPages]
  /\ hand \in Pages
  /\ memory_s \in Nat
  /\ region \in [Owners -> Region \cup {NoRegion}]
  /\ pc \in {"idle", "evict", "sweep", "reclaim", "full", "scan", "copy"}
  /\ caller \in Owners \cup {NoOwner}
  /\ want \in 0 .. NumPages + 1
  /\ curr \in Pages
  /\ fresh \in Region \cup {NoRegion}
  /\ status \in {"running", "cleared", "exited", "corrupt"}

(* The inductive invariant. *)
IInv == TypeOK /\ CallInv /\ HeaderInv /\ NeverUnderCounts

USE DEF Pages, Lock, Unlock, Locked, Ready, LoopTest

-----------------------------------------------------------------------------
(* The next page number, with wrap-around, is a page number. *)
LEMMA NextPage == \A p \in Pages : (p + 1) % NumPages \in Pages
<1> SUFFICES ASSUME NEW p \in Pages PROVE (p + 1) % NumPages \in Pages
  OBVIOUS
<1>1. CASE p + 1 < NumPages
  BY <1>1, NumPagesAssumption
<1>2. CASE p + 1 = NumPages
  BY <1>2, NumPagesAssumption
<1> QED
  BY <1>1, <1>2, NumPagesAssumption

(* What a region is, once and for all: two numbers, and never NoRegion. *)
LEMMA RegionType ==
  /\ NoRegion \notin Region
  /\ \A r \in Region : r.start \in Pages /\ r.pages \in 1 .. NumPages
  /\ \A i \in Pages, n \in 1 .. NumPages :
       /\ [start |-> i, pages |-> n] \in Region
       /\ [start |-> i, pages |-> n].start = i
       /\ [start |-> i, pages |-> n].pages = n
  BY NumPagesAssumption DEF Region, NoRegion

(* The free pages are finitely many. *)
LEMMA FreePagesFinite ==
  /\ IsFiniteSet(FreePages)
  /\ Cardinality(FreePages) \in Nat
<1>1. FreePages \in SUBSET Pages /\ NumPages - 1 \in Int
  BY NumPagesAssumption DEF FreePages
<1>2. IsFiniteSet(0 .. NumPages - 1)
  BY <1>1, FS_Interval
<1> QED
  BY <1>1, <1>2, FS_Subset, FS_CardinalityType

(* A run of n free pages counts n of them, so there are at least n. *)
LEMMA RunCounted ==
  ASSUME NEW i \in Pages, NEW n \in 1 .. NumPages + 1, FreeRun(i, n)
  PROVE  /\ FreePages \cap (i .. i + n - 1) = i .. i + n - 1
         /\ Cardinality(i .. i + n - 1) = n
         /\ n <= Cardinality(FreePages)
<1>1. i .. i + n - 1 \in SUBSET FreePages
  BY NumPagesAssumption DEF FreeRun, FreePages
<1>2. Cardinality(i .. i + n - 1) = n
  BY FS_Interval, NumPagesAssumption
<1> QED
  BY <1>1, <1>2, FreePagesFinite, FS_Subset

(* Handing out a run removes its pages from the free ones. *)
LEMMA TakeCounts ==
  ASSUME NEW i \in Pages, want \in 1 .. NumPages + 1, FreeRun(i, want), TakeAt(i)
  PROVE  Cardinality(FreePages') = Cardinality(FreePages) - want
<1>1. FreePages' = FreePages \ (i .. i + want - 1)
  BY DEF TakeAt, FreePages, PagesOf
<1> DEFINE T == i .. i + want - 1
<1>2. FreePages \cap T = T /\ Cardinality(T) = want
  BY RunCounted
<1> HIDE DEF T
<1>3. Cardinality(FreePages \ T)
        = Cardinality(FreePages) - Cardinality(FreePages \cap T)
  BY FreePagesFinite, FS_Difference
<1> QED
  BY <1>1, <1>2, <1>3 DEF T

(* g_deallocate adds at most as many free pages as it adds to the counter. *)
LEMMA FreeCounts ==
  ASSUME NEW s \in Pages, header[s] \in 0 .. NumPages, s + header[s] <= NumPages,
         free_page_num \in Nat, NeverUnderCounts, FreeByHeader(s)
  PROVE  NeverUnderCounts' /\ free_page_num' \in Nat
<1> DEFINE T == s .. s + header[s] - 1
<1>1. FreePages' = FreePages \cup T
  <2>1. T \subseteq Pages
    BY NumPagesAssumption
  <2>2. free' = [p \in Pages |-> IF p \in T THEN TRUE ELSE free[p]]
    BY DEF FreeByHeader
  <2> HIDE DEF T
  <2> QED
    BY ONLY <2>1, <2>2, Zenon DEF FreePages
<1>2. IsFiniteSet(T) /\ Cardinality(T) = header[s]
  <2> DEFINE e == s + header[s] - 1
  <2>1. s \in Int /\ header[s] \in Nat /\ e \in Int
    BY NumPagesAssumption
  <2>2. (s > e => header[s] = 0) /\ e - s + 1 = header[s]
    BY <2>1
  <2> HIDE DEF e
  <2>3. IsFiniteSet(s .. e) /\ Cardinality(s .. e) = IF s > e THEN 0 ELSE e - s + 1
    BY <2>1, FS_Interval
  <2> QED
    BY <2>2, <2>3 DEF e
<1> HIDE DEF T
<1>3. Cardinality(FreePages \cap T) \in Nat
  BY <1>2, FreePagesFinite, FS_Subset, FS_CardinalityType
<1>4. Cardinality(FreePages \cup T)
        = Cardinality(FreePages) + Cardinality(T) - Cardinality(FreePages \cap T)
  BY <1>2, FreePagesFinite, FS_Union
<1> QED
  BY <1>1, <1>2, <1>3, <1>4, FreePagesFinite DEF NeverUnderCounts, FreeByHeader

(* A step that leaves free and free_page_num alone leaves the count alone. *)
LEMMA SameCounts ==
  ASSUME NeverUnderCounts, UNCHANGED <<free, free_page_num>>
  PROVE  NeverUnderCounts'
  BY DEF NeverUnderCounts, FreePages

(* TypeOK and the facts about the call and the headers hold initially. *)
LEMMA InitOK == Init => IInv
<1> SUFFICES ASSUME Init PROVE IInv
  OBVIOUS
<1>1. BoolOK
  BY ONLY Init DEF Init, BoolOK, Pages
<1>2. DataOK
  BY NumPagesAssumption DEF Init, DataOK
<1>3. CallInv /\ HeaderInv
  BY <1>2, NumPagesAssumption DEF Init, DataOK, CallInv, HeaderInv
<1>4. NeverUnderCounts
  <2>1. FreePages = 0 .. NumPages - 1
    BY DEF Init, FreePages
  <2> QED
    BY <2>1, FS_Interval, NumPagesAssumption DEF Init, NeverUnderCounts
<1> QED
  BY <1>1, <1>2, <1>3, <1>4 DEF IInv, TypeOK, BoolOK, DataOK

(* Every step keeps them. *)
LEMMA StepOK ==
  IInv /\ [Next]_vars => IInv'
<1> SUFFICES ASSUME BoolOK, DataOK, CallInv, HeaderInv, NeverUnderCounts, [Next]_vars
             PROVE  BoolOK' /\ DataOK' /\ CallInv' /\ HeaderInv' /\ NeverUnderCounts'
  BY DEF IInv, TypeOK, BoolOK, DataOK
<1> USE NumPagesAssumption, NoOwnerAssumption, BoundsAssumption, NextPage, RegionType
<1>1. CASE EnterSweep
  <2>1. BoolOK'
    BY ONLY BoolOK, <1>1 DEF EnterSweep, pool, BoolOK, Pages
  <2>2. DataOK'
    BY <1>1 DEF EnterSweep, pool, DataOK, CallInv
  <2>3. CallInv'
    BY <1>1 DEF EnterSweep, pool, DataOK, CallInv
  <2>4. HeaderInv'
    BY <1>1 DEF EnterSweep, pool, DataOK, HeaderInv
  <2>5. NeverUnderCounts'
    BY <1>1, SameCounts DEF EnterSweep, pool
  <2> QED
    BY <2>1, <2>2, <2>3, <2>4, <2>5
<1>2. CASE SweepTake
  <2>1. BoolOK'
    BY ONLY BoolOK, <1>2 DEF SweepTake, pool, call, BoolOK, Pages
  <2>2. DataOK'
    BY <1>2 DEF SweepTake, pool, call, DataOK, CallInv
  <2>3. CallInv'
    BY <1>2 DEF SweepTake, pool, call, DataOK, CallInv
  <2>4. HeaderInv'
    BY <1>2 DEF SweepTake, pool, call, DataOK, HeaderInv
  <2>5. NeverUnderCounts'
    BY <1>2, SameCounts DEF SweepTake, pool
  <2> QED
    BY <2>1, <2>2, <2>3, <2>4, <2>5
<1>3. CASE SweepSkip
  <2>1. BoolOK'
    BY ONLY BoolOK, <1>3 DEF SweepSkip, BoolOK, Pages
  <2>2. DataOK'
    BY <1>3 DEF SweepSkip, DataOK, CallInv
  <2>3. CallInv'
    BY <1>3 DEF SweepSkip, DataOK, CallInv
  <2>4. HeaderInv'
    BY <1>3 DEF SweepSkip, DataOK, HeaderInv
  <2>5. NeverUnderCounts'
    BY <1>3, SameCounts DEF SweepSkip
  <2> QED
    BY <2>1, <2>2, <2>3, <2>4, <2>5
<1>4. CASE Reclaim
  <2>1. BoolOK'
    BY ONLY BoolOK, <1>4 DEF Reclaim, call, BoolOK, Pages
  <2>2. DataOK'
    BY <1>4 DEF Reclaim, call, DataOK, CallInv
  <2>3. CallInv'
    BY <1>4 DEF Reclaim, call, DataOK, CallInv
  <2>4. HeaderInv'
    BY <1>4 DEF Reclaim, call, DataOK, HeaderInv
  <2>5. NeverUnderCounts'
    <3>1. FreePages' = FreePages \cup {hand}
      BY <1>4 DEF Reclaim, BoolOK, DataOK, FreePages
    <3>2. QED
      <4>1. Cardinality(FreePages \cup {hand})
              = IF hand \in FreePages THEN Cardinality(FreePages)
                                      ELSE Cardinality(FreePages) + 1
        BY FreePagesFinite, FS_AddElement
      <4>2. free_page_num' = free_page_num + 1
        BY <1>4 DEF Reclaim
      <4> QED
        BY <3>1, <4>1, <4>2, FreePagesFinite DEF DataOK, NeverUnderCounts
  <2> QED
    BY <2>1, <2>2, <2>3, <2>4, <2>5
<1>5. CASE ReturnNull
  <2>1. BoolOK'
    BY ONLY BoolOK, <1>5 DEF ReturnNull, pool, BoolOK, Pages
  <2>2. DataOK'
    BY <1>5 DEF ReturnNull, pool, DataOK, CallInv
  <2>3. CallInv'
    BY <1>5 DEF ReturnNull, pool, DataOK, CallInv
  <2>4. HeaderInv'
    BY <1>5 DEF ReturnNull, pool, DataOK, HeaderInv
  <2>5. NeverUnderCounts'
    BY <1>5, SameCounts DEF ReturnNull, pool
  <2> QED
    BY <2>1, <2>2, <2>3, <2>4, <2>5
<1>6. CASE TakeRun
  <2>1. BoolOK'
    BY ONLY BoolOK, <1>6 DEF TakeRun, TakeAt, BoolOK, Pages
  <2>2. PICK i \in Pages : FreeRun(i, want) /\ TakeAt(i)
    BY <1>6 DEF TakeRun
  <2>3. want \in 1 .. NumPages /\ i + want <= NumPages /\ caller \in Owners
    BY <1>6, <2>2 DEF TakeRun, FreeRun, DataOK, CallInv
  <2> DEFINE r == [start |-> i, pages |-> want]
  <2>4. r \in Region /\ r # NoRegion /\ r.start = i
    BY <2>3
  <2> HIDE DEF r
  <2>5. /\ header' = [header EXCEPT ![i] = want]
        /\ \/ /\ moving /\ fresh' = r /\ pc' = "copy"
              /\ UNCHANGED <<region, caller>>
           \/ /\ ~moving /\ region' = [region EXCEPT ![caller] = r]
              /\ pc' = "idle" /\ caller' = NoOwner /\ UNCHANGED fresh
        /\ UNCHANGED <<want, moving, status>>
    BY <1>6, <2>2 DEF TakeRun, TakeAt, r
  <2>6. free_page_num' \in Nat /\ NeverUnderCounts'
    <3>1. Cardinality(FreePages') = Cardinality(FreePages) - want
      BY <2>2, <2>3, TakeCounts
    <3>2. want <= Cardinality(FreePages)
      BY <2>2, <2>3, RunCounted
    <3>3. free_page_num' = free_page_num - want
      BY <2>2 DEF TakeAt
    <3> QED
      BY <2>3, <3>1, <3>2, <3>3, FreePagesFinite DEF DataOK, NeverUnderCounts
  <2>10. UNCHANGED <<hand, curr, memory_s>>
    BY <1>6 DEF TakeRun
  <2>7. DataOK'
    <3>1. header' \in [Pages -> 0 .. NumPages]
      BY <2>3, <2>5 DEF DataOK
    <3>2. region' \in [Owners -> Region \cup {NoRegion}]
      BY <2>3, <2>4, <2>5 DEF DataOK
    <3>3. fresh' \in Region \cup {NoRegion}
      BY <2>4, <2>5 DEF DataOK
    <3> QED
      BY <3>1, <3>2, <3>3, <2>5, <2>6, <2>10 DEF DataOK
  <2>8. CallInv'
    BY <1>6, <2>3, <2>4, <2>5 DEF TakeRun, DataOK, CallInv
  <2>9. HeaderInv'
    <3>1. \A p \in Pages : header'[p] = IF p = i THEN want ELSE header[p]
      BY <2>5 DEF DataOK
    <3>2. (\A p \in Pages : p + header[p] <= NumPages)'
      BY <3>1, <2>3 DEF HeaderInv
    <3>3. \A q \in Region : header[q.start] >= 1 => header'[q.start] >= 1
      BY <3>1, <2>3
    <3>4. header'[r.start] >= 1
      BY <3>1, <2>3, <2>4
    <3>5. CASE moving
      BY <3>5, <3>2, <3>3, <3>4, <2>5 DEF DataOK, HeaderInv
    <3>6. CASE ~moving
      <4>1. ASSUME NEW q \in Owners, region'[q] # NoRegion
            PROVE  header'[region'[q].start] >= 1
        BY <3>6, <4>1, <3>3, <3>4, <2>5, <2>3 DEF DataOK, HeaderInv
      <4> QED
        BY <4>1, <3>6, <3>2, <3>3, <2>5 DEF DataOK, HeaderInv
    <3> QED
      BY <3>5, <3>6
  <2> QED
    BY <2>1, <2>6, <2>7, <2>8, <2>9
<1>7. CASE ExitOnFragmentation
  <2>1. BoolOK'
    BY ONLY BoolOK, <1>7 DEF ExitOnFragmentation, pool, BoolOK, Pages
  <2>2. DataOK'
    BY <1>7 DEF ExitOnFragmentation, pool, DataOK, CallInv
  <2>3. CallInv'
    BY <1>7 DEF ExitOnFragmentation, pool, DataOK, CallInv
  <2>4. HeaderInv'
    BY <1>7 DEF ExitOnFragmentation, pool, DataOK, HeaderInv
  <2>5. NeverUnderCounts'
    BY <1>7, SameCounts DEF ExitOnFragmentation, pool
  <2> QED
    BY <2>1, <2>2, <2>3, <2>4, <2>5
<1>8. CASE CopyAndFree
  <2>1. BoolOK'
    BY ONLY BoolOK, <1>8 DEF CopyAndFree, FreeByHeader, BoolOK, Pages
  <2>2. DataOK'
    BY <1>8 DEF CopyAndFree, FreeByHeader, DataOK, CallInv
  <2>3. CallInv'
    BY <1>8 DEF CopyAndFree, FreeByHeader, DataOK, CallInv
  <2>4. HeaderInv'
    BY <1>8 DEF CopyAndFree, FreeByHeader, DataOK, HeaderInv, CallInv
  <2>5. NeverUnderCounts'
    <3>1. region[caller].start \in Pages
      BY <1>8 DEF CopyAndFree, DataOK, CallInv
    <3> QED
      BY <1>8, <3>1, FreeCounts DEF CopyAndFree, DataOK, HeaderInv
  <2> QED
    BY <2>1, <2>2, <2>3, <2>4, <2>5
<1>9. ASSUME NEW o \in Owners, NEW n \in 1 .. NumPages + 1, AllocateCall(o, n)
      PROVE  BoolOK' /\ DataOK' /\ CallInv' /\ HeaderInv' /\ NeverUnderCounts'
  <2>1. BoolOK'
    BY ONLY BoolOK, <1>9 DEF AllocateCall, pool, BoolOK, Pages
  <2>2. DataOK'
    <3>1. /\ UNCHANGED <<free_page_num, header, hand, memory_s, region, curr, fresh, status>>
          /\ caller' = o /\ want' = n /\ pc' \in {"evict", "scan"}
      BY <1>9 DEF AllocateCall, pool
    <3> QED
      BY <3>1 DEF DataOK
  <2>3. CallInv'
    <3>1. /\ pc = "idle" /\ status = "running" /\ UNCHANGED <<region, fresh, status>>
          /\ caller' = o /\ region[o] = NoRegion /\ want' = n /\ ~moving'
          /\ pc' \in {"evict", "scan"}
      BY <1>9 DEF AllocateCall, pool
    <3> QED
      BY <3>1 DEF CallInv
  <2>4. HeaderInv'
    BY <1>9 DEF AllocateCall, pool, DataOK, HeaderInv
  <2>5. NeverUnderCounts'
    BY <1>9, SameCounts DEF AllocateCall, pool
  <2> QED
    BY <2>1, <2>2, <2>3, <2>4, <2>5
<1>10. ASSUME NEW o \in Owners, NEW g \in 0 .. MaxGrow, ReallocateCall(o, g)
      PROVE  BoolOK' /\ DataOK' /\ CallInv' /\ HeaderInv' /\ NeverUnderCounts'
  <2>1. BoolOK'
    BY ONLY BoolOK, <1>10 DEF ReallocateCall, pool, BoolOK, Pages
  <2>6. /\ pc = "idle" /\ status = "running" /\ pc' \in {"evict", "scan"}
        /\ UNCHANGED <<free_page_num, header, hand, memory_s, region, curr, fresh, status>>
        /\ caller' = o /\ region[o] # NoRegion /\ moving'
        /\ want' = header[region[o].start] + g /\ want' <= NumPages + 1
    BY <1>10 DEF ReallocateCall, pool
  <2>7. want' \in 1 .. NumPages + 1
    <3>1. region[o].start \in Pages
      BY <2>6 DEF DataOK
    <3>2. header[region[o].start] \in 1 .. NumPages
      BY <2>6, <3>1 DEF DataOK, HeaderInv
    <3> QED
      BY <2>6, <3>2
  <2>2. DataOK'
    BY <2>6, <2>7 DEF DataOK
  <2>3. CallInv'
    BY <2>6, <2>7 DEF CallInv
  <2>4. HeaderInv'
    BY <1>10 DEF ReallocateCall, pool, DataOK, HeaderInv
  <2>5. NeverUnderCounts'
    BY <1>10, SameCounts DEF ReallocateCall, pool
  <2> QED
    BY <2>1, <2>2, <2>3, <2>4, <2>5
<1>11. ASSUME NEW o \in Owners, Deallocate(o)
      PROVE  BoolOK' /\ DataOK' /\ CallInv' /\ HeaderInv' /\ NeverUnderCounts'
  <2>1. BoolOK'
    BY ONLY BoolOK, <1>11 DEF Deallocate, FreeByHeader, call, BoolOK, Pages
  <2>2. DataOK'
    BY <1>11 DEF Deallocate, FreeByHeader, call, DataOK
  <2>3. CallInv'
    <3>1. pc' = "idle" /\ status' = "running" /\ fresh' = NoRegion
      BY <1>11 DEF Deallocate, call, CallInv
    <3> QED
      BY ONLY <3>1, Zenon DEF CallInv
  <2>4. HeaderInv'
    BY <1>11 DEF Deallocate, FreeByHeader, call, DataOK, HeaderInv
  <2>5. NeverUnderCounts'
    <3>1. region[o].start \in Pages
      BY <1>11 DEF Deallocate, DataOK
    <3> QED
      BY <1>11, <3>1, FreeCounts DEF Deallocate, DataOK, HeaderInv
  <2> QED
    BY <2>1, <2>2, <2>3, <2>4, <2>5
<1>12. ASSUME NEW o \in Owners, ReadBadHeader(o)
      PROVE  BoolOK' /\ DataOK' /\ CallInv' /\ HeaderInv' /\ NeverUnderCounts'
  <2>1. BoolOK'
    BY ONLY BoolOK, <1>12 DEF ReadBadHeader, pool, BoolOK, Pages
  <2>2. DataOK'
    BY <1>12 DEF ReadBadHeader, pool, DataOK, CallInv
  <2>3. CallInv'
    BY <1>12 DEF ReadBadHeader, pool, DataOK, CallInv
  <2>4. HeaderInv'
    BY <1>12 DEF ReadBadHeader, pool, DataOK, HeaderInv
  <2>5. NeverUnderCounts'
    BY <1>12, SameCounts DEF ReadBadHeader, pool
  <2> QED
    BY <2>1, <2>2, <2>3, <2>4, <2>5
<1>13. CASE DeallocateNull
  <2>1. BoolOK'
    BY ONLY BoolOK, <1>13 DEF DeallocateNull, pool, call, BoolOK, Pages
  <2>2. DataOK'
    BY <1>13 DEF DeallocateNull, pool, call, DataOK, CallInv
  <2>3. CallInv'
    BY <1>13 DEF DeallocateNull, pool, call, DataOK, CallInv
  <2>4. HeaderInv'
    BY <1>13 DEF DeallocateNull, pool, call, DataOK, HeaderInv
  <2>5. NeverUnderCounts'
    BY <1>13, SameCounts DEF DeallocateNull, pool
  <2> QED
    BY <2>1, <2>2, <2>3, <2>4, <2>5
<1>14. CASE ClearMemory
  <2>1. BoolOK'
    BY ONLY BoolOK, <1>14 DEF ClearMemory, pool, call, BoolOK, Pages
  <2>2. DataOK'
    BY <1>14 DEF ClearMemory, pool, call, DataOK, CallInv
  <2>3. CallInv'
    BY <1>14 DEF ClearMemory, pool, call, DataOK, CallInv
  <2>4. HeaderInv'
    BY <1>14 DEF ClearMemory, pool, call, DataOK, HeaderInv
  <2>5. NeverUnderCounts'
    BY <1>14, SameCounts DEF ClearMemory, pool
  <2> QED
    BY <2>1, <2>2, <2>3, <2>4, <2>5
<1>15. CASE InitMemory
  <2>1. BoolOK'
    BY ONLY BoolOK, <1>15 DEF InitMemory, call, BoolOK, Pages
  <2>2. DataOK'
    BY <1>15 DEF InitMemory, call, DataOK, CallInv
  <2>3. CallInv'
    BY <1>15 DEF InitMemory, call, DataOK, CallInv
  <2>4. HeaderInv'
    BY <1>15 DEF InitMemory, call, DataOK, HeaderInv, CallInv
  <2>5. NeverUnderCounts'
    <3>1. FreePages' = 0 .. NumPages - 1
      BY <1>15 DEF InitMemory, FreePages
    <3> QED
      BY <1>15, <3>1, FS_Interval DEF InitMemory, NeverUnderCounts
  <2> QED
    BY <2>1, <2>2, <2>3, <2>4, <2>5
<1>16. CASE UNCHANGED vars
  <2>1. BoolOK'
    BY ONLY BoolOK, <1>16 DEF vars, pool, call, BoolOK, Pages
  <2>2. DataOK'
    BY <1>16 DEF vars, pool, call, DataOK, CallInv
  <2>3. CallInv'
    BY <1>16 DEF vars, pool, call, DataOK, CallInv
  <2>4. HeaderInv'
    BY <1>16 DEF vars, pool, call, DataOK, HeaderInv
  <2>5. NeverUnderCounts'
    BY <1>16, SameCounts DEF vars, pool
  <2> QED
    BY <2>1, <2>2, <2>3, <2>4, <2>5
<1> QED
  BY <1>1, <1>2, <1>3, <1>4, <1>5, <1>6, <1>7, <1>8, <1>9, <1>10, <1>11,
     <1>12, <1>13, <1>14, <1>15, <1>16 DEF Next, InCall, IInv, TypeOK, BoolOK, DataOK

(* The inductive invariant holds in every reachable state. *)
LEMMA Invariance == Spec => []IInv
  BY InitOK, StepOK, PTL DEF Spec

(* Every reachable state of the allocator is well typed. *)
THEOREM TypeCorrect == Spec => []TypeOK
<1>1. IInv => TypeOK
  BY DEF IInv
<1> QED
  BY <1>1, Invariance, PTL

(* g_allocate never wraps the unsigned free_page_num below zero, however   *)
(* often pages were replaced under their holders and freed by both.        *)
THEOREM CounterNeverWraps == Spec => []NeverUnderCounts
<1>1. IInv => NeverUnderCounts
  BY DEF IInv
<1> QED
  BY <1>1, Invariance, PTL

-----------------------------------------------------------------------------
(* While a replacement is under way the counter is short. *)
ShortInv == pc \in {"evict", "sweep", "reclaim"} => want > free_page_num

(* ShortInv is inductive relative to IInv. *)
LEMMA ShortStep == IInv /\ ShortInv /\ [Next]_vars => ShortInv'
<1> SUFFICES ASSUME IInv, ShortInv, [Next]_vars PROVE ShortInv'
  OBVIOUS
<1> USE DEF ShortInv
<1>1. CASE InCall
  BY <1>1 DEF InCall, EnterSweep, SweepTake, SweepSkip, Reclaim, ReturnNull,
     TakeRun, TakeAt, ExitOnFragmentation, CopyAndFree, pool, call
<1>2. ASSUME NEW o \in Owners, NEW n \in 1 .. NumPages + 1, AllocateCall(o, n)
      PROVE  ShortInv'
  BY <1>2 DEF AllocateCall, pool
<1>3. ASSUME NEW o \in Owners, NEW g \in 0 .. MaxGrow, ReallocateCall(o, g)
      PROVE  ShortInv'
  BY <1>3 DEF ReallocateCall, pool
<1>4. ASSUME NEW o \in Owners, Deallocate(o) \/ ReadBadHeader(o) PROVE ShortInv'
  BY <1>4 DEF Deallocate, ReadBadHeader
<1>5. CASE DeallocateNull \/ ClearMemory \/ InitMemory
  <2>1. pc' = "idle"
    BY <1>5 DEF DeallocateNull, ClearMemory, InitMemory, call, IInv, CallInv
  <2> QED
    BY <2>1
<1>6. CASE UNCHANGED vars
  BY <1>6 DEF vars, pool, call
<1> QED
  BY <1>1, <1>2, <1>3, <1>4, <1>5, <1>6 DEF Next

(* No live page is taken back while the first-fit scan would succeed.      *)
THEOREM ReplacementIsNeeded == Spec => []ReplacementOnlyWhenNeeded
<1>1. Init => ShortInv
  BY DEF Init, ShortInv
<1>2. IInv /\ ShortInv => ReplacementOnlyWhenNeeded
  <2> SUFFICES ASSUME IInv, ShortInv, pc \in {"evict", "sweep", "reclaim"},
                      NEW i \in Pages, FreeRun(i, want)
               PROVE  FALSE
    BY DEF ReplacementOnlyWhenNeeded
  <2>1. want \in 1 .. NumPages + 1 /\ free_page_num \in Nat
    BY DEF IInv, CallInv, TypeOK
  <2>2. want <= Cardinality(FreePages)
    BY <2>1, RunCounted
  <2> QED
    BY <2>1, <2>2, FreePagesFinite, NumPagesAssumption
       DEF IInv, NeverUnderCounts, ShortInv
<1> QED
  BY <1>1, <1>2, ShortStep, Invariance, PTL DEF Spec

-----------------------------------------------------------------------------
Exclusive == RegionsDisjoint /\ TakenIffLive /\ HeadersIntact /\ CounterExact

(* No page is covered by NoRegion; a region covers its header page, and    *)
(* the pages it covers are pages.                                          *)
LEMMA RegionPages ==
  /\ PagesOf(NoRegion) = {}
  /\ \A r \in Region : r.start \in PagesOf(r)
  BY RegionType DEF PagesOf, NoRegion

(* A step that touches neither the page table, the headers nor the regions *)
(* keeps them exclusive.                                                   *)
LEMMA SameRegions ==
  ASSUME Exclusive, UNCHANGED <<free, free_page_num, header, region, fresh>>
  PROVE  Exclusive'
  BY DEF Exclusive, RegionsDisjoint, TakenIffLive, HeadersIntact, CounterExact,
     Live, FreePages, PagesOf

(* A run of free pages meets no live region. *)
LEMMA FreeRunUnowned ==
  ASSUME Exclusive, NEW i \in Pages, NEW n \in 1 .. NumPages + 1, FreeRun(i, n),
         NEW r \in Live
  PROVE  PagesOf(r) \cap (i .. i + n - 1) = {}
<1>1. \A p \in i .. i + n - 1 : p \in Pages /\ free[p]
  BY NumPagesAssumption DEF FreeRun
<1> QED
  BY <1>1 DEF Exclusive, TakenIffLive

(* g_allocate of a run of free pages keeps the regions exclusive.          *)
LEMMA TakeExclusive ==
  ASSUME IInv, Exclusive, TakeRun PROVE Exclusive'
<1> USE NumPagesAssumption
<1>1. PICK i \in Pages : FreeRun(i, want) /\ TakeAt(i)
  BY DEF TakeRun
<1>2. /\ want \in 1 .. NumPages /\ i + want <= NumPages
      /\ caller \in Owners /\ fresh = NoRegion
      /\ ~moving => region[caller] = NoRegion
  BY <1>1 DEF TakeRun, FreeRun, IInv, CallInv, TypeOK
<1> DEFINE r == [start |-> i, pages |-> want]
<1>3. r \in Region /\ r # NoRegion /\ r.start = i /\ r.pages = want
  BY <1>2, RegionType
<1>4. PagesOf(r) = i .. i + want - 1
  BY <1>3 DEF PagesOf
<1>5. /\ free' = [p \in Pages |-> IF p \in PagesOf(r) THEN FALSE ELSE free[p]]
      /\ header' = [header EXCEPT ![i] = want]
      /\ free_page_num' = free_page_num - want
      /\ \/ moving /\ fresh' = r /\ UNCHANGED region
         \/ ~moving /\ region' = [region EXCEPT ![caller] = r] /\ UNCHANGED fresh
  BY <1>1 DEF TakeAt
<1> HIDE DEF r
<1>6. \A q \in Live : PagesOf(q) \cap PagesOf(r) = {}
  BY <1>1, <1>2, <1>4, FreeRunUnowned
<1>7. \A q \in Owners : region[q] \in Live
  BY DEF Live
<1>8. region \in [Owners -> Region \cup {NoRegion}] /\ header \in [Pages -> 0 .. NumPages]
  BY DEF IInv, TypeOK
<1>9. RegionsDisjoint'
  <2> USE DEF Exclusive, RegionsDisjoint
  <2> HIDE DEF Pages
  <2>1. CASE fresh' = r /\ UNCHANGED region
    BY <2>1, <1>2, <1>6, <1>7, RegionPages DEF PagesOf
  <2>2. CASE region' = [region EXCEPT ![caller] = r] /\ UNCHANGED fresh
    <3>1. \A q \in Owners : region'[q] = IF q = caller THEN r ELSE region[q]
      BY <2>2, <1>8
    <3>2. ASSUME NEW p \in Owners, NEW q \in Owners, p # q
          PROVE  PagesOf(region'[p]) \cap PagesOf(region'[q]) = {}
      BY <3>1, <3>2, <1>6, <1>7
    <3>3. ASSUME NEW q \in Owners
          PROVE  PagesOf(region'[q]) \cap PagesOf(fresh') = {}
      BY <2>2, <1>2, RegionPages
    <3> QED
      BY <3>2, <3>3 DEF PagesOf
  <2> QED
    BY <2>1, <2>2, <1>5
<1>10. Live' \subseteq Live \cup {r} /\ Live \subseteq Live' \cup {NoRegion}
       /\ r \in Live'
  BY <1>2, <1>5, <1>8 DEF Live
<1>11. TakenIffLive'
  <2>1. PagesOf(r) \subseteq Pages
    BY <1>2, <1>4
  <2>2. TakenIffLive
    BY DEF Exclusive
  <2> QED
    BY ONLY <2>1, <2>2, <1>5, <1>6, <1>10, RegionPages, Zenon DEF TakenIffLive
<1>12. HeadersIntact'
  <2> SUFFICES ASSUME NEW q \in Live' \ {NoRegion} PROVE header'[q.start] = q.pages
    BY DEF HeadersIntact
  <2>1. CASE q = r
    BY <2>1, <1>3, <1>5, <1>8
  <2>2. CASE q # r
    <3>1. q \in Live /\ q \in Region
      BY <2>2, <1>2, <1>10, <1>8 DEF Live
    <3>2. q.start # i
      BY <3>1, <1>3, <1>6, RegionPages
    <3> QED
      BY <3>1, <3>2, <1>5, <1>8, RegionType DEF Exclusive, HeadersIntact
  <2> QED
    BY <2>1, <2>2
<1>13. CounterExact'
  BY <1>1, <1>2, <1>5, TakeCounts DEF Exclusive, CounterExact
<1> QED
  BY <1>9, <1>11, <1>12, <1>13 DEF Exclusive

(* g_deallocate of a live region, alone or as the end of g_reallocate,     *)
(* keeps the regions exclusive.                                            *)
LEMMA FreeExclusive ==
  ASSUME IInv, Exclusive, NEW o \in Owners, region[o] # NoRegion,
         FreeByHeader(region[o].start),
         \/ region' = [region EXCEPT ![o] = NoRegion] /\ fresh' = fresh
         \/ region' = [region EXCEPT ![o] = fresh] /\ fresh' = NoRegion
  PROVE  Exclusive'
<1> USE NumPagesAssumption
<1> DEFINE x == region[o]
           T == PagesOf(x)
<1>1. /\ region \in [Owners -> Region \cup {NoRegion}]
      /\ header \in [Pages -> 0 .. NumPages]
      /\ free_page_num \in Nat
      /\ fresh \in Region \cup {NoRegion}
      /\ \A p \in Pages : p + header[p] <= NumPages
  BY DEF IInv, TypeOK, HeaderInv
<1>2. x \in Region /\ x.start \in Pages /\ x.pages \in 1 .. NumPages
      /\ header[x.start] = x.pages
  BY <1>1, RegionType DEF Live, Exclusive, HeadersIntact
<1>3. T = x.start .. x.start + header[x.start] - 1 /\ T \subseteq Pages
  BY <1>1, <1>2 DEF PagesOf
<1>4. /\ free' = [p \in Pages |-> IF p \in T THEN TRUE ELSE free[p]]
      /\ free_page_num' = free_page_num + x.pages
      /\ UNCHANGED header
  BY <1>2, <1>3 DEF FreeByHeader
<1>5. \A q \in Owners : q # o => PagesOf(region[q]) \cap T = {}
  BY DEF Exclusive, RegionsDisjoint
<1>6. PagesOf(fresh) \cap T = {}
  BY DEF Exclusive, RegionsDisjoint
<1>7. \A q \in Owners : q # o => region'[q] = region[q]
  BY <1>1
<1>8. region'[o] \in {NoRegion, fresh} /\ fresh' \in {NoRegion, fresh}
      /\ (region'[o] = NoRegion \/ fresh' = NoRegion)
  BY <1>1
<1>9. NoRegion \notin Region /\ PagesOf(NoRegion) = {}
  BY RegionType, RegionPages
<1> HIDE DEF T
<1>10. RegionsDisjoint'
  <2>1. ASSUME NEW p \in Owners, NEW q \in Owners, p # q
        PROVE  PagesOf(region'[p]) \cap PagesOf(region'[q]) = {}
    BY <1>7, <1>8, <1>9, <2>1 DEF Exclusive, RegionsDisjoint
  <2>2. ASSUME NEW q \in Owners
        PROVE  PagesOf(region'[q]) \cap PagesOf(fresh') = {}
    BY <1>7, <1>8, <1>9, <2>2 DEF Exclusive, RegionsDisjoint
  <2> QED
    BY <2>1, <2>2 DEF RegionsDisjoint, PagesOf
<1>11. \A r \in Live' : r = NoRegion \/ (r \in Live /\ PagesOf(r) \cap T = {})
  BY <1>5, <1>6, <1>7, <1>8 DEF Live
<1>12. \A r \in Live : r = x \/ r = NoRegion \/ r \in Live'
  BY <1>1, <1>7, <1>8 DEF Live
<1>13. TakenIffLive'
  <2>1. TakenIffLive /\ PagesOf(x) = T
    BY DEF Exclusive, T
  <2>2. ASSUME NEW p \in Pages PROVE ~free'[p] <=> ~free[p] /\ p \notin T
    BY <1>4
  <2>3. ASSUME NEW p \in Pages
        PROVE  (\E r \in Live' : p \in PagesOf(r))
                 <=> (\E r \in Live : p \in PagesOf(r)) /\ p \notin T
    <3>1. ASSUME NEW r \in Live', p \in PagesOf(r)
          PROVE  r \in Live /\ p \notin T
      BY <3>1, <1>9, <1>11
    <3>2. ASSUME NEW r \in Live, p \in PagesOf(r), p \notin T PROVE r \in Live'
      BY <3>2, <2>1, <1>9, <1>12
    <3> QED
      BY <3>1, <3>2
  <2> QED
    BY ONLY <2>1, <2>2, <2>3, Zenon DEF TakenIffLive, PagesOf
<1>14. HeadersIntact'
  BY <1>4, <1>11 DEF Exclusive, HeadersIntact
<1>15. CounterExact'
  <2>1. FreePages \cap T = {}
    BY <1>3 DEF Exclusive, TakenIffLive, Live, FreePages, T
  <2>2. FreePages' = FreePages \cup T
    BY ONLY <1>3, <1>4, Zenon DEF FreePages
  <2>3. IsFiniteSet(T) /\ Cardinality(T) = x.pages
    <3> DEFINE e == x.start + x.pages - 1
    <3>1. x.start \in Int /\ e \in Int /\ x.start <= e /\ e - x.start + 1 = x.pages
      BY <1>2
    <3>2. T = x.start .. e
      BY <1>2, <1>3
    <3> HIDE DEF e
    <3> QED
      BY <3>1, <3>2, FS_Interval
  <2>4. Cardinality(FreePages \cup T)
          = Cardinality(FreePages) + Cardinality(T) - Cardinality({})
    BY <2>1, <2>3, FreePagesFinite, FS_Union
  <2> QED
    BY <2>2, <2>3, <2>4, <1>2, <1>4, FreePagesFinite, FS_EmptySet
       DEF Exclusive, CounterExact
<1> QED
  BY <1>10, <1>13, <1>14, <1>15 DEF Exclusive

(* A header is never exposed while the regions are exclusive. *)
LEMMA NoHeaderExposed ==
  ASSUME IInv, Exclusive, NEW o \in Owners, region[o] # NoRegion
  PROVE  ~HeaderExposed(o)
<1>1. region[o].start \in PagesOf(region[o])
  BY RegionPages DEF IInv, TypeOK
<1> QED
  BY <1>1 DEF HeaderExposed, InUse, Exclusive, RegionsDisjoint

(* Exclusiveness is inductive relative to IInv. *)
LEMMA ExclusiveStep ==
  IInv /\ ExclusiveUntilReplacement /\ [Next]_vars => ExclusiveUntilReplacement'
<1> SUFFICES ASSUME IInv, ExclusiveUntilReplacement, [Next]_vars,
                    ~replaced', status' # "cleared"
             PROVE  Exclusive' /\ status' # "corrupt"
  BY DEF ExclusiveUntilReplacement, Exclusive
<1> DEFINE Before == Exclusive /\ status # "corrupt"
           After  == Exclusive' /\ status' # "corrupt"
<1>0. ~replaced /\ status # "cleared" => Before
  BY DEF ExclusiveUntilReplacement, Exclusive
<1>1. CASE EnterSweep \/ SweepTake \/ SweepSkip \/ ReturnNull \/ ExitOnFragmentation
  <2>1. /\ UNCHANGED <<free, free_page_num, header, region, fresh, replaced>>
        /\ status' \in {status, "exited"} /\ status = "running"
    BY <1>1 DEF EnterSweep, SweepTake, SweepSkip, ReturnNull, ExitOnFragmentation,
       pool, call, IInv, CallInv
  <2> QED
    BY <2>1, <1>0, SameRegions
<1>2. CASE Reclaim
  BY <1>2 DEF Reclaim
<1>3. CASE TakeRun
  <2>1. UNCHANGED <<replaced, status>> /\ status = "running"
    BY <1>3 DEF TakeRun, IInv, CallInv
  <2> QED
    BY <2>1, <1>0, <1>3, TakeExclusive
<1>4. CASE CopyAndFree
  <2>1. /\ UNCHANGED <<replaced, status>> /\ status = "running"
        /\ caller \in Owners /\ region[caller] # NoRegion
        /\ FreeByHeader(region[caller].start)
        /\ region' = [region EXCEPT ![caller] = fresh] /\ fresh' = NoRegion
    BY <1>4 DEF CopyAndFree, IInv, CallInv
  <2> QED
    BY <2>1, <1>0, FreeExclusive
<1>5. ASSUME NEW o \in Owners,
             \/ \E n \in 1 .. NumPages + 1 : AllocateCall(o, n)
             \/ \E g \in 0 .. MaxGrow : ReallocateCall(o, g)
      PROVE  After
  <2>1. /\ UNCHANGED <<free, free_page_num, header, region, fresh, replaced>>
        /\ UNCHANGED status /\ status = "running"
    BY <1>5 DEF AllocateCall, ReallocateCall, pool
  <2> QED
    BY <2>1, <1>0, SameRegions
<1>6. ASSUME NEW o \in Owners, Deallocate(o) PROVE After
  <2>1. /\ UNCHANGED <<replaced, status>> /\ status = "running"
        /\ region[o] # NoRegion /\ FreeByHeader(region[o].start)
        /\ region' = [region EXCEPT ![o] = NoRegion] /\ fresh' = fresh
    BY <1>6 DEF Deallocate, call
  <2> QED
    BY <2>1, <1>0, FreeExclusive
<1>7. ASSUME NEW o \in Owners, ReadBadHeader(o) PROVE After
  <2>1. UNCHANGED replaced /\ status = "running" /\ region[o] # NoRegion
        /\ HeaderExposed(o)
    BY <1>7 DEF ReadBadHeader, IInv, CallInv
  <2> QED
    BY <2>1, <1>0, NoHeaderExposed
<1>8. CASE DeallocateNull \/ UNCHANGED vars
  <2>1. /\ UNCHANGED <<free, free_page_num, header, region, fresh, replaced>>
        /\ UNCHANGED status
    BY <1>8 DEF DeallocateNull, vars, pool, call
  <2> QED
    BY <2>1, <1>0, SameRegions
<1>9. CASE ClearMemory
  BY <1>9 DEF ClearMemory
<1>10. CASE InitMemory
  <2>1. /\ \A o \in Owners : region'[o] = NoRegion
        /\ fresh' = NoRegion /\ status' = "running"
        /\ free' = [p \in Pages |-> TRUE] /\ free_page_num' = NumPages
    BY <1>10 DEF InitMemory, call, IInv, CallInv
  <2>2. PagesOf(NoRegion) = {}
    BY RegionPages
  <2>3. Live' \subseteq {NoRegion}
    BY <2>1 DEF Live
  <2>4. RegionsDisjoint' /\ HeadersIntact'
    BY <2>1, <2>2, <2>3 DEF RegionsDisjoint, HeadersIntact, PagesOf
  <2>5. TakenIffLive'
    BY <2>1, <2>2, <2>3 DEF TakenIffLive, PagesOf
  <2>6. CounterExact'
    <3>1. FreePages' = 0 .. NumPages - 1
      BY <2>1 DEF FreePages
    <3> QED
      BY <3>1, <2>1, FS_Interval, NumPagesAssumption DEF CounterExact
  <2> QED
    BY <2>1, <2>4, <2>5, <2>6 DEF Exclusive
<1> QED
  BY <1>1, <1>2, <1>3, <1>4, <1>5, <1>6, <1>7, <1>8, <1>9, <1>10 DEF Next, InCall

(* Until second_chance takes a page back, no two callers of the allocator  *)
(* share a page, the page table says exactly which pages are held, every   *)
(* header is intact and the free-page counter is exact.                    *)
THEOREM RegionsExclusive == Spec => []ExclusiveUntilReplacement
<1>1. Init => ExclusiveUntilReplacement
  <2> SUFFICES ASSUME Init PROVE Exclusive /\ status # "corrupt"
    BY DEF ExclusiveUntilReplacement, Exclusive
  <2>1. Live \subseteq {NoRegion} /\ PagesOf(NoRegion) = {}
    BY RegionPages DEF Init, Live
  <2>2. RegionsDisjoint /\ HeadersIntact
    BY <2>1 DEF Init, RegionsDisjoint, HeadersIntact
  <2>3. TakenIffLive
    BY <2>1 DEF Init, TakenIffLive
  <2>4. FreePages = 0 .. NumPages - 1
    BY DEF Init, FreePages
  <2>5. CounterExact
    BY <2>4, FS_Interval, NumPagesAssumption DEF Init, CounterExact
  <2> QED
    BY <2>2, <2>3, <2>5 DEF Init, Exclusive
<1> QED
  BY <1>1, ExclusiveStep, Invariance, PTL DEF Spec

-----------------------------------------------------------------------------
(* No sem_wait of the single thread ever finds the semaphore taken.        *)
THEOREM SemaphoreAvailable == Spec => []SemAvailable
<1>1. Init => SemAvailable
  BY DEF Init, SemAvailable
<1>2. IInv /\ SemAvailable /\ [Next]_vars => SemAvailable'
  <2> SUFFICES ASSUME memory_s \in Nat, SemAvailable, [Next]_vars PROVE SemAvailable'
    BY DEF IInv, TypeOK
  <2> USE DEF SemAvailable
  <2>1. CASE InCall
    <3>1. CASE EnterSweep \/ SweepTake \/ SweepSkip
      BY <3>1 DEF EnterSweep, SweepTake, SweepSkip
    <3>2. CASE Reclaim \/ ReturnNull \/ TakeRun \/ ExitOnFragmentation \/ CopyAndFree
      <4>1. memory_s' \in {memory_s, memory_s + 1} /\ pc # "sweep"
        BY <3>2 DEF Reclaim, ReturnNull, TakeRun, ExitOnFragmentation, CopyAndFree
      <4> QED
        BY <4>1
    <3> QED
      BY <2>1, <3>1, <3>2 DEF InCall
  <2>2. ASSUME NEW o \in Owners,
               \/ \E n \in 1 .. NumPages + 1 : AllocateCall(o, n)
               \/ \E g \in 0 .. MaxGrow : ReallocateCall(o, g)
               \/ Deallocate(o)
        PROVE  SemAvailable'
    BY <2>2 DEF AllocateCall, ReallocateCall, Deallocate, pool, call
  <2>3. ASSUME NEW o \in Owners, ReadBadHeader(o) PROVE SemAvailable'
    BY <2>3 DEF ReadBadHeader
  <2>4. CASE DeallocateNull \/ ClearMemory \/ InitMemory \/ UNCHANGED vars
    BY <2>4 DEF DeallocateNull, ClearMemory, InitMemory, vars, pool, call
  <2> QED
    BY <2>1, <2>2, <2>3, <2>4 DEF Next
<1> QED
  BY <1>1, <1>2, Invariance, PTL DEF Spec
=============================================================================
