------------------------- MODULE LinkedQueueProofs --------------------------
(* Proofs about LinkedQueue, for any cells and values. *)
EXTENDS LinkedQueue, SequenceTheorems, TLAPS

(* What a search has seen: it is at a queued cell, and none of the cells   *)
(* before that one holds what it looks for.                                *)
Walk ==
  pc = "search" =>
    /\ key \in Values
    /\ \E k \in DOMAIN chain :
         aux = chain[k] /\ \A j \in 1 .. k - 1 : data[chain[j]] # key

(* A queued cell holds a value; between clear_gq and init_gq none is left. *)
Filled ==
  /\ \A i \in DOMAIN chain : data[chain[i]] \in Values
  /\ pc = "cleared" => chain = <<>>

IInv == TypeOK /\ Linked /\ NothingLost /\ Filled /\ Walk

-----------------------------------------------------------------------------
(* What a push does to the history. *)
LEMMA Appended ==
  ASSUME chain \in Seq(Cells), NEW c \in Cells, chain' = Append(chain, c)
  PROVE  /\ chain' \in Seq(Cells)
         /\ Len(chain') = Len(chain) + 1
         /\ \A i \in DOMAIN chain : chain'[i] = chain[i]
         /\ chain'[Len(chain) + 1] = c
         /\ DOMAIN chain' = 1 .. Len(chain) + 1
         /\ DOMAIN chain = 1 .. Len(chain)
         /\ Queued' = Queued \cup {c}
<1>1. /\ chain' \in Seq(Cells)
      /\ Len(chain') = Len(chain) + 1
      /\ \A i \in DOMAIN chain : chain'[i] = chain[i]
      /\ chain'[Len(chain) + 1] = c
      /\ DOMAIN chain' = 1 .. Len(chain) + 1
      /\ DOMAIN chain = 1 .. Len(chain)
      /\ Len(chain) \in Nat
  OBVIOUS
<1>2. Queued' = Queued \cup {c}
  BY <1>1 DEF Queued
<1> QED
  BY <1>1, <1>2

(* What a pop does to it. *)
LEMMA Shortened ==
  ASSUME chain \in Seq(Cells), chain # <<>>, NothingLost,
         chain' = SubSeq(chain, 2, Len(chain))
  PROVE  /\ chain' \in Seq(Cells)
         /\ Len(chain) \in Nat \ {0}
         /\ Len(chain') = Len(chain) - 1
         /\ DOMAIN chain' = 1 .. Len(chain) - 1
         /\ DOMAIN chain = 1 .. Len(chain)
         /\ \A i \in DOMAIN chain' : chain'[i] = chain[i + 1]
         /\ Queued' = Queued \ {chain[1]}
<1>1. /\ chain' \in Seq(Cells)
      /\ Len(chain) \in Nat \ {0}
      /\ Len(chain') = Len(chain) - 1
      /\ DOMAIN chain' = 1 .. Len(chain) - 1
      /\ DOMAIN chain = 1 .. Len(chain)
      /\ \A i \in DOMAIN chain' : chain'[i] = chain[i + 1]
  <2>1. chain' = Tail(chain)
    BY TailIsSubSeq
  <2>2. Len(chain) \in Nat \ {0} /\ DOMAIN chain = 1 .. Len(chain)
    OBVIOUS
  <2>3. /\ chain' \in Seq(Cells)
        /\ Len(chain') = Len(chain) - 1
        /\ \A i \in 1 .. Len(chain') : chain'[i] = chain[i + 1]
    BY <2>1, HeadTailProperties
  <2>4. DOMAIN chain' = 1 .. Len(chain')
    BY <2>3
  <2> QED
    BY <2>2, <2>3, <2>4
<1>2. ASSUME NEW c \in Queued' PROVE c \in Queued \ {chain[1]}
  <2>1. PICK i \in DOMAIN chain' : c = chain'[i]
    BY <1>2 DEF Queued
  <2>2. i + 1 \in DOMAIN chain /\ c = chain[i + 1] /\ 1 \in DOMAIN chain /\ i + 1 # 1
    BY <1>1, <2>1
  <2> QED
    BY <2>2 DEF Queued, NothingLost
<1>3. ASSUME NEW c \in Queued \ {chain[1]} PROVE c \in Queued'
  <2>1. PICK i \in DOMAIN chain : c = chain[i]
    BY <1>3 DEF Queued
  <2>2. i # 1
    BY <1>3, <2>1
  <2>3. i - 1 \in DOMAIN chain' /\ chain'[i - 1] = c
    BY <1>1, <2>1, <2>2
  <2> QED
    BY <2>3 DEF Queued
<1> QED
  BY <1>1, <1>2, <1>3

(* The queue is empty exactly when the sentinel is linked to nothing. *)
LEMMA EmptyQueue ==
  ASSUME TypeOK, Linked, pc # "cleared"
  PROVE  /\ next[gq] = Null <=> chain = <<>>
         /\ chain # <<>> => next[gq] = chain[1] /\ chain[1] \in Queued
  BY CellsAssumption DEF TypeOK, Linked, Queued

(* init_gq establishes the invariant. *)
LEMMA InitOK == Init => IInv
<1> SUFFICES ASSUME Init PROVE IInv
  OBVIOUS
<1>1. chain = <<>> /\ Queued = {} /\ pc = "idle"
  BY DEF Init, Queued
<1>2. TypeOK
  <2>1. chain \in Seq(Cells)
    BY DEF Init
  <2>3. crashed \in BOOLEAN
    BY Zenon DEF Init
  <2>2. next \in [Cells -> Cells \cup {Null}] /\ data \in [Cells -> Values \cup {NoValue}]
    BY DEF Init
  <2> QED
    BY <2>1, <2>2, <2>3 DEF Init, TypeOK
<1>3. Linked /\ NothingLost /\ Filled /\ Walk
  BY <1>1 DEF Init, Linked, NothingLost, Filled, Walk
<1> QED
  BY <1>2, <1>3 DEF IInv

(* A step that leaves the cells alone keeps the structure. *)
LEMMA SameCells ==
  ASSUME IInv, UNCHANGED <<gq, tail, memory, chain>>,
         pc = "cleared" <=> pc' = "cleared"
  PROVE  Linked' /\ NothingLost' /\ Filled'
  BY DEF IInv, Linked, NothingLost, Filled, Queued, memory

(* A push keeps it: the new cell is not queued, and not the sentinel. *)
LEMMA PushOK ==
  ASSUME IInv, NEW v \in Values, Push(v)
  PROVE  IInv'
<1> PICK c \in Cells \ cells :
       /\ next'   = [next EXCEPT ![c] = Null, ![tail] = c]
       /\ tail'   = c
       /\ data'   = [data EXCEPT ![c] = v]
       /\ cells'  = cells \cup {c}
       /\ blocks' = blocks \cup {c}
       /\ chain'  = Append(chain, c)
  BY DEF Push
<1>1. /\ pc = "idle" /\ pc' = "idle" /\ gq' = gq /\ key' = key
      /\ aux' = aux /\ crashed' = crashed
  BY DEF Push, Ready
<1>2. chain \in Seq(Cells) /\ Len(chain) \in Nat
  BY DEF IInv, TypeOK
<1>3. /\ chain' \in Seq(Cells)
      /\ Len(chain') = Len(chain) + 1
      /\ \A i \in DOMAIN chain : chain'[i] = chain[i]
      /\ chain'[Len(chain) + 1] = c
      /\ DOMAIN chain' = 1 .. Len(chain) + 1
      /\ DOMAIN chain = 1 .. Len(chain)
      /\ Queued' = Queued \cup {c}
  BY <1>2, Appended
<1>4. c \notin Queued /\ c # gq /\ tail \in Cells /\ tail # c /\ c # Null
  BY <1>1, <1>2, <1>3, CellsAssumption DEF IInv, TypeOK, NothingLost, Linked, Queued
<1>5. TypeOK'
  BY <1>1, <1>3 DEF IInv, TypeOK
<1>6. NothingLost'
  <2>1. \A i, j \in DOMAIN chain' : i # j => chain'[i] # chain'[j]
    BY <1>2, <1>3, <1>4 DEF IInv, NothingLost, Queued
  <2> QED
    BY <2>1, <1>1, <1>3, <1>4 DEF IInv, NothingLost
<1>7. Filled'
  <2>1. \A i \in DOMAIN chain : chain[i] \in Cells /\ chain[i] # c
    BY <1>2, <1>3, <1>4 DEF Queued
  <2> QED
    BY <2>1, <1>1, <1>2, <1>3 DEF IInv, TypeOK, Filled
<1>8. Linked'
  <2>1. tail' = c /\ chain' # <<>> /\ tail' = chain'[Len(chain')]
    BY <1>2, <1>3
  <2>2. CASE chain = <<>>
    <3>1. tail = gq /\ Len(chain) = 0
      BY <1>1, <2>2 DEF IInv, Linked
    <3>2. next'[gq] = c /\ next'[c] = Null
      BY <3>1, <1>4 DEF IInv, TypeOK
    <3>3. chain'[1] = c /\ DOMAIN chain' = 1 .. 1 /\ Len(chain') = 1
      BY <1>3, <3>1
    <3>4. \A i \in DOMAIN chain' : i = 1 /\ chain'[i] = c
      BY <3>3
    <3> QED
      BY <1>1, <2>1, <3>2, <3>3, <3>4 DEF Linked
  <2>3. CASE chain # <<>>
    <3>1. tail = chain[Len(chain)] /\ Len(chain) # 0 /\ tail \in Queued
      BY <1>1, <1>2, <1>3, <2>3 DEF IInv, Linked, Queued
    <3>2. /\ next'[c] = Null /\ next'[tail] = c
          /\ \A d \in Cells \ {c, tail} : next'[d] = next[d]
      BY <1>4 DEF IInv, TypeOK
    <3>3. next'[gq] = chain'[1]
      BY <1>1, <1>2, <1>3, <1>4, <2>3, <3>1, <3>2 DEF IInv, TypeOK, Linked, NothingLost
    <3>4. ASSUME NEW i \in DOMAIN chain'
          PROVE  next'[chain'[i]] = IF i = Len(chain') THEN Null ELSE chain'[i + 1]
      <4>1. CASE i = Len(chain) + 1
        BY <4>1, <1>3, <3>2
      <4>2. CASE i = Len(chain)
        BY <4>2, <1>2, <1>3, <3>1, <3>2
      <4>3. CASE i < Len(chain)
        <5>1. /\ i \in DOMAIN chain /\ i + 1 \in DOMAIN chain /\ Len(chain) \in DOMAIN chain
              /\ i # Len(chain)
          BY <4>3, <1>2, <1>3, <3>1
        <5>2. chain[i] \in Cells \ {c, tail}
          BY <5>1, <1>2, <1>4, <3>1 DEF IInv, NothingLost, Queued
        <5>3. next[chain[i]] = chain[i + 1]
          BY <1>1, <4>3, <5>1 DEF IInv, Linked
        <5> QED
          BY <1>2, <1>3, <3>2, <4>3, <5>1, <5>2, <5>3
      <4> QED
        BY <1>2, <1>3, <4>1, <4>2, <4>3
    <3> QED
      BY <1>1, <2>1, <3>3, <3>4 DEF Linked
  <2> QED
    BY <2>2, <2>3
<1> QED
  BY <1>1, <1>5, <1>6, <1>7, <1>8 DEF IInv, Walk

(* Taking out the first cell keeps it. *)
LEMMA UnlinkOK ==
  ASSUME IInv, Unlink, next[gq] # Null, gq' = gq, pc # "cleared", pc' # "cleared"
  PROVE  /\ Linked' /\ NothingLost' /\ Filled'
         /\ chain # <<>> /\ next[gq] = chain[1]
         /\ chain' \in Seq(Cells)
         /\ tail' \in Cells
         /\ next' \in [Cells -> Cells \cup {Null}]
<1>1. chain # <<>> /\ next[gq] = chain[1] /\ chain \in Seq(Cells)
  BY EmptyQueue DEF IInv, TypeOK
<1>2. chain' = SubSeq(chain, 2, Len(chain))
  BY DEF Unlink
<1>3. /\ chain' \in Seq(Cells)
      /\ Len(chain) \in Nat \ {0}
      /\ Len(chain') = Len(chain) - 1
      /\ DOMAIN chain' = 1 .. Len(chain) - 1
      /\ DOMAIN chain = 1 .. Len(chain)
      /\ \A i \in DOMAIN chain' : chain'[i] = chain[i + 1]
      /\ Queued' = Queued \ {chain[1]}
  BY <1>1, <1>2, Shortened DEF IInv
<1>4. /\ next' = [next EXCEPT ![gq] = next[chain[1]]]
      /\ tail' = IF next[chain[1]] = Null THEN gq ELSE tail
      /\ cells' = cells \ {chain[1]} /\ blocks' = blocks \ {chain[1]} /\ data' = data
  BY <1>1 DEF Unlink
<1>5. chain[1] \in Queued /\ chain[1] \in Cells /\ chain[1] # gq
  BY <1>1, <1>3 DEF IInv, NothingLost, Queued
<1>6. tail' \in Cells /\ next' \in [Cells -> Cells \cup {Null}]
  BY <1>4, <1>5 DEF IInv, TypeOK
<1>7. NothingLost'
  <2>1. \A i, j \in DOMAIN chain' : i # j => chain'[i] # chain'[j]
    BY <1>3 DEF IInv, NothingLost
  <2> QED
    BY <2>1, <1>3, <1>4, <1>5 DEF IInv, NothingLost
<1>8. Filled'
  BY <1>3, <1>4 DEF IInv, Filled
<1>9. Linked'
  <2>1. next[chain[1]] = IF Len(chain) = 1 THEN Null ELSE chain[2]
    BY <1>3 DEF IInv, Linked
  <2>2. next'[gq] = next[chain[1]] /\ \A d \in Cells \ {gq} : next'[d] = next[d]
    BY <1>4 DEF IInv, TypeOK
  <2>3. CASE Len(chain) = 1
    <3>1. Len(chain') = 0 /\ chain' = <<>> /\ DOMAIN chain' = {}
      BY <2>3, <1>3
    <3>2. next'[gq] = Null /\ tail' = gq
      BY <2>1, <2>2, <2>3, <1>4
    <3> QED
      BY <3>1, <3>2 DEF Linked
  <2>4. CASE Len(chain) # 1
    <3>1. /\ chain' # <<>> /\ 1 \in DOMAIN chain' /\ chain'[1] = chain[2] /\ chain[2] # Null
          /\ Len(chain') \in DOMAIN chain' /\ chain'[Len(chain')] = chain[Len(chain)]
      BY <2>4, <1>1, <1>3, CellsAssumption
    <3>2. next'[gq] = chain'[1] /\ tail' = chain'[Len(chain')]
      BY <2>1, <2>2, <2>4, <3>1, <1>1, <1>4 DEF IInv, Linked
    <3>3. ASSUME NEW i \in DOMAIN chain'
          PROVE  next'[chain'[i]] = IF i = Len(chain') THEN Null ELSE chain'[i + 1]
      <4>1. i + 1 \in DOMAIN chain /\ chain'[i] = chain[i + 1]
        BY <1>3
      <4>2. chain[i + 1] \in Cells \ {gq}
        BY <4>1, <1>1 DEF IInv, NothingLost, Queued
      <4>3. next[chain[i + 1]] = IF i + 1 = Len(chain) THEN Null ELSE chain[i + 1 + 1]
        BY <4>1 DEF IInv, Linked
      <4>4. i # Len(chain') => i + 1 \in DOMAIN chain' /\ chain'[i + 1] = chain[i + 1 + 1]
        BY <1>3
      <4> QED
        BY <4>1, <4>2, <4>3, <4>4, <2>2, <1>3
    <3> QED
      BY <3>1, <3>2, <3>3 DEF Linked
  <2> QED
    BY <2>3, <2>4
<1> QED
  BY <1>1, <1>3, <1>6, <1>7, <1>8, <1>9

(* One turn of the loop of search_gq moves along the chain. *)
LEMMA SearchOK ==
  ASSUME IInv, SearchStep
  PROVE  IInv'
<1>1. /\ pc = "search" /\ pc' \in {"idle", "search"}
      /\ UNCHANGED <<gq, tail, memory, crashed, chain>>
  BY DEF SearchStep, SearchReturns
<1>2. Linked' /\ NothingLost' /\ Filled'
  BY <1>1, SameCells
<1>3. aux' \in Cells \cup {Null} /\ key' \in Values \cup {NoValue}
  <2>1. aux \in Cells
    BY <1>1 DEF IInv, TypeOK, Walk
  <2> QED
    BY <2>1 DEF SearchStep, SearchReturns, IInv, TypeOK
<1>4. TypeOK'
  BY <1>1, <1>3 DEF IInv, TypeOK, memory
<1>5. Walk'
  <2>1. CASE pc' = "idle"
    BY <2>1 DEF Walk
  <2>2. CASE pc' = "search"
    <3>1. data[aux] # key /\ next[aux] # Null /\ aux' = next[aux] /\ key' = key
      BY <2>2 DEF SearchStep, SearchReturns
    <3>2. PICK k \in DOMAIN chain :
            aux = chain[k] /\ \A j \in 1 .. k - 1 : data[chain[j]] # key
      BY <1>1 DEF IInv, Walk
    <3>3. chain \in Seq(Cells) /\ Len(chain) \in Nat /\ DOMAIN chain = 1 .. Len(chain)
      BY DEF IInv, TypeOK
    <3>4. next[chain[k]] = IF k = Len(chain) THEN Null ELSE chain[k + 1]
      BY <1>1 DEF IInv, Linked
    <3>5. k + 1 \in DOMAIN chain /\ aux' = chain[k + 1]
      BY <3>1, <3>2, <3>3, <3>4
    <3>6. \A j \in 1 .. (k + 1) - 1 : data[chain[j]] # key
      BY <3>1, <3>2, <3>3
    <3> QED
      BY <1>1, <3>1, <3>5, <3>6 DEF Walk, memory, IInv
  <2> QED
    BY <1>1, <2>1, <2>2
<1> QED
  BY <1>2, <1>4, <1>5 DEF IInv

(* Every step keeps the invariant. *)
LEMMA StepOK == IInv /\ [Next]_vars => IInv'
<1> SUFFICES ASSUME IInv, [Next]_vars PROVE IInv'
  OBVIOUS
<1>1. CASE SearchStep
  BY <1>1, SearchOK
<1>2. ASSUME NEW v \in Values, Push(v) PROVE IInv'
  BY <1>2, PushOK
<1>3. ASSUME NEW v \in Values, SearchCall(v) PROVE IInv'
  <2>1. /\ pc = "idle" /\ pc' \in {"idle", "search"}
        /\ UNCHANGED <<gq, tail, memory, crashed, chain>>
    BY <1>3 DEF SearchCall, Ready, IInv
  <2>2. Linked' /\ NothingLost' /\ Filled'
    BY <2>1, SameCells
  <2>3. CASE next[gq] = Null
    <3>1. UNCHANGED <<pc, aux, key>>
      BY <1>3, <2>3 DEF SearchCall
    <3> QED
      BY <2>1, <2>2, <3>1 DEF IInv, TypeOK, Walk, memory
  <2>4. CASE next[gq] # Null
    <3>1. pc' = "search" /\ aux' = next[gq] /\ key' = v
      BY <1>3, <2>4 DEF SearchCall
    <3>2. chain # <<>> /\ next[gq] = chain[1]
      BY <2>1, <2>4, EmptyQueue DEF IInv
    <3>3. 1 \in DOMAIN chain /\ chain[1] \in Cells
      BY <3>2 DEF IInv, TypeOK
    <3>4. Walk'
      BY <2>1, <3>1, <3>2, <3>3 DEF Walk
    <3>5. TypeOK'
      BY <2>1, <3>1, <3>2, <3>3 DEF IInv, TypeOK, memory
    <3> QED
      BY <2>2, <3>4, <3>5 DEF IInv
  <2> QED
    BY <2>3, <2>4
<1>4. CASE PopEmpty \/ Top \/ ClearCall
  <2>1. /\ pc = "idle" /\ pc' \in {"idle", "clear"}
        /\ UNCHANGED <<gq, tail, memory, aux, key, crashed, chain>>
    BY <1>4 DEF PopEmpty, Top, ClearCall, Ready
  <2>2. Linked' /\ NothingLost' /\ Filled'
    BY <2>1, SameCells
  <2> QED
    BY <2>1, <2>2 DEF IInv, TypeOK, Walk, memory
<1>5. CASE OutOfMemory
  <2>1. /\ pc \in {"idle", "cleared"} /\ pc' = pc
        /\ UNCHANGED <<gq, tail, memory, aux, key, chain>>
    BY <1>5 DEF OutOfMemory
  <2>2. crashed' \in BOOLEAN
    BY <1>5, Zenon DEF OutOfMemory
  <2>3. Linked' /\ NothingLost' /\ Filled'
    BY <2>1, SameCells
  <2> QED
    BY <2>1, <2>2, <2>3 DEF IInv, TypeOK, Walk, memory
<1>6. CASE Pop \/ ClearPop
  <2>1. /\ Unlink /\ next[gq] # Null /\ pc \in {"idle", "clear"}
        /\ UNCHANGED <<gq, pc, aux, key, crashed>>
    BY <1>6 DEF Pop, ClearPop, Ready
  <2>2. /\ Linked' /\ NothingLost' /\ Filled'
        /\ chain' \in Seq(Cells) /\ tail' \in Cells
        /\ next' \in [Cells -> Cells \cup {Null}]
    BY <2>1, UnlinkOK
  <2>3. TypeOK'
    BY <2>1, <2>2 DEF IInv, TypeOK, Unlink
  <2> QED
    BY <2>1, <2>2, <2>3 DEF IInv, Walk
<1>7. CASE ClearEnd
  <2>1. chain = <<>>
    BY <1>7, EmptyQueue DEF ClearEnd, IInv
  <2>2. /\ pc' = "cleared" /\ cells' = cells \ {gq}
        /\ UNCHANGED <<gq, next, tail, data, blocks, aux, key, crashed, chain>>
    BY <1>7 DEF ClearEnd
  <2>3. TypeOK'
    BY <2>2 DEF IInv, TypeOK
  <2>4. Linked' /\ Walk' /\ Filled'
    BY <2>1, <2>2 DEF Linked, Walk, IInv, Filled
  <2>5. NothingLost'
    BY <1>7, <2>1, <2>2 DEF IInv, NothingLost, Queued, ClearEnd
  <2> QED
    BY <2>3, <2>4, <2>5 DEF IInv
<1>8. CASE InitAgain
  <2>1. /\ pc = "cleared" /\ pc' = "idle" /\ gq' \in Cells \ cells
        /\ next' = [next EXCEPT ![gq'] = Null] /\ data' = [data EXCEPT ![gq'] = NoValue]
        /\ tail' = gq' /\ cells' = cells \cup {gq'}
        /\ UNCHANGED <<blocks, aux, key, crashed, chain>>
    BY <1>8 DEF InitAgain
  <2>2. chain = <<>> /\ Queued = {} /\ Queued' = {}
    BY <2>1 DEF IInv, Filled, Queued
  <2>3. TypeOK'
    BY <2>1 DEF IInv, TypeOK
  <2>4. Linked' /\ Walk' /\ Filled'
    BY <2>1, <2>2 DEF Linked, Walk, IInv, TypeOK, Filled
  <2>5. NothingLost'
    BY <2>1, <2>2 DEF IInv, NothingLost
  <2> QED
    BY <2>3, <2>4, <2>5 DEF IInv
<1>9. CASE UNCHANGED vars
  BY <1>9 DEF vars, memory, IInv, TypeOK, Linked, NothingLost, Filled, Walk, Queued
<1> QED
  BY <1>1, <1>2, <1>3, <1>4, <1>5, <1>6, <1>7, <1>8, <1>9 DEF Next, Step

(* The invariant of the queue. *)
LEMMA Invariance == Spec => []IInv
  BY InitOK, StepOK, PTL DEF Spec

(* The pointers of a queue always have their types; in particular push_gq  *)
(* never finds NULL in the tail.                                           *)
THEOREM TypeCorrect == Spec => []TypeOK
<1>1. IInv => TypeOK
  BY DEF IInv
<1> QED
  BY <1>1, Invariance, PTL

(* The links always run through the queued cells in the order in which     *)
(* they were pushed, from the sentinel to the tail.                        *)
THEOREM QueueIsLinked == Spec => []Linked
<1>1. IInv => Linked
  BY DEF IInv
<1> QED
  BY <1>1, Invariance, PTL

(* A queue neither loses a cell or a block nor frees one it still has.     *)
THEOREM QueueLosesNothing == Spec => []NothingLost
<1>1. IInv => NothingLost
  BY DEF IInv
<1> QED
  BY <1>1, Invariance, PTL

-----------------------------------------------------------------------------
(* The values of the cells of a sequence, in its order. *)
LEMMA ValuesOfCells ==
  ASSUME NEW s \in Seq(Cells), NEW f, \A i \in DOMAIN s : f[s[i]] \in Values,
         NEW t, t = [i \in 1 .. Len(s) |-> f[s[i]]]
  PROVE  /\ t \in Seq(Values)
         /\ Len(t) = Len(s) /\ Len(s) \in Nat
         /\ DOMAIN t = DOMAIN s /\ DOMAIN s = 1 .. Len(s)
         /\ \A i \in DOMAIN s : t[i] = f[s[i]]
         /\ t = <<>> <=> s = <<>>
<1>1. Len(s) \in Nat /\ DOMAIN s = 1 .. Len(s)
  OBVIOUS
<1>2. t \in Seq(Values) /\ Len(t) = Len(s) /\ DOMAIN t = DOMAIN s
  BY <1>1
<1> QED
  BY <1>1, <1>2, EmptySeq

(* The contents of the queue before a step. *)
LEMMA ItemsNow ==
  ASSUME IInv
  PROVE  /\ Items \in Seq(Values)
         /\ Len(Items) = Len(chain) /\ Len(chain) \in Nat
         /\ DOMAIN Items = DOMAIN chain /\ DOMAIN chain = 1 .. Len(chain)
         /\ \A i \in DOMAIN chain : Items[i] = data[chain[i]]
         /\ Items = <<>> <=> chain = <<>>
<1>1. chain \in Seq(Cells) /\ \A i \in DOMAIN chain : data[chain[i]] \in Values
  BY DEF IInv, TypeOK, Filled
<1>2. Items = [i \in 1 .. Len(chain) |-> data[chain[i]]]
  BY DEF Items
<1> QED
  BY <1>1, <1>2, ValuesOfCells

(* The contents after a step, read from the state after it. *)
LEMMA ItemsThen ==
  ASSUME IInv'
  PROVE  /\ Items' \in Seq(Values)
         /\ Len(Items') = Len(chain') /\ Len(chain') \in Nat
         /\ \A i \in 1 .. Len(chain') : Items'[i] = data'[chain'[i]]
<1>1. chain' \in Seq(Cells) /\ \A i \in DOMAIN chain' : data'[chain'[i]] \in Values
  BY DEF IInv, TypeOK, Filled
<1>2. Items' = [i \in 1 .. Len(chain') |-> data'[chain'[i]]]
  BY DEF Items
<1> QED
  BY <1>1, <1>2, ValuesOfCells

(* A push appends its value. *)
LEMMA PushAppends ==
  ASSUME IInv, IInv', NEW v \in Values, Push(v)
  PROVE  Items' = Append(Items, v)
<1>1. PICK c \in Cells \ cells :
        data' = [data EXCEPT ![c] = v] /\ chain' = Append(chain, c)
  BY DEF Push
<1>2. /\ Len(chain') = Len(chain) + 1
      /\ \A i \in DOMAIN chain : chain'[i] = chain[i]
      /\ chain'[Len(chain) + 1] = c
  BY <1>1, Appended DEF IInv, TypeOK
<1>3. \A i \in DOMAIN chain : chain[i] \in Cells /\ chain[i] # c
  BY <1>1, ItemsNow DEF IInv, TypeOK, NothingLost, Queued
<1>4. /\ Append(Items, v) \in Seq(Values)
      /\ Len(Append(Items, v)) = Len(Items) + 1
      /\ \A i \in 1 .. Len(Items) : Append(Items, v)[i] = Items[i]
      /\ Append(Items, v)[Len(Items) + 1] = v
  BY ItemsNow, AppendProperties
<1>5. \A i \in 1 .. Len(chain) : Items'[i] = Items[i]
  BY <1>1, <1>2, <1>3, ItemsNow, ItemsThen DEF IInv, TypeOK
<1>6. Items'[Len(chain) + 1] = v
  BY <1>1, <1>2, ItemsNow, ItemsThen DEF IInv, TypeOK
<1>7. \A i \in 1 .. Len(Items') : Items'[i] = Append(Items, v)[i]
  BY <1>2, <1>4, <1>5, <1>6, ItemsNow, ItemsThen
<1> QED
  BY <1>2, <1>4, <1>7, ItemsNow, ItemsThen, SeqEqual

(* Taking out the first cell takes out the first value. *)
LEMMA UnlinkTakesHead ==
  ASSUME IInv, IInv', Unlink, next[gq] # Null, pc # "cleared"
  PROVE  /\ Items # <<>>
         /\ Items' = Tail(Items)
         /\ Head(Items) = data[next[gq]]
<1>1. chain # <<>> /\ next[gq] = chain[1]
  BY EmptyQueue DEF IInv
<1>2. /\ Len(chain') = Len(chain) - 1 /\ Len(chain) # 0
      /\ \A i \in 1 .. Len(chain) - 1 : chain'[i] = chain[i + 1]
  BY <1>1, Shortened DEF Unlink, IInv, TypeOK
<1>3. Items # <<>> /\ Head(Items) = Items[1]
  BY <1>1, ItemsNow
<1>4. /\ Tail(Items) \in Seq(Values)
      /\ Len(Tail(Items)) = Len(Items) - 1
      /\ \A i \in 1 .. Len(Tail(Items)) : Tail(Items)[i] = Items[i + 1]
  BY <1>3, ItemsNow, HeadTailProperties
<1>5. data' = data
  BY DEF Unlink
<1>6. \A i \in 1 .. Len(Items') : Items'[i] = Tail(Items)[i]
  BY <1>2, <1>4, <1>5, ItemsNow, ItemsThen
<1>7. Items' = Tail(Items)
  BY <1>2, <1>4, <1>6, ItemsNow, ItemsThen, SeqEqual
<1>8. Items[1] = data[chain[1]]
  BY <1>2, ItemsNow
<1> QED
  BY <1>1, <1>3, <1>7, <1>8

(* What a search answers is true. *)
LEMMA SearchIsTrue ==
  ASSUME IInv, SearchStep, answer' # answer
  PROVE  /\ key \in Values /\ pc' = "idle"
         /\ answer' = Reply("find", key, \E i \in DOMAIN Items : Items[i] = key)
<1>1. pc = "search" /\ pc' = "idle"
  BY DEF SearchStep, SearchReturns
<1>2. PICK k \in DOMAIN chain :
        aux = chain[k] /\ \A j \in 1 .. k - 1 : data[chain[j]] # key
  BY <1>1 DEF IInv, Walk
<1>3. CASE data[aux] = key
  <2>1. answer' = Reply("find", key, TRUE)
    BY <1>3 DEF SearchStep, SearchReturns
  <2>2. \E i \in DOMAIN Items : Items[i] = key
    BY <1>2, <1>3, ItemsNow
  <2> QED
    BY <1>1, <2>1, <2>2 DEF IInv, Walk
<1>4. CASE data[aux] # key
  <2>1. next[aux] = Null /\ answer' = Reply("find", key, FALSE)
    BY <1>1, <1>4 DEF SearchStep, SearchReturns
  <2>2. next[chain[k]] = IF k = Len(chain) THEN Null ELSE chain[k + 1]
    BY <1>1, <1>2 DEF IInv, Linked
  <2>3. k \in 1 .. Len(chain) /\ Len(chain) \in Nat
    BY <1>2, ItemsNow
  <2>4. k # Len(chain) => k + 1 \in 1 .. Len(chain)
    BY <2>3
  <2>5. k # Len(chain) => chain[k + 1] # Null
    BY <2>4, ItemsNow, CellsAssumption DEF IInv, TypeOK
  <2>6. k = Len(chain)
    BY <1>2, <2>1, <2>2, <2>5
  <2>7. ~ \E i \in DOMAIN Items : Items[i] = key
    BY <1>2, <1>4, <2>3, <2>6, ItemsNow
  <2> QED
    BY <1>1, <2>1, <2>7 DEF IInv, Walk
<1> QED
  BY <1>3, <1>4

(* Every step of the queue is a step of the sequence, or none. *)
LEMMA StepIsFifo ==
  ASSUME IInv, IInv', [Next]_vars
  PROVE  [Store!Next]_(Store!vars)
<1> USE DEF Store!Reply, Reply
<1>1. ASSUME NEW v \in Values, Push(v) PROVE Store!Put(v)
  BY <1>1, PushAppends DEF Push, Ready, Store!Put, Store!Add
<1>2. ASSUME UNCHANGED <<data, chain>> PROVE UNCHANGED Items
  BY <1>2 DEF Items
<1>3. ASSUME NEW v \in Values, SearchCall(v)
      PROVE  Store!Find(v) \/ UNCHANGED Store!vars
  <2>1. /\ pc = "idle" /\ pc' \in {"idle", "search"}
        /\ UNCHANGED <<gq, tail, memory, crashed, chain>>
    BY <1>3 DEF SearchCall, Ready
  <2>2. UNCHANGED Items
    BY <2>1, <1>2 DEF memory
  <2>3. CASE next[gq] = Null
    <3>1. Items = <<>>
      BY <2>1, <2>3, EmptyQueue, ItemsNow DEF IInv
    <3>2. ~ \E i \in DOMAIN Items : Items[i] = v
      BY <3>1
    <3>3. answer' = Reply("find", v, FALSE)
      BY <1>3, <2>3 DEF SearchCall
    <3> QED
      BY <2>1, <2>2, <3>2, <3>3 DEF Store!Find
  <2>4. CASE next[gq] # Null
    BY <1>3, <2>1, <2>2, <2>4 DEF SearchCall, Store!vars
  <2> QED
    BY <2>3, <2>4
<1>4. CASE SearchStep
  <2>1. pc = "search" /\ pc' \in {"idle", "search"} /\ UNCHANGED <<data, chain>>
    BY <1>4 DEF SearchStep, SearchReturns, memory
  <2>2. UNCHANGED Items
    BY <2>1, <1>2
  <2>3. CASE answer' = answer
    BY <2>1, <2>2, <2>3 DEF Store!vars
  <2>4. CASE answer' # answer
    <3>1. key \in Values /\ Store!Find(key)
      BY <1>4, <2>1, <2>2, <2>4, SearchIsTrue DEF Store!Find
    <3> QED
      BY <3>1 DEF Store!Next
  <2> QED
    BY <2>3, <2>4
<1>5. CASE PopEmpty
  <2>1. Items = <<>> /\ UNCHANGED Items
    BY <1>5, <1>2, EmptyQueue, ItemsNow DEF PopEmpty, Ready, IInv, memory
  <2>2. Store!Take
    BY <1>5, <2>1 DEF PopEmpty, Ready, Store!Take
  <2> QED
    BY <2>2 DEF Store!Next
<1>6. CASE Pop
  <2>1. Items # <<>> /\ Items' = Tail(Items) /\ Head(Items) = data[next[gq]]
    BY <1>6, UnlinkTakesHead DEF Pop, Ready
  <2>2. Store!Take
    BY <1>6, <2>1 DEF Pop, Ready, Store!Take
  <2> QED
    BY <2>2 DEF Store!Next
<1>7. CASE Top
  <2>1. UNCHANGED Items /\ pc = "idle" /\ pc' = "idle"
    BY <1>7, <1>2 DEF Top, Ready, memory
  <2>2. next[gq] = Null <=> Items = <<>>
    BY <2>1, EmptyQueue, ItemsNow DEF IInv
  <2>3. Items # <<>> => Head(Items) = data[next[gq]]
    BY <2>1, EmptyQueue, ItemsNow DEF IInv
  <2>4. Store!Top
    BY <1>7, <2>1, <2>2, <2>3 DEF Top, Store!Top
  <2> QED
    BY <2>4 DEF Store!Next
<1>8. CASE ClearCall
  <2>1. UNCHANGED Items
    BY <1>8, <1>2 DEF ClearCall, memory
  <2>2. Store!BeginClear
    BY <1>8, <2>1 DEF ClearCall, Ready, Store!BeginClear
  <2> QED
    BY <2>2 DEF Store!Next
<1>9. CASE ClearPop
  <2>1. Items # <<>> /\ Items' = Tail(Items)
    BY <1>9, UnlinkTakesHead DEF ClearPop
  <2>2. Store!Drop
    BY <1>9, <2>1 DEF ClearPop, Store!Drop
  <2> QED
    BY <2>2 DEF Store!Next
<1>10. CASE ClearEnd
  <2>1. Items = <<>> /\ UNCHANGED Items
    BY <1>10, <1>2, EmptyQueue, ItemsNow DEF ClearEnd, IInv
  <2>2. Store!EndClear
    BY <1>10, <2>1 DEF ClearEnd, Store!EndClear
  <2> QED
    BY <2>2 DEF Store!Next
<1>11. CASE InitAgain
  <2>1. chain = <<>> /\ chain' = <<>> /\ pc = "cleared" /\ pc' = "idle" /\ answer' = answer
    BY <1>11 DEF InitAgain, IInv, Filled
  <2>2. UNCHANGED Items
    BY <2>1 DEF Items
  <2> QED
    BY <2>1, <2>2 DEF Store!vars
<1>12. CASE OutOfMemory
  BY <1>12, <1>2 DEF OutOfMemory, Ready, Store!vars, memory
<1>13. CASE UNCHANGED vars
  BY <1>13, <1>2 DEF vars, Store!vars, memory
<1> QED
  BY <1>1, <1>3, <1>4, <1>5, <1>6, <1>7, <1>8, <1>9, <1>10, <1>11, <1>12, <1>13
     DEF Next, Step, Store!Next

(* The linked cells implement a first-in first-out sequence: what is       *)
(* popped, found and seen on top is what the sequence of pushed values has *)
(* there, whatever cells are reused.                                       *)
THEOREM QueueImplementsFifo == Spec => IsFifo
<1>1. Init => Store!Init
  <2> SUFFICES ASSUME Init PROVE Store!Init
    OBVIOUS
  <2>1. Items = <<>>
    BY InitOK, ItemsNow DEF Init
  <2> QED
    BY <2>1 DEF Init, Store!Init, Reply, Store!Reply
<1>2. IInv /\ IInv' /\ [Next]_vars => [Store!Next]_(Store!vars)
  BY StepIsFifo
<1> QED
  BY <1>1, <1>2, Invariance, PTL DEF Spec, IsFifo, Store!Spec
=============================================================================
