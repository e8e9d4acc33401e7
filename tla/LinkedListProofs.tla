-------------------------- MODULE LinkedListProofs --------------------------
(***************************************************************************)
(* Proofs about LinkedList, for any cells, any width of a block and        *)
(* whatever lies behind one: the links are always sound, and the list      *)
(* implements the sequence of SeqStore.                                    *)
(***************************************************************************)
EXTENDS LinkedList, SequenceTheorems, TLAPS

Types ==
  /\ ll \in Cells
  /\ next \in [Cells -> Cells \cup {Null}]
  /\ data \in [Cells -> Values \cup {NoValue}]
  /\ chain \in Seq(Cells)
  /\ pc \in {"idle", "search", "size", "write", "read", "clear", "cleared"}

(* A cell of the list holds a value; between clear_ll and init_ll none is  *)
(* left, and outside the loops no count has begun.                         *)
Filled ==
  /\ \A i \in DOMAIN chain : data[chain[i]] \in Values
  /\ pc = "cleared" => chain = <<>>
  /\ pc \in {"idle", "clear", "cleared"} => count = 0 /\ pos = 0

(* The local aux stands behind the first n cells. *)
Passed(n) == n \in 0 .. Len(chain) /\ aux = IF n = Len(chain) THEN Null ELSE chain[n + 1]

(* What the loop of a call has seen: search_ll none of what it looks for,  *)
(* get_ll_size the cells it counted, export_ll_to_disk those in the file.  *)
Walk ==
  /\ pc = "search" =>
       /\ key \in Values
       /\ \E n \in 0 .. Len(chain) :
            n # Len(chain) /\ Passed(n) /\ \A j \in 1 .. n : data[chain[j]] # key
  /\ pc = "size" => Passed(count)
  /\ pc = "write" =>
       /\ chain # <<>>
       /\ file \in Seq(Nat)
       /\ Passed(Len(file))
       /\ \A i \in 1 .. Len(file) : file[i] % Width = data[chain[i]]

(* A file that was written holds a number, and what was read of it is at   *)
(* the head of the list, the last number first.                            *)
Reading ==
  /\ pc # "write" /\ file # NoFile => file \in Seq(Nat) /\ Len(file) # 0
  /\ pc = "read" =>
       /\ file # NoFile
       /\ pos \in 0 .. Len(file) - 1
       /\ before \in Nat
       /\ Len(chain) = before + pos
       /\ \A i \in 1 .. pos : data[chain[i]] = file[pos + 1 - i] % Width

IInv == Types /\ ListLinked /\ Filled /\ Walk /\ Reading

-----------------------------------------------------------------------------
(* Cutting a number off to the width of a block gives back the value that  *)
(* was there, whatever was written above it.                               *)
LEMMA CutOff ==
  ASSUME NEW v \in Values, NEW g \in Nat
  PROVE  (v + g * Width) % Width = v /\ v + g * Width \in Nat
<1>1. ASSUME NEW w \in Nat \ {0}, NEW a \in 0 .. w - 1
      PROVE  (a + g * w) % w = a /\ a + g * w \in Nat
  BY <1>1
<1> QED
  BY <1>1, WidthAssumption DEF Values

(* What is read fits into a block. *)
LEMMA ReadFits ==
  ASSUME NEW n \in Nat
  PROVE  n % Width \in Values
<1>1. ASSUME NEW w \in Nat \ {0} PROVE n % w \in 0 .. w - 1
  BY <1>1
<1> QED
  BY <1>1, WidthAssumption DEF Values

(* What an insertion does to the history. *)
LEMMA Prepended ==
  ASSUME chain \in Seq(Cells), NEW c \in Cells, chain' = <<c>> \o chain
  PROVE  /\ chain' \in Seq(Cells)
         /\ Len(chain) \in Nat /\ Len(chain') = Len(chain) + 1
         /\ DOMAIN chain = 1 .. Len(chain)
         /\ DOMAIN chain' = 1 .. Len(chain) + 1
         /\ chain'[1] = c
         /\ \A i \in 1 .. Len(chain) : chain'[i + 1] = chain[i]
         /\ Queued' = Queued \cup {c}
<1>1. <<c>> \in Seq(Cells) /\ Len(<<c>>) = 1 /\ <<c>>[1] = c
  OBVIOUS
<1>2. Len(chain) \in Nat /\ DOMAIN chain = 1 .. Len(chain)
  OBVIOUS
<1>3. /\ chain' \in Seq(Cells)
      /\ Len(chain') = 1 + Len(chain)
      /\ \A i \in 1 .. 1 + Len(chain) : chain'[i] = IF i <= 1 THEN <<c>>[i] ELSE chain[i - 1]
  BY <1>1, ConcatProperties
<1>4. DOMAIN chain' = 1 .. Len(chain) + 1
  BY <1>2, <1>3
<1>5. chain'[1] = c
  BY <1>1, <1>2, <1>3
<1>6. ASSUME NEW i \in 1 .. Len(chain) PROVE chain'[i + 1] = chain[i]
  <2>1. i + 1 \in 1 .. 1 + Len(chain) /\ ~(i + 1 <= 1) /\ (i + 1) - 1 = i
    BY <1>2
  <2> QED
    BY <2>1, <1>3
<1>7. ASSUME NEW d \in Queued' PROVE d \in Queued \cup {c}
  <2>1. PICK i \in 1 .. Len(chain) + 1 : d = chain'[i]
    BY <1>7, <1>4 DEF Queued
  <2>2. CASE i # 1
    <3>1. i - 1 \in 1 .. Len(chain) /\ (i - 1) + 1 = i
      BY <1>2, <2>2
    <3> QED
      BY <3>1, <1>2, <1>6, <2>1 DEF Queued
  <2> QED
    BY <1>5, <2>1, <2>2
<1>8. ASSUME NEW d \in Queued \cup {c} PROVE d \in Queued'
  <2>1. CASE d = c
    BY <2>1, <1>2, <1>4, <1>5 DEF Queued
  <2>2. CASE d \in Queued
    <3>1. PICK i \in 1 .. Len(chain) : d = chain[i]
      BY <2>2, <1>2 DEF Queued
    <3>2. i + 1 \in DOMAIN chain' /\ chain'[i + 1] = d
      BY <1>2, <1>4, <1>6, <3>1
    <3> QED
      BY <3>2 DEF Queued
  <2> QED
    BY <1>8, <2>1, <2>2
<1> QED
  BY <1>2, <1>3, <1>4, <1>5, <1>6, <1>7, <1>8

(* What a removal does to it. *)
LEMMA Shortened ==
  ASSUME chain \in Seq(Cells), chain # <<>>, ListLinked,
         chain' = SubSeq(chain, 2, Len(chain))
  PROVE  /\ chain' = Tail(chain)
         /\ chain' \in Seq(Cells)
         /\ Len(chain) \in Nat \ {0}
         /\ Len(chain') = Len(chain) - 1
         /\ DOMAIN chain' = 1 .. Len(chain) - 1
         /\ DOMAIN chain = 1 .. Len(chain)
         /\ \A i \in DOMAIN chain' : chain'[i] = chain[i + 1]
         /\ Queued' = Queued \ {chain[1]}
<1>1. /\ chain' = Tail(chain)
      /\ chain' \in Seq(Cells)
      /\ Len(chain) \in Nat \ {0}
      /\ Len(chain') = Len(chain) - 1
      /\ DOMAIN chain' = 1 .. Len(chain) - 1
      /\ DOMAIN chain = 1 .. Len(chain)
      /\ \A i \in DOMAIN chain' : chain'[i] = chain[i + 1]
  <2>1. chain' = Tail(chain)
    BY TailIsSubSeq
  <2>2. Len(chain) \in Nat \ {0} /\ DOMAIN chain = 1 .. Len(chain)
    OBVIOUS
  <2>3. /\ chain' \in Seq(Cells)
        /\ Len(chain') = Len(chain) - 1
        /\ \A i \in 1 .. Len(chain') : chain'[i] = chain[i + 1]
    BY <2>1, HeadTailProperties
  <2>4. DOMAIN chain' = 1 .. Len(chain')
    BY <2>3
  <2> QED
    BY <2>1, <2>2, <2>3, <2>4
<1>2. ASSUME NEW c \in Queued' PROVE c \in Queued \ {chain[1]}
  <2>1. PICK i \in DOMAIN chain' : c = chain'[i]
    BY <1>2 DEF Queued
  <2>2. i + 1 \in DOMAIN chain /\ c = chain[i + 1] /\ 1 \in DOMAIN chain /\ i + 1 # 1
    BY <1>1, <2>1
  <2> QED
    BY <2>2 DEF Queued, ListLinked
<1>3. ASSUME NEW c \in Queued \ {chain[1]} PROVE c \in Queued'
  <2>1. PICK i \in DOMAIN chain : c = chain[i]
    BY <1>3 DEF Queued
  <2>2. i # 1
    BY <1>3, <2>1
  <2>3. i - 1 \in DOMAIN chain' /\ chain'[i - 1] = c
    BY <1>1, <2>1, <2>2
  <2> QED
    BY <2>3 DEF Queued
<1> QED
  BY <1>1, <1>2, <1>3

(* The list is empty exactly when the sentinel is linked to nothing. *)
LEMMA EmptyList ==
  ASSUME Types, ListLinked, pc # "cleared"
  PROVE  /\ next[ll] = Null <=> chain = <<>>
         /\ chain # <<>> => next[ll] = chain[1] /\ chain[1] \in Queued
         /\ Passed(0) <=> aux = next[ll]
<1>1. Len(chain) \in Nat /\ DOMAIN chain = 1 .. Len(chain) /\ (chain = <<>> <=> Len(chain) = 0)
  BY EmptySeq DEF Types
<1>2. chain # <<>> => chain[1] \in Cells /\ chain[1] \in Queued
  BY <1>1 DEF Types, Queued
<1> QED
  BY <1>1, <1>2, CellsAssumption DEF Types, ListLinked, Passed

(* A cell of the list is followed by the next one. *)
LEMMA Moves ==
  ASSUME Types, ListLinked, pc # "cleared", NEW n, Passed(n), aux # Null
  PROVE  /\ n \in 0 .. Len(chain) - 1 /\ n + 1 \in DOMAIN chain /\ aux = chain[n + 1]
         /\ next[aux] = IF n + 1 = Len(chain) THEN Null ELSE chain[n + 2]
         /\ next[aux] = Null <=> n + 1 = Len(chain)
<1>1. Len(chain) \in Nat /\ DOMAIN chain = 1 .. Len(chain)
  BY DEF Types
<1>2. n \in 0 .. Len(chain) /\ n # Len(chain) /\ aux = chain[n + 1]
  BY DEF Passed
<1>3. PICK m \in Nat : m = Len(chain)
  BY <1>1
<1>4. n \in 0 .. m /\ n # m
  BY <1>2, <1>3
<1>5. n \in 0 .. m - 1 /\ n + 1 \in 1 .. m /\ (n + 1) + 1 = n + 2
  BY <1>4
<1>6. n + 1 # m => n + 2 \in 1 .. m
  BY <1>4
<1>7. DOMAIN chain = 1 .. m
  BY <1>1, <1>3
<1>8. n \in 0 .. Len(chain) - 1 /\ n + 1 \in DOMAIN chain /\ (n + 1) + 1 = n + 2
  BY <1>3, <1>5, <1>7
<1>9. n + 1 # Len(chain) => n + 2 \in DOMAIN chain
  BY <1>3, <1>6, <1>7
<1>10. n + 1 # Len(chain) => chain[n + 2] \in Cells
  BY <1>9 DEF Types
<1>11. next[aux] = IF n + 1 = Len(chain) THEN Null ELSE chain[n + 2]
  <2>1. next[chain[n + 1]] = IF n + 1 = Len(chain) THEN Null ELSE chain[(n + 1) + 1]
    BY <1>8 DEF ListLinked
  <2> QED
    BY <1>1, <1>2, <1>8, <2>1
<1> QED
  BY <1>2, <1>8, <1>10, <1>11, CellsAssumption

(* init_ll establishes the invariant. *)
LEMMA InitOK == Init => IInv /\ chain = <<>>
<1> SUFFICES ASSUME Init PROVE IInv /\ chain = <<>>
  OBVIOUS
<1>1. chain = <<>> /\ Queued = {} /\ pc = "idle" /\ DOMAIN chain = {}
  BY DEF Init, Queued
<1>2. Types
  <2>1. chain \in Seq(Cells)
    BY DEF Init
  <2>2. next \in [Cells -> Cells \cup {Null}] /\ data \in [Cells -> Values \cup {NoValue}]
    BY DEF Init
  <2> QED
    BY <2>1, <2>2 DEF Init, Types
<1>3. ListLinked
  BY <1>1 DEF Init, ListLinked
<1>4. Filled /\ Walk /\ Reading
  BY <1>1 DEF Init, Filled, Walk, Reading
<1> QED
  BY <1>1, <1>2, <1>3, <1>4 DEF IInv

(* A step that leaves the cells alone keeps the structure. *)
LEMMA SameCells ==
  ASSUME IInv, UNCHANGED <<ll, memory, chain>>,
         pc = "cleared" <=> pc' = "cleared",
         pc' \in {"idle", "clear", "cleared"} => count' = 0 /\ pos' = 0
  PROVE  ListLinked' /\ Filled'
<1>1. Queued' = Queued
  BY DEF Queued
<1>2. ListLinked'
  BY <1>1 DEF IInv, ListLinked, memory
<1> QED
  BY <1>2 DEF IInv, Filled, memory

(* Inserting a cell behind the sentinel keeps it. *)
LEMMA LinkOK ==
  ASSUME IInv, NEW v \in Values, Link(v), ll' = ll, pc # "cleared", pc' # "cleared",
         pc' \in {"idle", "clear"} => count' = 0 /\ pos' = 0
  PROVE  /\ ListLinked' /\ Filled'
         /\ next' \in [Cells -> Cells \cup {Null}]
         /\ data' \in [Cells -> Values \cup {NoValue}]
         /\ chain' \in Seq(Cells)
         /\ Len(chain) \in Nat /\ Len(chain') = Len(chain) + 1
         /\ data'[chain'[1]] = v
         /\ \A i \in 1 .. Len(chain) : data'[chain'[i + 1]] = data[chain[i]]
<1>1. PICK c \in Cells \ cells :
        /\ next'   = [next EXCEPT ![c] = next[ll], ![ll] = c]
        /\ data'   = [data EXCEPT ![c] = v]
        /\ cells'  = cells \cup {c}
        /\ blocks' = blocks \cup {c}
        /\ chain'  = <<c>> \o chain
  BY DEF Link
<1>14. PICK n \in Nat : n = Len(chain)
  BY Prepended, <1>1 DEF IInv, Types
<1>2. /\ chain' \in Seq(Cells)
      /\ Len(chain) = n /\ Len(chain') = n + 1
      /\ DOMAIN chain = 1 .. n
      /\ DOMAIN chain' = 1 .. n + 1
      /\ chain'[1] = c
      /\ \A i \in 1 .. n : chain'[i + 1] = chain[i]
      /\ Queued' = Queued \cup {c}
  BY <1>14, <1>1, Prepended DEF IInv, Types
<1>3. cells = Queued \cup {ll} /\ blocks = Queued /\ ll \notin Queued /\ ll \in Cells
  BY DEF IInv, ListLinked, Types
<1>4. c # ll /\ c \notin Queued
  BY <1>1, <1>3
<1>5. \A i \in 1 .. n : chain[i] \in Cells \ {c, ll} /\ chain[i] \in Queued
  <2>1. \A i \in 1 .. n : chain[i] \in Queued
    BY <1>2 DEF Queued
  <2>2. \A i \in 1 .. n : chain[i] \in Cells
    BY <1>2 DEF IInv, Types
  <2> QED
    BY <2>1, <2>2, <1>3, <1>4
<1>6. /\ next' \in [Cells -> Cells \cup {Null}]
      /\ data' \in [Cells -> Values \cup {NoValue}]
  BY <1>1, <1>3 DEF IInv, Types
<1>7. /\ data'[chain'[1]] = v
      /\ \A i \in 1 .. n : data'[chain'[i + 1]] = data[chain[i]]
  BY <1>1, <1>2, <1>5 DEF IInv, Types
<1>8. \A i \in 1 .. n + 1 : i = 1 \/ \E j \in 1 .. n : i = j + 1
  <2>1. \A i \in 1 .. n + 1 : i = 1 \/ (i - 1 \in 1 .. n /\ i = (i - 1) + 1)
    OBVIOUS
  <2> QED
    BY <2>1
<1>9. Filled'
  <2>1. \A i \in DOMAIN chain' : data'[chain'[i]] \in Values
    <3>1. \A i \in 1 .. n : data[chain[i]] \in Values
      BY <1>2 DEF IInv, Filled
    <3>2. ASSUME NEW i \in 1 .. n + 1 PROVE data'[chain'[i]] \in Values
      BY <3>1, <1>7, <1>8
    <3> QED
      BY <3>2, <1>2
  <2> QED
    BY <2>1 DEF Filled
<1>10. /\ next'[ll] = c /\ next'[c] = next[ll]
       /\ \A d \in Cells \ {c, ll} : next'[d] = next[d]
  BY <1>1, <1>3, <1>4 DEF IInv, Types
<1>11. ASSUME NEW i \in DOMAIN chain'
       PROVE  next'[chain'[i]] = IF i = Len(chain') THEN Null ELSE chain'[i + 1]
  <2>1. CASE i = 1
    <3>1. next[ll] = IF chain = <<>> THEN Null ELSE chain[1]
      BY DEF IInv, ListLinked
    <3>2. chain = <<>> <=> Len(chain) = 0
      BY EmptySeq DEF IInv, Types
    <3>3. Len(chain) # 0 => chain'[2] = chain[1]
      <4>1. Len(chain) # 0 => 1 \in 1 .. n /\ 1 + 1 = 2
        BY <1>2
      <4> QED
        BY <4>1, <1>2
    <3>4. 1 = Len(chain') <=> Len(chain) = 0
      BY <1>2
    <3> QED
      BY <2>1, <3>1, <3>2, <3>3, <3>4, <1>2, <1>10
  <2>2. ASSUME NEW j \in 1 .. n, i = j + 1
        PROVE  next'[chain'[i]] = IF i = Len(chain') THEN Null ELSE chain'[i + 1]
    <3>1. next[chain[j]] = IF j = Len(chain) THEN Null ELSE chain[j + 1]
      BY <1>2 DEF IInv, ListLinked
    <3>2. i = n + 1 <=> j = n
      BY <2>2
    <3>3. j # Len(chain) => chain'[i + 1] = chain[j + 1]
      <4>1. j # n => j + 1 \in 1 .. n
        OBVIOUS
      <4> QED
        BY <4>1, <2>2, <1>2
    <3>4. chain'[i] = chain[j] /\ next'[chain[j]] = next[chain[j]]
      BY <2>2, <1>2, <1>5, <1>10
    <3> QED
      BY <1>2, <3>1, <3>2, <3>3, <3>4
  <2> QED
    BY <1>2, <1>8, <2>1, <2>2
<1>12. ASSUME NEW i \in DOMAIN chain', NEW j \in DOMAIN chain', i # j
       PROVE  chain'[i] # chain'[j]
  <2>1. \A a, b \in 1 .. n : a # b => chain[a] # chain[b]
    BY <1>2 DEF IInv, ListLinked
  <2>2. (i = 1 \/ \E a \in 1 .. n : i = a + 1)
          /\ (j = 1 \/ \E b \in 1 .. n : j = b + 1)
    BY <1>2, <1>8, <1>12
  <2> QED
    BY <2>1, <2>2, <1>2, <1>5, <1>12
<1>13. ListLinked'
  <2>1. chain' # <<>>
    BY <1>2, EmptySeq
  <2>2. cells' = Queued' \cup {ll'} /\ blocks' = Queued' /\ ll' \notin Queued'
    BY <1>1, <1>2, <1>3, <1>4
  <2>3. next'[ll'] = chain'[1]
    BY <1>2, <1>10
  <2> QED
    BY <2>1, <2>2, <2>3, <1>11, <1>12 DEF ListLinked
<1> QED
  BY <1>2, <1>6, <1>7, <1>9, <1>13

(* Taking out the first cell keeps it. *)
LEMMA UnlinkOK ==
  ASSUME IInv, Unlink, next[ll] # Null, ll' = ll, pc # "cleared", pc' # "cleared",
         count' = 0 /\ pos' = 0
  PROVE  /\ ListLinked' /\ Filled'
         /\ next' \in [Cells -> Cells \cup {Null}]
         /\ chain # <<>> /\ next[ll] = chain[1] /\ data' = data
         /\ chain' = Tail(chain) /\ chain' \in Seq(Cells)
<1>1. chain # <<>> /\ next[ll] = chain[1] /\ chain \in Seq(Cells)
  BY EmptyList DEF IInv, Types
<1>2. /\ chain' = Tail(chain)
      /\ chain' \in Seq(Cells)
      /\ Len(chain) \in Nat \ {0}
      /\ Len(chain') = Len(chain) - 1
      /\ DOMAIN chain' = 1 .. Len(chain) - 1
      /\ DOMAIN chain = 1 .. Len(chain)
      /\ \A i \in DOMAIN chain' : chain'[i] = chain[i + 1]
      /\ Queued' = Queued \ {chain[1]}
  BY <1>1, Shortened DEF IInv, Unlink
<1>3. /\ next' = [next EXCEPT ![ll] = next[chain[1]]]
      /\ cells' = cells \ {chain[1]} /\ blocks' = blocks \ {chain[1]} /\ data' = data
  BY <1>1 DEF Unlink
<1>4. /\ cells = Queued \cup {ll} /\ blocks = Queued /\ ll \notin Queued /\ ll \in Cells
      /\ \A i, j \in DOMAIN chain : i # j => chain[i] # chain[j]
  BY DEF IInv, ListLinked, Types
<1>5. \A i \in DOMAIN chain : chain[i] \in Queued /\ chain[i] \in Cells /\ chain[i] # ll
  BY <1>1, <1>4 DEF Queued
<1>6. 1 \in DOMAIN chain
  BY <1>2
<1>16. PICK n \in Nat \ {0} : n = Len(chain)
  BY <1>2
<1>17. DOMAIN chain' = 1 .. n - 1 /\ Len(chain') = n - 1 /\ DOMAIN chain = 1 .. n
  BY <1>2, <1>16
<1>7. next' \in [Cells -> Cells \cup {Null}]
  BY <1>3, <1>5, <1>6 DEF IInv, Types
<1>8. Filled'
  BY <1>2, <1>3 DEF IInv, Filled
<1>9. \A i, j \in DOMAIN chain' : i # j => chain'[i] # chain'[j]
  <2>1. \A i, j \in DOMAIN chain' : i + 1 \in DOMAIN chain /\ j + 1 \in DOMAIN chain
                                      /\ (i # j => i + 1 # j + 1)
    BY <1>2
  <2> QED
    BY <2>1, <1>2, <1>4
<1>10. cells' = Queued' \cup {ll'} /\ blocks' = Queued' /\ ll' \notin Queued'
  BY <1>2, <1>3, <1>4, <1>5, <1>6
<1>11. next'[ll] = next[chain[1]] /\ \A d \in Cells \ {ll} : next'[d] = next[d]
  BY <1>3, <1>4 DEF IInv, Types
<1>12. \A i \in DOMAIN chain : next[chain[i]] = IF i = Len(chain) THEN Null ELSE chain[i + 1]
  BY DEF IInv, ListLinked
<1>13. next'[ll'] = IF chain' = <<>> THEN Null ELSE chain'[1]
  <2>1. chain' = <<>> <=> n = 1
    <3>1. chain' = <<>> <=> Len(chain') = 0
      BY <1>2, EmptySeq
    <3>2. n - 1 = 0 <=> n = 1
      OBVIOUS
    <3> QED
      BY <3>1, <3>2, <1>17
  <2>2. n # 1 => chain'[1] = chain[2]
    <3>1. n # 1 => 1 \in 1 .. n - 1 /\ 1 + 1 = 2
      OBVIOUS
    <3> QED
      BY <3>1, <1>2, <1>17
  <2>3. next[chain[1]] = IF 1 = n THEN Null ELSE chain[2]
    <3>1. next[chain[1]] = IF 1 = Len(chain) THEN Null ELSE chain[1 + 1]
      BY <1>6, <1>12
    <3>2. 1 + 1 = 2
      OBVIOUS
    <3> QED
      BY <3>1, <3>2, <1>16
  <2> QED
    BY <2>1, <2>2, <2>3, <1>1, <1>11
<1>14. ASSUME NEW i \in DOMAIN chain'
       PROVE  next'[chain'[i]] = IF i = Len(chain') THEN Null ELSE chain'[i + 1]
  <2>1. i + 1 \in DOMAIN chain /\ chain'[i] = chain[i + 1]
    BY <1>2
  <2>2. next'[chain[i + 1]] = IF i + 1 = Len(chain) THEN Null ELSE chain[i + 1 + 1]
    BY <2>1, <1>5, <1>11, <1>12
  <2>3. i # Len(chain') => i + 1 \in DOMAIN chain' /\ chain'[i + 1] = chain[i + 1 + 1]
    BY <1>2
  <2>4. i = Len(chain') <=> i + 1 = Len(chain)
    BY <1>2
  <2> QED
    BY <2>1, <2>2, <2>3, <2>4
<1>15. ListLinked'
  BY <1>9, <1>10, <1>13, <1>14 DEF ListLinked
<1> QED
  BY <1>1, <1>2, <1>3, <1>7, <1>8, <1>15

(* One turn of the loop of search_ll. *)
LEMMA SearchOK ==
  ASSUME IInv, SearchStep
  PROVE  IInv'
<1>1. /\ pc = "search" /\ UNCHANGED <<ll, memory, file, chain>>
      /\ \/ pc' = "idle" /\ count' = 0 /\ pos' = 0
         \/ pc' = "search"
  BY DEF SearchStep, Return, IInv
<1>2. ListLinked' /\ Filled'
  BY <1>1, SameCells
<1>3. Types' /\ Reading'
  BY <1>1 DEF IInv, Types, Reading, memory
<1>4. CASE pc' = "idle"
  BY <1>2, <1>3, <1>4 DEF IInv, Walk
<1>5. CASE pc' = "search"
  <2>1. data[aux] # key /\ next[aux] # Null /\ aux' = next[aux] /\ key' = key
    BY <1>5 DEF SearchStep, Return
  <2>2. PICK n \in 0 .. Len(chain) :
          n # Len(chain) /\ Passed(n) /\ \A j \in 1 .. n : data[chain[j]] # key
    BY <1>1 DEF IInv, Walk
  <2>3. Len(chain) \in Nat /\ chain[n + 1] \in Cells /\ aux = chain[n + 1]
    BY <2>2 DEF IInv, Types, Passed
  <2>4. /\ n + 1 # Len(chain)
        /\ next[aux] = chain[n + 2]
    BY <1>1, <2>1, <2>2, <2>3, CellsAssumption, Moves DEF IInv
  <2>5. PICK m \in Nat : m = Len(chain)
    BY <2>3
  <2>6. n \in 0 .. m /\ n # m /\ n + 1 # m
    BY <2>2, <2>4, <2>5
  <2>7. n + 1 \in 0 .. m /\ n + 1 # m /\ (n + 1) + 1 = n + 2
    BY <2>6
  <2>8. \A j \in 1 .. n + 1 : j \in 1 .. n \/ j = n + 1
    BY <2>6
  <2>9. \A j \in 1 .. n + 1 : data'[chain'[j]] # key'
    BY <1>1, <2>1, <2>2, <2>3, <2>8 DEF memory
  <2>10. Passed(n + 1)'
    BY <1>1, <2>1, <2>4, <2>5, <2>7 DEF Passed
  <2>11. key' \in Values
    BY <1>1, <2>1 DEF IInv, Walk
  <2>12. n + 1 \in 0 .. Len(chain') /\ n + 1 # Len(chain')
    BY <1>1, <2>5, <2>7
  <2>13. Walk'
    BY <1>5, <2>9, <2>10, <2>11, <2>12 DEF Walk
  <2> QED
    BY <1>2, <1>3, <2>13 DEF IInv
<1> QED
  BY <1>1, <1>4, <1>5

(* One turn of the loop of get_ll_size. *)
LEMMA SizeOK ==
  ASSUME IInv, SizeStep
  PROVE  IInv'
<1>1. /\ pc = "size" /\ UNCHANGED <<ll, memory, file, chain>>
      /\ \/ pc' = "idle" /\ count' = 0 /\ pos' = 0
         \/ pc' = "size" /\ aux # Null /\ count' = count + 1 /\ aux' = next[aux]
  BY DEF SizeStep, Return, IInv
<1>2. ListLinked' /\ Filled'
  BY <1>1, SameCells
<1>3. Types' /\ Reading'
  BY <1>1 DEF IInv, Types, Reading, memory
<1>4. CASE pc' = "idle"
  BY <1>2, <1>3, <1>4 DEF IInv, Walk
<1>5. CASE pc' = "size"
  <2>1. aux # Null /\ aux' = next[aux] /\ Passed(count)
    BY <1>1, <1>5 DEF IInv, Walk
  <2>2. /\ count \in 0 .. Len(chain) - 1
        /\ next[aux] = IF count + 1 = Len(chain) THEN Null ELSE chain[count + 2]
    BY <1>1, <2>1, Moves DEF IInv
  <2>3. PICK m \in Nat : m = Len(chain)
    BY DEF IInv, Types
  <2>4. count + 1 \in 0 .. m /\ (count + 1) + 1 = count + 2
    BY <2>2, <2>3
  <2>5. count' \in 0 .. Len(chain')
          /\ aux' = IF count' = Len(chain') THEN Null ELSE chain'[count' + 1]
    BY <1>1, <1>5, <2>1, <2>2, <2>3, <2>4
  <2>6. Walk'
    BY <1>5, <2>5 DEF Walk, Passed
  <2> QED
    BY <1>2, <1>3, <2>6 DEF IInv
<1> QED
  BY <1>1, <1>4, <1>5

(* One number of export_ll_to_disk. *)
LEMMA WriteOK ==
  ASSUME IInv, WriteStep
  PROVE  IInv'
<1>1. /\ pc = "write" /\ UNCHANGED <<ll, memory, chain>>
      /\ \/ pc' = "idle" /\ count' = 0 /\ pos' = 0 /\ aux = Null /\ file' = file
         \/ /\ pc' = "write" /\ aux # Null /\ aux' = next[aux]
            /\ \E g \in Behind : file' = Append(file, data[aux] + g * Width)
  BY DEF WriteStep, Return, IInv
<1>2. ListLinked' /\ Filled'
  BY <1>1, SameCells
<1>3. Types'
  BY <1>1 DEF IInv, Types, memory
<1>4. /\ chain # <<>> /\ file \in Seq(Nat) /\ Passed(Len(file))
      /\ \A i \in 1 .. Len(file) : file[i] % Width = data[chain[i]]
  BY <1>1 DEF IInv, Walk
<1>5. PICK m \in Nat, n \in Nat : m = Len(chain) /\ n = Len(file)
  BY <1>4 DEF IInv, Types
<1>6. CASE pc' = "idle"
  <2>1. m # 0
    BY <1>4, <1>5, EmptySeq DEF IInv, Types
  <2>2. n = m
    <3>1. n # m => n + 1 \in 1 .. m
      BY <1>4, <1>5 DEF Passed
    <3>2. n # m => chain[n + 1] \in Cells
      BY <3>1, <1>5 DEF IInv, Types
    <3>3. aux = Null
      BY <1>1, <1>6
    <3> QED
      BY <3>2, <3>3, <1>4, <1>5, CellsAssumption DEF Passed
  <2>3. Reading'
    BY <1>1, <1>4, <1>5, <1>6, <2>1, <2>2 DEF Reading
  <2> QED
    BY <1>2, <1>3, <1>6, <2>3 DEF IInv, Walk
<1>7. CASE pc' = "write"
  <2>1. aux # Null /\ aux' = next[aux]
    BY <1>1, <1>7
  <2>2. PICK g \in Behind : file' = Append(file, data[aux] + g * Width)
    BY <1>1, <1>7
  <2>3. /\ n \in 0 .. m - 1 /\ n + 1 \in DOMAIN chain /\ aux = chain[n + 1]
        /\ next[aux] = IF n + 1 = m THEN Null ELSE chain[n + 2]
    BY <1>1, <1>4, <1>5, <2>1, Moves DEF IInv
  <2>4. data[aux] \in Values /\ g \in Nat
    BY <2>3, WidthAssumption DEF IInv, Filled
  <2>5. PICK x \in Nat : x = data[aux] + g * Width /\ x % Width = data[aux]
    BY <2>4, CutOff
  <2>6. /\ file' \in Seq(Nat) /\ Len(file') = n + 1
        /\ \A i \in 1 .. n : file'[i] = file[i]
        /\ file'[n + 1] = x
    BY <1>4, <1>5, <2>2, <2>5, AppendProperties
  <2>7. n + 1 \in 0 .. m /\ (n + 1) + 1 = n + 2
    BY <2>3
  <2>8. Passed(Len(file))'
    BY <1>1, <1>5, <2>1, <2>3, <2>6, <2>7 DEF Passed
  <2>9. \A i \in 1 .. n + 1 : i \in 1 .. n \/ i = n + 1
    OBVIOUS
  <2>10. \A i \in 1 .. n + 1 : file'[i] % Width = data[chain[i]]
    BY <1>4, <1>5, <2>3, <2>5, <2>6, <2>9
  <2>11. \A i \in 1 .. Len(file') : file'[i] % Width = data'[chain'[i]]
    BY <1>1, <2>6, <2>10 DEF memory
  <2>12. Walk'
    BY <1>1, <1>4, <1>7, <2>6, <2>8, <2>11 DEF Walk
  <2> QED
    BY <1>2, <1>3, <1>7, <2>12 DEF IInv, Reading
<1> QED
  BY <1>1, <1>6, <1>7

(* One number of read_ll_from_disk. *)
LEMMA ReadOK ==
  ASSUME IInv, ReadStep
  PROVE  IInv'
<1>1. /\ pc = "read" /\ UNCHANGED <<ll, file>>
      /\ Link(file[pos + 1] % Width)
      /\ \/ pc' = "idle" /\ count' = 0 /\ pos' = 0
         \/ pc' = "read" /\ pos' = pos + 1 /\ before' = before /\ pos + 1 # Len(file)
  BY DEF ReadStep, Return
<1>2. /\ file # NoFile /\ pos \in 0 .. Len(file) - 1 /\ before \in Nat
      /\ Len(chain) = before + pos
      /\ \A i \in 1 .. pos : data[chain[i]] = file[pos + 1 - i] % Width
      /\ file \in Seq(Nat) /\ Len(file) # 0
  BY <1>1 DEF IInv, Reading
<1>3. PICK n \in Nat \ {0} : n = Len(file)
  BY <1>2
<1>4. PICK p \in 0 .. n - 1 : p = pos
  BY <1>2, <1>3
<1>5. PICK v \in Values : v = file[pos + 1] % Width
  <2>1. p + 1 \in 1 .. n
    OBVIOUS
  <2>2. file[pos + 1] \in Nat
    BY <2>1, <1>2, <1>3, <1>4
  <2> QED
    BY <2>2, ReadFits
<1>6. /\ ListLinked' /\ Filled'
      /\ next' \in [Cells -> Cells \cup {Null}]
      /\ data' \in [Cells -> Values \cup {NoValue}]
      /\ chain' \in Seq(Cells)
      /\ Len(chain) \in Nat /\ Len(chain') = Len(chain) + 1
      /\ data'[chain'[1]] = v
      /\ \A i \in 1 .. Len(chain) : data'[chain'[i + 1]] = data[chain[i]]
  BY <1>1, <1>5, LinkOK
<1>7. Types'
  BY <1>1, <1>6 DEF IInv, Types
<1>8. Walk'
  BY <1>1 DEF Walk
<1>9. CASE pc' = "idle"
  BY <1>1, <1>2, <1>6, <1>7, <1>8, <1>9 DEF IInv, Reading
<1>10. CASE pc' = "read"
  <2>1. p + 1 \in 0 .. n - 1
    BY <1>1, <1>3, <1>4, <1>10
  <2>2. pos' = p + 1 /\ before' = before /\ file' = file
    BY <1>1, <1>4, <1>10
  <2>3. Len(chain') = before' + pos'
    BY <1>2, <1>4, <1>6, <2>2
  <2>4. ASSUME NEW i \in 1 .. p + 1
        PROVE  data'[chain'[i]] = file[p + 1 + 1 - i] % Width
    <3>1. CASE i = 1
      <4>1. p + 1 + 1 - i = p + 1
        BY <3>1
      <4> QED
        BY <3>1, <4>1, <1>4, <1>5, <1>6
    <3>2. CASE i # 1
      <4>1. i - 1 \in 1 .. p /\ (i - 1) + 1 = i /\ p + 1 - (i - 1) = p + 1 + 1 - i
        BY <3>2
      <4>2. i - 1 \in 1 .. Len(chain)
        <5>1. PICK b \in Nat : b = before
          BY <1>2
        <5>2. i - 1 \in 1 .. b + p
          BY <4>1
        <5> QED
          BY <5>1, <5>2, <1>2, <1>4
      <4>3. data'[chain'[(i - 1) + 1]] = data[chain[i - 1]]
        BY <4>2, <1>6
      <4>4. data[chain[i - 1]] = file[p + 1 - (i - 1)] % Width
        BY <4>1, <1>2, <1>4
      <4> QED
        BY <4>1, <4>3, <4>4
    <3> QED
      BY <3>1, <3>2
  <2>5. Reading'
    BY <1>2, <1>3, <1>10, <2>1, <2>2, <2>3, <2>4 DEF Reading
  <2> QED
    BY <1>6, <1>7, <1>8, <2>5 DEF IInv
<1> QED
  BY <1>1, <1>9, <1>10

(* The calls that only begin something, or end at once. *)
LEMMA CallsOK ==
  ASSUME IInv,
         \/ \E v \in Values : SearchCall(v)
         \/ OutOfMemory \/ RemoveEmpty \/ SizeCall \/ WriteCall \/ ReadCall \/ ClearCall
  PROVE  IInv'
<1>1. UNCHANGED <<ll, memory, chain>>
  BY DEF SearchCall, OutOfMemory, RemoveEmpty, SizeCall, WriteCall, ReadCall, ClearCall
<1>2. CASE OutOfMemory
  <2>1. UNCHANGED <<pc, locals, file>>
    BY <1>2 DEF OutOfMemory
  <2>2. ListLinked' /\ Filled'
    BY <1>1, <2>1, SameCells DEF IInv, Filled, locals
  <2> QED
    BY <1>1, <2>1, <2>2 DEF IInv, Types, Walk, Passed, Reading, locals, memory
<1>3. CASE ~ OutOfMemory
  <2>1. pc = "idle" /\ count = 0 /\ pos = 0
    BY <1>3 DEF SearchCall, RemoveEmpty, SizeCall, WriteCall, ReadCall, ClearCall,
                Ready, IInv, Filled
  <2>2. /\ pc' \in {"idle", "search", "size", "write", "read", "clear"}
        /\ count' = 0 /\ pos' = 0
    BY <1>3, <2>1 DEF SearchCall, RemoveEmpty, SizeCall, WriteCall, ReadCall, ClearCall,
                      Return, locals
  <2>3. ListLinked' /\ Filled' /\ Types'
    BY <1>1, <2>1, <2>2, SameCells DEF IInv, Types, memory
  <2>4. Len(chain) \in Nat /\ (chain = <<>> <=> Len(chain) = 0)
    BY EmptySeq DEF IInv, Types
  <2>5. /\ next[ll] = Null <=> chain = <<>>
        /\ aux' = next[ll] => Passed(0)'
    BY <1>1, <2>1, <2>2, <2>3, EmptyList DEF IInv, memory, Passed, ListLinked
  <2>6. CASE \E v \in Values : SearchCall(v)
    <3>1. PICK v \in Values : SearchCall(v)
      BY <2>6
    <3>2. file' = file
      BY <3>1 DEF SearchCall
    <3>3. CASE next[ll] = Null
      <4>1. pc' = "idle"
        BY <3>1, <3>3 DEF SearchCall, Return
      <4> QED
        BY <2>1, <2>3, <3>2, <4>1 DEF IInv, Walk, Reading
    <3>4. CASE next[ll] # Null
      <4>1. pc' = "search" /\ aux' = next[ll] /\ key' = v
        BY <3>1, <3>4 DEF SearchCall
      <4>2. 0 # Len(chain') /\ 0 \in 0 .. Len(chain')
        BY <1>1, <2>4, <2>5, <3>4
      <4>3. Walk'
        BY <2>5, <4>1, <4>2 DEF Walk
      <4> QED
        BY <2>1, <2>3, <3>2, <4>1, <4>3 DEF IInv, Reading
    <3> QED
      BY <3>3, <3>4
  <2>7. CASE SizeCall
    <3>1. pc' = "size" /\ aux' = next[ll] /\ file' = file
      BY <2>7 DEF SizeCall
    <3>2. Walk'
      BY <2>2, <2>5, <3>1 DEF Walk
    <3> QED
      BY <2>1, <2>3, <3>1, <3>2 DEF IInv, Reading
  <2>8. CASE WriteCall
    <3>1. CASE pc' = "idle"
      <4>1. file' = file
        BY <2>8, <3>1 DEF WriteCall, Return
      <4> QED
        BY <2>1, <2>3, <3>1, <4>1 DEF IInv, Walk, Reading
    <3>2. CASE pc' # "idle"
      <4>1. next[ll] # Null /\ pc' = "write" /\ aux' = next[ll] /\ file' = <<>>
        BY <2>8, <3>2 DEF WriteCall, Return
      <4>2. file' \in Seq(Nat) /\ Len(file') = 0
        BY <4>1, EmptySeq
      <4>3. Walk'
        BY <1>1, <2>5, <4>1, <4>2 DEF Walk
      <4> QED
        BY <2>3, <4>1, <4>3 DEF IInv, Reading
    <3> QED
      BY <3>1, <3>2
  <2>9. CASE ReadCall
    <3>1. file' = file
      BY <2>9 DEF ReadCall
    <3>2. CASE pc' = "idle"
      BY <2>1, <2>3, <3>1, <3>2 DEF IInv, Walk, Reading
    <3>3. CASE pc' # "idle"
      <4>1. file # NoFile /\ pc' = "read" /\ before' = Len(chain)
        BY <2>9, <3>3 DEF ReadCall, Return
      <4>2. file \in Seq(Nat) /\ Len(file) # 0
        BY <2>1, <4>1 DEF IInv, Reading
      <4>3. PICK n \in Nat : n = Len(file)
        BY <4>2
      <4>4. 0 \in 0 .. n - 1
        BY <4>2, <4>3
      <4>5. /\ before' \in Nat /\ Len(chain') = before' + 0
            /\ \A i \in 1 .. 0 : data'[chain'[i]] = file'[0 + 1 - i] % Width
        BY <1>1, <2>4, <4>1
      <4>6. Reading'
        BY <2>2, <3>1, <3>3, <4>1, <4>2, <4>3, <4>4, <4>5 DEF Reading
      <4> QED
        BY <2>3, <4>1, <4>6 DEF IInv, Walk
    <3> QED
      BY <3>2, <3>3
  <2>10. CASE RemoveEmpty \/ ClearCall
    <3>1. pc' \in {"idle", "clear"} /\ file' = file
      BY <2>10 DEF RemoveEmpty, ClearCall, Return
    <3> QED
      BY <2>1, <2>3, <3>1 DEF IInv, Walk, Reading
  <2> QED
    BY <1>3, <2>6, <2>7, <2>8, <2>9, <2>10
<1> QED
  BY <1>2, <1>3

(* Every step keeps the invariant. *)
LEMMA StepOK == IInv /\ [Next]_vars => IInv'
<1> SUFFICES ASSUME IInv, [Next]_vars PROVE IInv'
  OBVIOUS
<1>1. ASSUME NEW v \in Values, Insert(v) PROVE IInv'
  <2>1. /\ Link(v) /\ pc = "idle" /\ pc' = "idle" /\ UNCHANGED <<ll, file>>
        /\ count' = 0 /\ pos' = 0
    BY <1>1 DEF Insert, Ready, Return
  <2>2. /\ ListLinked' /\ Filled'
        /\ next' \in [Cells -> Cells \cup {Null}]
        /\ data' \in [Cells -> Values \cup {NoValue}]
        /\ chain' \in Seq(Cells)
    BY <2>1, LinkOK
  <2>3. Types' /\ Walk' /\ Reading'
    BY <2>1, <2>2 DEF IInv, Types, Walk, Reading
  <2> QED
    BY <2>2, <2>3 DEF IInv
<1>2. CASE Remove \/ ClearRemove
  <2>1. /\ Unlink /\ next[ll] # Null /\ pc \in {"idle", "clear"} /\ pc' = pc
        /\ UNCHANGED <<ll, file>> /\ count' = 0 /\ pos' = 0
    BY <1>2 DEF Remove, ClearRemove, Ready, Return, locals, IInv, Filled
  <2>2. /\ ListLinked' /\ Filled'
        /\ next' \in [Cells -> Cells \cup {Null}]
        /\ chain' \in Seq(Cells) /\ data' = data
    BY <2>1, UnlinkOK
  <2>3. Types' /\ Walk' /\ Reading'
    BY <2>1, <2>2 DEF IInv, Types, Walk, Reading
  <2> QED
    BY <2>2, <2>3 DEF IInv
<1>3. CASE ClearEnd
  <2>1. /\ pc = "clear" /\ pc' = "cleared" /\ cells' = cells \ {ll}
        /\ UNCHANGED <<ll, next, data, blocks, file, count, pos, chain>>
    BY <1>3 DEF ClearEnd, locals
  <2>2. chain = <<>> /\ Queued = {} /\ Queued' = {} /\ DOMAIN chain = {}
    BY <1>3, <2>1, EmptyList DEF ClearEnd, IInv, Queued
  <2>3. ListLinked'
    BY <2>1, <2>2 DEF IInv, ListLinked
  <2> QED
    BY <2>1, <2>2, <2>3 DEF IInv, Types, Filled, Walk, Reading
<1>4. CASE InitAgain
  <2>1. /\ pc = "cleared" /\ pc' = "idle" /\ ll' \in Cells \ cells
        /\ next' = [next EXCEPT ![ll'] = Null] /\ data' = [data EXCEPT ![ll'] = NoValue]
        /\ cells' = cells \cup {ll'}
        /\ UNCHANGED <<blocks, file, count, pos, chain>>
    BY <1>4 DEF InitAgain, locals
  <2>2. chain = <<>> /\ Queued = {} /\ Queued' = {} /\ DOMAIN chain = {}
    BY <2>1 DEF IInv, Filled, Queued
  <2>3. Types'
    BY <2>1 DEF IInv, Types
  <2>4. ListLinked'
    BY <2>1, <2>2 DEF IInv, ListLinked, Types
  <2> QED
    BY <2>1, <2>2, <2>3, <2>4 DEF IInv, Filled, Walk, Reading
<1>5. CASE UNCHANGED vars
  BY <1>5 DEF vars, memory, locals, IInv, Types, ListLinked, Queued, Filled, Walk, Passed,
              Reading
<1> QED
  BY <1>1, <1>2, <1>3, <1>4, <1>5, SearchOK, SizeOK, WriteOK, ReadOK, CallsOK DEF Next

LEMMA Invariance == Spec => []IInv
<1>1. Init => IInv
  BY InitOK
<1> QED
  BY <1>1, StepOK, PTL DEF Spec

(* The links of a list always lead through its cells and end, and what is  *)
(* allocated is the sentinel, these cells and their blocks, each once, and *)
(* nothing after a clear: in every loop of GenericLinkedList.c too.        *)
THEOREM ListIsLinked == Spec => []ListLinked
<1>1. IInv => ListLinked
  BY DEF IInv
<1> QED
  BY <1>1, Invariance, PTL

-----------------------------------------------------------------------------
(* How many numbers a read has put before what the list held. *)
Offset == IF pc = "read" THEN pos ELSE 0

(* The last n cells of a sequence. *)
LEMMA LastCells ==
  ASSUME NEW s \in Seq(Cells), NEW d \in Nat, NEW n \in Nat, Len(s) = n + d
  PROVE  LET k == SubSeq(s, Len(s) - n + 1, Len(s))
         IN  Len(k) = n /\ \A i \in 1 .. n : k[i] = s[d + i]
<1> DEFINE k == SubSeq(s, Len(s) - n + 1, Len(s))
<1>1. DOMAIN s = 1 .. n + d
  OBVIOUS
<1>2. (n + d) - n + 1 = d + 1 /\ d + 1 \in Int /\ n + d \in Int
  OBVIOUS
<1>3. k = SubSeq(s, d + 1, n + d)
  BY <1>2
<1> HIDE DEF k
<1>4. \A i \in d + 1 .. n + d : s[i] \in Cells
  <2>1. \A i \in d + 1 .. n + d : i \in 1 .. n + d
    OBVIOUS
  <2> QED
    BY <2>1, <1>1
<1>5. /\ Len(k) = IF d + 1 <= n + d THEN (n + d) - (d + 1) + 1 ELSE 0
      /\ \A i \in 1 .. (n + d) - (d + 1) + 1 : k[i] = s[(d + 1) + i - 1]
  <2>1. PICK a \in Int, b \in Int : a = d + 1 /\ b = n + d
    BY <1>2
  <2>2. \A i \in a .. b : s[i] \in Cells
    BY <1>4, <2>1
  <2>3. /\ Len(SubSeq(s, a, b)) = IF a <= b THEN b - a + 1 ELSE 0
        /\ \A i \in 1 .. b - a + 1 : SubSeq(s, a, b)[i] = s[a + i - 1]
    BY <2>2, SubSeqProperties
  <2> QED
    BY <1>3, <2>1, <2>3
<1>6. /\ (IF d + 1 <= n + d THEN (n + d) - (d + 1) + 1 ELSE 0) = n
      /\ (n + d) - (d + 1) + 1 = n
      /\ \A i \in 1 .. n : (d + 1) + i - 1 = d + i
  OBVIOUS
<1>7. Len(k) = n /\ \A i \in 1 .. n : k[i] = s[d + i]
  BY <1>5, <1>6
<1> QED
  BY <1>7 DEF k

(* What the list holds: the values of its last cells. *)
ItemsAreLast ==
  /\ Items \in Seq(Values) /\ Len(Items) \in Nat /\ Offset \in Nat
  /\ Len(chain) = Len(Items) + Offset
  /\ \A i \in 1 .. Len(Items) : Items[i] = data[chain[Offset + i]]
  /\ Items = <<>> <=> Len(Items) = 0

LEMMA ItemsNow == IInv => ItemsAreLast
<1> SUFFICES ASSUME IInv PROVE ItemsAreLast
  OBVIOUS
<1>1. chain \in Seq(Cells) /\ Len(chain) \in Nat /\ \A i \in DOMAIN chain : data[chain[i]] \in Values
  BY DEF IInv, Types, Filled
<1>2. CASE pc = "read"
  <2>1. /\ pos \in 0 .. Len(file) - 1 /\ before \in Nat /\ Len(chain) = before + pos
        /\ Offset = pos /\ file \in Seq(Nat)
    BY <1>2 DEF IInv, Reading, Offset
  <2>2. Offset \in Nat
    BY <2>1
  <2>3. PICK d \in Nat, b \in Nat : d = Offset /\ b = before
    BY <2>1, <2>2
  <2>4. Len(chain) = b + d
    BY <2>1, <2>3
  <2>5. PICK k : k = SubSeq(chain, Len(chain) - b + 1, Len(chain))
    OBVIOUS
  <2>6. Len(k) = b /\ \A i \in 1 .. b : k[i] = chain[d + i]
    BY <1>1, <2>4, <2>5, LastCells
  <2>7. PICK t : t = [i \in 1 .. Len(k) |-> data[k[i]]]
    OBVIOUS
  <2>8. Items = t
    BY <1>2, <2>3, <2>5, <2>7 DEF Items
  <2>9. t \in Seq(Values) /\ Len(t) = b /\ \A i \in 1 .. b : t[i] = data[chain[d + i]]
    <3>1. \A i \in 1 .. b : d + i \in 1 .. b + d
      OBVIOUS
    <3>2. \A i \in 1 .. b : data[k[i]] = data[chain[d + i]] /\ data[k[i]] \in Values
      BY <3>1, <1>1, <2>4, <2>6
    <3>3. t = [i \in 1 .. b |-> data[k[i]]]
      BY <2>6, <2>7
    <3>4. t \in Seq(Values) /\ Len(t) = b /\ \A i \in 1 .. b : t[i] = data[k[i]]
      BY <3>2, <3>3
    <3> QED
      BY <3>2, <3>4
  <2> QED
    BY <1>1, <2>3, <2>4, <2>8, <2>9, EmptySeq DEF ItemsAreLast
<1>3. CASE pc # "read"
  <2>1. Offset = 0
    BY <1>3 DEF Offset
  <2>2. PICK t : t = [i \in 1 .. Len(chain) |-> data[chain[i]]]
    OBVIOUS
  <2>3. Items = t
    BY <1>3, <2>2 DEF Items
  <2>4. PICK n \in Nat : n = Len(chain)
    BY <1>1
  <2>5. n = n + 0 /\ \A i \in 1 .. n : 0 + i = i
    OBVIOUS
  <2>6. t = [i \in 1 .. n |-> data[chain[i]]] /\ \A i \in 1 .. n : data[chain[i]] \in Values
    BY <1>1, <2>2, <2>4
  <2>7. t \in Seq(Values) /\ Len(t) = n /\ \A i \in 1 .. n : t[i] = data[chain[0 + i]]
    BY <2>5, <2>6
  <2> QED
    BY <2>1, <2>3, <2>4, <2>5, <2>7, EmptySeq DEF ItemsAreLast
<1> QED
  BY <1>2, <1>3

LEMMA ItemsThen == IInv' => ItemsAreLast'
  BY ItemsNow, PTL

(* Two states whose lists hold the same values, cell by cell. *)
LEMMA SameItems ==
  ASSUME IInv, IInv', Len(chain') - Offset' = Len(chain) - Offset,
         \A i \in 1 .. Len(chain) - Offset :
           data'[chain'[Offset' + i]] = data[chain[Offset + i]]
  PROVE  Items' = Items
<1>1. ItemsAreLast /\ ItemsAreLast'
  BY ItemsNow, ItemsThen
<1>2. /\ Items \in Seq(Values) /\ Items' \in Seq(Values)
      /\ Len(Items) = Len(chain) - Offset /\ Len(Items') = Len(chain') - Offset'
  BY <1>1 DEF ItemsAreLast
<1>3. Len(Items') = Len(Items)
  BY <1>2
<1>4. \A i \in 1 .. Len(Items) : Items'[i] = Items[i]
  BY <1>1, <1>2, <1>3 DEF ItemsAreLast
<1> QED
  BY <1>2, <1>3, <1>4, SeqEqual

(* An insertion puts its value before the others. *)
LEMMA LinkPrepends ==
  ASSUME IInv, IInv', NEW v \in Values, Link(v), ll' = ll,
         pc \notin {"cleared", "read"}, pc' \notin {"cleared", "read"},
         pc' \in {"idle", "clear"} => count' = 0 /\ pos' = 0
  PROVE  Items' = <<v>> \o Items
<1>1. ItemsAreLast /\ ItemsAreLast' /\ Offset = 0 /\ Offset' = 0
  BY ItemsNow, ItemsThen DEF Offset
<1>2. PICK n \in Nat : n = Len(Items)
  BY <1>1 DEF ItemsAreLast
<1>3. /\ Len(chain) \in Nat /\ Len(chain') = Len(chain) + 1
      /\ data'[chain'[1]] = v
      /\ \A i \in 1 .. Len(chain) : data'[chain'[i + 1]] = data[chain[i]]
  BY LinkOK
<1>4. Len(chain) = n /\ Len(chain') = n + 1
  BY <1>1, <1>2, <1>3 DEF ItemsAreLast
<1>5. Len(Items') = n + 1
  BY <1>1, <1>4 DEF ItemsAreLast
<1>6. \A i \in 1 .. n + 1 : 0 + i = i
  OBVIOUS
<1>7. /\ \A i \in 1 .. n : Items[i] = data[chain[i]]
      /\ \A i \in 1 .. n + 1 : Items'[i] = data'[chain'[i]]
  BY <1>1, <1>2, <1>5, <1>6 DEF ItemsAreLast
<1>8. /\ <<v>> \in Seq(Values) /\ Len(<<v>>) = 1 /\ <<v>>[1] = v
  OBVIOUS
<1>9. /\ <<v>> \o Items \in Seq(Values)
      /\ Len(<<v>> \o Items) = 1 + n
      /\ \A i \in 1 .. 1 + n : (<<v>> \o Items)[i] = IF i <= 1 THEN <<v>>[i] ELSE Items[i - 1]
  <2>1. PICK a \in Seq(Values), b \in Seq(Values) : a = <<v>> /\ b = Items
    BY <1>1, <1>8 DEF ItemsAreLast
  <2>2. /\ a \o b \in Seq(Values)
        /\ Len(a \o b) = Len(a) + Len(b)
        /\ \A i \in 1 .. Len(a) + Len(b) :
             (a \o b)[i] = IF i <= Len(a) THEN a[i] ELSE b[i - Len(a)]
    BY ConcatProperties
  <2>3. Len(a) = 1 /\ Len(b) = n
    BY <2>1, <1>2, <1>8
  <2> QED
    BY <2>1, <2>2, <2>3
<1>10. ASSUME NEW i \in 1 .. n + 1 PROVE Items'[i] = (<<v>> \o Items)[i]
  <2>1. CASE i = 1
    <3>1. i <= 1 /\ i \in 1 .. 1 + n
      BY <2>1
    <3> QED
      BY <2>1, <3>1, <1>3, <1>7, <1>8, <1>9
  <2>2. CASE i # 1
    <3>1. i - 1 \in 1 .. n /\ (i - 1) + 1 = i /\ ~(i <= 1) /\ i \in 1 .. 1 + n
      BY <2>2
    <3>2. data'[chain'[(i - 1) + 1]] = data[chain[i - 1]]
      BY <3>1, <1>3, <1>4
    <3> QED
      BY <3>1, <3>2, <1>7, <1>9
  <2> QED
    BY <2>1, <2>2
<1>11. Items' \in Seq(Values)
  BY <1>1 DEF ItemsAreLast
<1>12. n + 1 = 1 + n
  OBVIOUS
<1> QED
  BY <1>5, <1>9, <1>10, <1>11, <1>12, SeqEqual

(* A removal takes out the first value. *)
LEMMA UnlinkTakesHead ==
  ASSUME IInv, IInv', Unlink, next[ll] # Null, ll' = ll,
         pc \in {"idle", "clear"}, pc' \in {"idle", "clear"}, count' = 0 /\ pos' = 0
  PROVE  /\ Items # <<>>
         /\ Items' = Tail(Items)
         /\ Head(Items) = data[next[ll]]
<1>1. ItemsAreLast /\ ItemsAreLast' /\ Offset = 0 /\ Offset' = 0
  BY ItemsNow, ItemsThen DEF Offset
<1>2. /\ chain # <<>> /\ next[ll] = chain[1] /\ data' = data
      /\ chain' = Tail(chain) /\ chain' \in Seq(Cells)
  BY UnlinkOK
<1>3. PICK n \in Nat : n = Len(Items)
  BY <1>1 DEF ItemsAreLast
<1>4. chain \in Seq(Cells) /\ Len(chain) = n
  BY <1>1, <1>3 DEF ItemsAreLast, IInv, Types
<1>5. /\ Len(chain') = n - 1
      /\ \A i \in 1 .. Len(chain') : chain'[i] = chain[i + 1]
  BY <1>2, <1>4, HeadTailProperties
<1>6. n # 0
  BY <1>2, <1>4, EmptySeq
<1>7. Items # <<>> /\ Head(Items) = Items[1]
  BY <1>1, <1>3, <1>6 DEF ItemsAreLast
<1>8. /\ Tail(Items) \in Seq(Values)
      /\ Len(Tail(Items)) = n - 1
      /\ \A i \in 1 .. n - 1 : Tail(Items)[i] = Items[i + 1]
  BY <1>1, <1>3, <1>7, HeadTailProperties DEF ItemsAreLast
<1>9. \A i \in 1 .. n : 0 + i = i
  OBVIOUS
<1>10. Len(Items') = n - 1 /\ Items' \in Seq(Values)
  BY <1>1, <1>5, <1>6 DEF ItemsAreLast
<1>11. \A i \in 1 .. n - 1 : i \in 1 .. n /\ i + 1 \in 1 .. n
  OBVIOUS
<1>12. /\ \A i \in 1 .. n : Items[i] = data[chain[i]]
       /\ \A i \in 1 .. n - 1 : Items'[i] = data'[chain'[i]]
  BY <1>1, <1>3, <1>9, <1>10, <1>11 DEF ItemsAreLast
<1>13. ASSUME NEW i \in 1 .. n - 1 PROVE Items'[i] = Tail(Items)[i]
  <2>1. Items'[i] = data[chain[i + 1]]
    BY <1>2, <1>5, <1>12
  <2>2. Items[i + 1] = data[chain[i + 1]]
    BY <1>11, <1>12
  <2> QED
    BY <2>1, <2>2, <1>8
<1>14. Items' = Tail(Items)
  BY <1>8, <1>10, <1>13, SeqEqual
<1>15. Items[1] = data[chain[1]]
  BY <1>6, <1>12
<1> QED
  BY <1>2, <1>7, <1>14, <1>15

(* A number that is not the last one leaves what the list held. *)
LEMMA ReadGoesOn ==
  ASSUME IInv, IInv', ReadStep, pos + 1 # Len(file)
  PROVE  Items' = Items /\ pc' = "read" /\ UNCHANGED <<file, answer>>
<1>1. /\ pc = "read" /\ pc' = "read" /\ ll' = ll /\ pos' = pos + 1
      /\ UNCHANGED <<file, answer>>
      /\ Link(file[pos + 1] % Width)
  BY DEF ReadStep
<1>2. file \in Seq(Nat) /\ pos \in 0 .. Len(file) - 1 /\ pos + 1 \in 1 .. Len(file)
  <2>1. file \in Seq(Nat) /\ pos \in 0 .. Len(file) - 1
    BY <1>1 DEF IInv, Reading
  <2>2. \A n, p \in Int : p \in 0 .. n - 1 => p + 1 \in 1 .. n
    OBVIOUS
  <2>3. Len(file) \in Int /\ pos \in Int
    BY <2>1
  <2> QED
    BY <2>1, <2>2, <2>3
<1>3. file[pos + 1] % Width \in Values
  <2>1. file[pos + 1] \in Nat
    BY <1>2
  <2> QED
    BY <2>1, ReadFits
<1>4. /\ Len(chain) \in Nat /\ Len(chain') = Len(chain) + 1
      /\ \A i \in 1 .. Len(chain) : data'[chain'[i + 1]] = data[chain[i]]
  BY <1>1, <1>3, LinkOK
<1>5. PICK p \in Nat : Offset = p /\ Offset' = p + 1
  BY <1>1, <1>2 DEF Offset
<1>6. PICK m \in Nat, n \in Nat : m = Len(Items) /\ n = Len(chain) /\ n = m + p
  BY <1>5, ItemsNow DEF ItemsAreLast
<1>7. \A i \in 1 .. m : p + i \in 1 .. n /\ (p + i) + 1 = (p + 1) + i
  BY <1>6
<1>8. n - p = m /\ (n + 1) - (p + 1) = m
  BY <1>6
<1>9. ASSUME NEW i \in 1 .. m
      PROVE  data'[chain'[(p + 1) + i]] = data[chain[p + i]]
  BY <1>4, <1>6, <1>7
<1>10. Items' = Items
  BY <1>4, <1>5, <1>6, <1>8, <1>9, SameItems
<1> QED
  BY <1>1, <1>10

(* With its last number the whole file stands before what the list held,   *)
(* the last number first.                                                  *)
LEMMA ReadEnds ==
  ASSUME IInv, IInv', ReadStep, pos + 1 = Len(file)
  PROVE  Items' = [i \in 1 .. Len(file) |-> file[Len(file) + 1 - i] % Width] \o Items
<1>1. /\ pc = "read" /\ pc' = "idle" /\ ll' = ll /\ count' = 0 /\ pos' = 0
      /\ Link(file[pos + 1] % Width)
  BY DEF ReadStep, Return
<1>2. /\ file \in Seq(Nat) /\ pos \in 0 .. Len(file) - 1
      /\ \A i \in 1 .. pos : data[chain[i]] = file[pos + 1 - i] % Width
  BY <1>1 DEF IInv, Reading
<1>3. PICK n \in Nat : n = Len(file)
  BY <1>2
<1>4. PICK p \in Nat : p = pos /\ p + 1 = n
  BY <1>2, <1>3
<1>5. \A i \in 1 .. n : file[i] % Width \in Values
  BY <1>2, <1>3, ReadFits
<1>6. PICK v \in Values : v = file[n] % Width
  <2>1. n \in 1 .. n
    BY <1>4
  <2> QED
    BY <2>1, <1>5
<1>7. /\ Len(chain) \in Nat /\ Len(chain') = Len(chain) + 1
      /\ data'[chain'[1]] = v
      /\ \A i \in 1 .. Len(chain) : data'[chain'[i + 1]] = data[chain[i]]
  BY <1>1, <1>4, <1>6, LinkOK
<1>8. ItemsAreLast /\ ItemsAreLast' /\ Offset = p /\ Offset' = 0
  BY <1>1, <1>4, ItemsNow, ItemsThen DEF Offset
<1>9. PICK m \in Nat : m = Len(Items)
  BY <1>8 DEF ItemsAreLast
<1>10. Len(chain) = m + p /\ Len(Items') = (m + p) + 1
  BY <1>7, <1>8, <1>9 DEF ItemsAreLast
<1>11. \A i \in 1 .. (m + p) + 1 : 0 + i = i
  OBVIOUS
<1>12. \A i \in 1 .. (m + p) + 1 : Items'[i] = data'[chain'[i]]
  BY <1>8, <1>10, <1>11 DEF ItemsAreLast
<1> DEFINE r == [i \in 1 .. n |-> file[n + 1 - i] % Width]
<1>13. /\ r \in Seq(Values) /\ Len(r) = n
       /\ \A i \in 1 .. n : r[i] = file[n + 1 - i] % Width
  <2>1. \A i \in 1 .. n : n + 1 - i \in 1 .. n
    OBVIOUS
  <2>2. \A i \in 1 .. n : file[n + 1 - i] % Width \in Values
    BY <2>1, <1>5
  <2> QED
    BY <2>2
<1>14. r = [i \in 1 .. Len(file) |-> file[Len(file) + 1 - i] % Width]
  BY <1>3
<1> HIDE DEF r
<1>15. /\ r \o Items \in Seq(Values)
       /\ Len(r \o Items) = n + m
       /\ \A i \in 1 .. n + m : (r \o Items)[i] = IF i <= n THEN r[i] ELSE Items[i - n]
  <2>1. PICK a \in Seq(Values), b \in Seq(Values) : a = r /\ b = Items
    BY <1>8, <1>13 DEF ItemsAreLast
  <2>2. Len(a) = n /\ Len(b) = m
    BY <2>1, <1>9, <1>13
  <2>3. /\ a \o b \in Seq(Values)
        /\ Len(a \o b) = n + m
        /\ \A i \in 1 .. n + m : (a \o b)[i] = IF i <= n THEN a[i] ELSE b[i - n]
    <3>1. /\ a \o b \in Seq(Values)
          /\ Len(a \o b) = Len(a) + Len(b)
          /\ \A i \in 1 .. Len(a) + Len(b) :
               (a \o b)[i] = IF i <= Len(a) THEN a[i] ELSE b[i - Len(a)]
      BY ConcatProperties
    <3> QED
      BY <2>2, <3>1
  <2> QED
    BY <2>1, <2>3
<1>16. (m + p) + 1 = n + m
  BY <1>4
<1>17. ASSUME NEW i \in 1 .. n + m PROVE Items'[i] = (r \o Items)[i]
  <2>1. Items'[i] = data'[chain'[i]]
    BY <1>12, <1>16
  <2>2. CASE i = 1
    <3>1. i <= n /\ i \in 1 .. n /\ n + 1 - i = n
      BY <2>2, <1>4
    <3> QED
      BY <2>1, <2>2, <3>1, <1>6, <1>7, <1>13, <1>15
  <2>3. CASE i # 1
    <3>1. i - 1 \in 1 .. m + p /\ (i - 1) + 1 = i
      BY <2>3, <1>4
    <3>2. Items'[i] = data[chain[i - 1]]
      BY <2>1, <3>1, <1>7, <1>10
    <3>3. CASE i <= n
      <4>1. i - 1 \in 1 .. p /\ p + 1 - (i - 1) = n + 1 - i /\ i \in 1 .. n
        BY <2>3, <3>3, <1>4
      <4>2. data[chain[i - 1]] = file[n + 1 - i] % Width
        BY <4>1, <1>2, <1>4
      <4> QED
        BY <3>2, <3>3, <4>1, <4>2, <1>13, <1>15
    <3>4. CASE ~(i <= n)
      <4>1. i - n \in 1 .. m /\ p + (i - n) = i - 1
        BY <3>4, <1>4
      <4>2. Items[i - n] = data[chain[i - 1]]
        BY <4>1, <1>8, <1>9 DEF ItemsAreLast
      <4> QED
        BY <3>2, <3>4, <4>2, <1>15
    <3> QED
      BY <3>3, <3>4
  <2> QED
    BY <2>2, <2>3
<1>18. Items' \in Seq(Values) /\ Len(Items') = n + m
  BY <1>8, <1>10, <1>16 DEF ItemsAreLast
<1>19. Items' = r \o Items
  BY <1>15, <1>17, <1>18, SeqEqual
<1> QED
  BY <1>14, <1>19

(* What a search answers is true. *)
LEMMA SearchIsTrue ==
  ASSUME IInv, SearchStep, pc' # "search"
  PROVE  /\ key \in Values /\ pc' = "idle"
         /\ answer' = Reply("find", key, \E i \in DOMAIN Items : Items[i] = key)
<1>1. pc = "search" /\ pc' = "idle"
  BY DEF SearchStep, Return
<1>2. /\ key \in Values
      /\ \E n \in 0 .. Len(chain) :
           n # Len(chain) /\ Passed(n) /\ \A j \in 1 .. n : data[chain[j]] # key
  BY <1>1 DEF IInv, Walk
<1>3. PICK n \in 0 .. Len(chain) :
        n # Len(chain) /\ Passed(n) /\ \A j \in 1 .. n : data[chain[j]] # key
  BY <1>2
<1>4. PICK m \in Nat : m = Len(chain)
  BY DEF IInv, Types
<1>5. n \in 0 .. m /\ n # m /\ n + 1 \in 1 .. m /\ aux = chain[n + 1]
  BY <1>3, <1>4 DEF Passed
<1>6. aux # Null
  BY <1>4, <1>5, CellsAssumption DEF IInv, Types
<1>7. \A i \in 1 .. m : 0 + i = i
  OBVIOUS
<1>8. Items \in Seq(Values) /\ Len(Items) = m /\ \A i \in 1 .. m : Items[i] = data[chain[i]]
  <2>1. ItemsAreLast /\ Offset = 0
    BY <1>1, ItemsNow DEF Offset
  <2>2. Len(Items) \in Nat /\ Len(chain) = Len(Items) + 0
    BY <2>1 DEF ItemsAreLast
  <2>3. Len(Items) = m
    BY <2>2, <1>4
  <2> QED
    BY <2>1, <2>3, <1>7 DEF ItemsAreLast
<1>9. DOMAIN Items = 1 .. m
  BY <1>8
<1>10. CASE data[aux] = key
  <2>1. answer' = Reply("find", key, TRUE)
    BY <1>1, <1>10 DEF SearchStep, Return
  <2>2. \E i \in DOMAIN Items : Items[i] = key
    BY <1>5, <1>8, <1>9, <1>10
  <2> QED
    BY <1>1, <1>2, <2>1, <2>2
<1>11. CASE data[aux] # key
  <2>1. next[aux] = Null /\ answer' = Reply("find", key, FALSE)
    BY <1>1, <1>11 DEF SearchStep, Return
  <2>2. n + 1 = m
    BY <1>1, <1>3, <1>4, <1>6, <2>1, Moves DEF IInv
  <2>3. \A i \in 1 .. m : i \in 1 .. n \/ i = n + 1
    BY <1>5, <2>2
  <2>4. \A i \in 1 .. m : Items[i] # key
    BY <1>3, <1>5, <1>8, <1>11, <2>3
  <2>5. ~ \E i \in DOMAIN Items : Items[i] = key
    BY <1>9, <2>4
  <2> QED
    BY <1>1, <1>2, <2>1, <2>5
<1> QED
  BY <1>10, <1>11

(* Every step of the list is a step of the sequence, or none. *)
LEMMA StepIsLifo ==
  ASSUME IInv, IInv', [Next]_vars
  PROVE  [Store!Next]_(Store!vars)
<1> USE DEF Store!Reply, Reply
<1>1. ItemsAreLast
  BY ItemsNow
<1>2. ASSUME pc # "read", pc' # "read", UNCHANGED <<data, chain>> PROVE Items' = Items
  BY <1>2 DEF Items
<1>3. ASSUME pc = "idle" PROVE (next[ll] = Null <=> Items = <<>>)
  <2>1. Offset = 0 /\ (next[ll] = Null <=> chain = <<>>)
    BY <1>3, EmptyList DEF Offset, IInv
  <2>2. chain = <<>> <=> Len(chain) = 0
    BY EmptySeq DEF IInv, Types
  <2> QED
    BY <1>1, <2>1, <2>2 DEF ItemsAreLast
<1>4. ASSUME NEW v \in Values, Insert(v) PROVE Store!Put(v)
  <2>1. /\ Link(v) /\ pc = "idle" /\ pc' = "idle" /\ UNCHANGED <<ll, file>>
        /\ count' = 0 /\ pos' = 0 /\ answer' = Reply("put", v, TRUE)
    BY <1>4 DEF Insert, Ready, Return
  <2>2. Items' = <<v>> \o Items
    BY <2>1, LinkPrepends
  <2> QED
    BY <2>1, <2>2 DEF Store!Put, Store!Add
<1>5. ASSUME NEW v \in Values, SearchCall(v)
      PROVE  Store!Find(v) \/ UNCHANGED Store!vars
  <2>1. /\ pc = "idle" /\ UNCHANGED <<ll, memory, file, chain>>
        /\ pc' \in {"idle", "search"}
    BY <1>5 DEF SearchCall, Ready, Return
  <2>2. Items' = Items
    BY <2>1, <1>2 DEF memory
  <2>3. CASE next[ll] = Null
    <3>1. answer' = Reply("find", v, FALSE) /\ pc' = "idle"
      BY <1>5, <2>3 DEF SearchCall, Return
    <3>2. ~ \E i \in DOMAIN Items : Items[i] = v
      BY <2>1, <2>3, <1>3
    <3> QED
      BY <2>1, <2>2, <3>1, <3>2 DEF Store!Find
  <2>4. CASE next[ll] # Null
    <3>1. answer' = answer /\ pc' = "search"
      BY <1>5, <2>4 DEF SearchCall
    <3> QED
      BY <2>1, <2>2, <3>1 DEF Store!vars
  <2> QED
    BY <2>3, <2>4
<1>6. CASE SearchStep
  <2>1. pc = "search" /\ pc' \in {"idle", "search"} /\ UNCHANGED <<memory, file, chain>>
    BY <1>6 DEF SearchStep, Return
  <2>2. Items' = Items
    BY <2>1, <1>2 DEF memory
  <2>3. CASE pc' = "search"
    <3>1. answer' = answer
      BY <1>6, <2>3 DEF SearchStep, Return
    <3> QED
      BY <2>1, <2>2, <2>3, <3>1 DEF Store!vars
  <2>4. CASE pc' # "search"
    <3>1. key \in Values /\ Store!Find(key)
      BY <1>6, <2>1, <2>2, <2>4, SearchIsTrue DEF Store!Find
    <3> QED
      BY <3>1 DEF Store!Next
  <2> QED
    BY <2>3, <2>4
<1>7. CASE SizeCall
  <2>1. /\ pc = "idle" /\ pc' = "size" /\ UNCHANGED <<memory, file, chain, answer>>
    BY <1>7 DEF SizeCall, Ready
  <2> QED
    BY <2>1, <1>2 DEF memory, Store!vars
<1>8. CASE SizeStep
  <2>1. /\ pc = "size" /\ pc' \in {"idle", "size"} /\ UNCHANGED <<memory, file, chain>>
    BY <1>8 DEF SizeStep, Return
  <2>2. Items' = Items
    BY <2>1, <1>2 DEF memory
  <2>3. CASE pc' = "size"
    <3>1. answer' = answer
      BY <1>8, <2>3 DEF SizeStep, Return
    <3> QED
      BY <2>1, <2>2, <2>3, <3>1 DEF Store!vars
  <2>4. CASE pc' = "idle"
    <3>1. aux = Null /\ answer' = Reply("size", count, TRUE)
      BY <1>8, <2>1, <2>4 DEF SizeStep, Return
    <3>2. count = Len(chain)
      <4>1. count \in 0 .. Len(chain) /\ aux = IF count = Len(chain) THEN Null ELSE chain[count + 1]
        BY <2>1 DEF IInv, Walk, Passed
      <4>2. PICK m \in Nat : m = Len(chain)
        BY DEF IInv, Types
      <4>3. count # m => count + 1 \in 1 .. m
        BY <4>1, <4>2
      <4>4. count # m => chain[count + 1] \in Cells
        BY <4>2, <4>3 DEF IInv, Types
      <4> QED
        BY <3>1, <4>1, <4>2, <4>4, CellsAssumption
    <3>3. Len(Items) = Len(chain)
      <4>1. Offset = 0
        BY <2>1 DEF Offset
      <4>2. Len(Items) \in Nat /\ Len(chain) = Len(Items) + 0
        BY <1>1, <4>1 DEF ItemsAreLast
      <4> QED
        BY <4>2
    <3>4. Store!Size
      BY <2>1, <2>2, <2>4, <3>1, <3>2, <3>3 DEF Store!Size
    <3> QED
      BY <3>4 DEF Store!Next
  <2> QED
    BY <2>1, <2>3, <2>4
<1>9. CASE WriteCall
  <2>1. pc = "idle" /\ UNCHANGED <<memory, chain>> /\ pc' \in {"idle", "write"}
    BY <1>9 DEF WriteCall, Ready, Return
  <2>2. Items' = Items /\ (next[ll] = Null <=> Items = <<>>)
    BY <2>1, <1>2, <1>3 DEF memory
  <2>3. CASE pc' = "idle"
    <3>1. pc' = "idle" /\ file' = file /\ answer' = Reply("save", NoValue, FALSE)
      BY <1>9, <2>3 DEF WriteCall, Return
    <3>2. Store!BeginSave
      BY <2>1, <2>2, <2>3, <3>1 DEF Store!BeginSave
    <3> QED
      BY <3>2 DEF Store!Next
  <2>4. CASE pc' # "idle"
    <3>1. next[ll] # Null /\ pc' = "write" /\ answer' = answer
      BY <1>9, <2>4 DEF WriteCall, Return
    <3>2. Store!BeginSave
      BY <2>1, <2>2, <3>1 DEF Store!BeginSave
    <3> QED
      BY <3>2 DEF Store!Next
  <2> QED
    BY <2>3, <2>4
<1>10. CASE WriteStep
  <2>1. pc = "write" /\ UNCHANGED <<memory, chain>> /\ pc' \in {"idle", "write"}
    BY <1>10 DEF WriteStep, Return
  <2>2. Items' = Items
    BY <2>1, <1>2 DEF memory
  <2>3. CASE pc' = "write"
    <3>1. answer' = answer
      BY <1>10, <2>3 DEF WriteStep, Return
    <3> QED
      BY <2>1, <2>2, <2>3, <3>1 DEF Store!vars
  <2>4. CASE pc' = "idle"
    <3>1. aux = Null /\ file' = file /\ answer' = Reply("save", NoValue, TRUE)
      BY <1>10, <2>1, <2>4 DEF WriteStep, Return
    <3>2. /\ file \in Seq(Nat) /\ Passed(Len(file))
          /\ \A i \in 1 .. Len(file) : file[i] % Width = data[chain[i]]
      BY <2>1 DEF IInv, Walk
    <3>3. PICK m \in Nat, n \in Nat : m = Len(chain) /\ n = Len(file)
      BY <3>2 DEF IInv, Types
    <3>4. n = m
      <4>1. n # m => n + 1 \in 1 .. m
        BY <3>2, <3>3 DEF Passed
      <4>2. n # m => chain[n + 1] \in Cells
        BY <3>3, <4>1 DEF IInv, Types
      <4> QED
        BY <3>1, <3>2, <3>3, <4>2, CellsAssumption DEF Passed
    <3>5. Items \in Seq(Values) /\ Len(Items) = m /\ \A i \in 1 .. m : Items[i] = data[chain[i]]
      <4>1. Offset = 0 /\ \A i \in 1 .. m : 0 + i = i
        BY <2>1 DEF Offset
      <4>2. Items \in Seq(Values) /\ Len(Items) \in Nat /\ Len(chain) = Len(Items) + 0
        BY <1>1, <4>1 DEF ItemsAreLast
      <4>3. Len(Items) = m
        BY <3>3, <4>2
      <4> QED
        BY <1>1, <4>1, <4>2, <4>3 DEF ItemsAreLast
    <3>6. Store!Holds(file, Items)
      <4>1. DOMAIN Items = 1 .. m
        BY <3>5
      <4> QED
        BY <3>2, <3>3, <3>4, <3>5, <4>1 DEF Store!Holds
    <3>7. Store!EndSave
      BY <2>1, <2>2, <2>4, <3>1, <3>2, <3>6 DEF Store!EndSave, Store!Holds
    <3> QED
      BY <3>7 DEF Store!Next
  <2> QED
    BY <2>1, <2>3, <2>4
<1>11. CASE ReadCall
  <2>1. /\ pc = "idle" /\ pos = 0 /\ UNCHANGED <<memory, file, chain>>
    BY <1>11 DEF ReadCall, Ready, IInv, Filled
  <2>2. CASE pc' = "idle"
    <3>1. pc' = "idle" /\ answer' = Reply("read", NoValue, FALSE) /\ Items' = Items
      BY <1>11, <1>2, <2>1, <2>2 DEF ReadCall, Return, memory
    <3>2. Store!Read
      BY <2>1, <2>2, <3>1 DEF Store!Read
    <3> QED
      BY <3>2 DEF Store!Next
  <2>3. CASE pc' # "idle"
    <3>1. file # NoFile /\ pc' = "read" /\ pos' = 0 /\ answer' = answer
      BY <1>11, <2>1, <2>3 DEF ReadCall, Return
    <3>2. Offset = 0 /\ Offset' = 0
      BY <2>1, <3>1 DEF Offset
    <3>3. Items' = Items
      BY <2>1, <3>2, SameItems DEF memory
    <3> QED
      BY <2>1, <3>1, <3>3 DEF Store!vars
  <2> QED
    BY <2>2, <2>3
<1>12. CASE ReadStep
  <2>1. pc = "read" /\ file' = file /\ file # NoFile
    BY <1>12 DEF ReadStep, IInv, Reading
  <2>2. CASE pos + 1 # Len(file)
    <3>1. Items' = Items /\ pc' = "read" /\ answer' = answer
      BY <1>12, <2>2, ReadGoesOn
    <3> QED
      BY <2>1, <3>1 DEF Store!vars
  <2>3. CASE pos + 1 = Len(file)
    <3>1. pc' = "idle" /\ answer' = Reply("read", NoValue, TRUE)
      BY <1>12, <2>3 DEF ReadStep, Return
    <3>2. Items' = [i \in 1 .. Len(file) |-> file[Len(file) + 1 - i] % Width] \o Items
      BY <1>12, <2>3, ReadEnds
    <3>3. Store!Read
      BY <2>1, <3>1, <3>2 DEF Store!Read, Store!AddAll
    <3> QED
      BY <3>3 DEF Store!Next
  <2> QED
    BY <2>2, <2>3
<1>13. CASE RemoveEmpty
  <2>1. /\ pc = "idle" /\ pc' = "idle" /\ UNCHANGED <<memory, file, chain>>
        /\ next[ll] = Null /\ answer' = Reply("take", NoValue, FALSE)
    BY <1>13 DEF RemoveEmpty, Ready, Return
  <2>2. Items = <<>> /\ Items' = Items
    BY <2>1, <1>2, <1>3 DEF memory
  <2>3. Store!Take
    BY <2>1, <2>2 DEF Store!Take
  <2> QED
    BY <2>3 DEF Store!Next
<1>14. CASE Remove
  <2>1. /\ pc = "idle" /\ pc' = "idle" /\ UNCHANGED <<ll, file>> /\ Unlink
        /\ next[ll] # Null /\ answer' = Reply("take", data[next[ll]], TRUE)
        /\ count' = 0 /\ pos' = 0
    BY <1>14 DEF Remove, Ready, Return
  <2>2. Items # <<>> /\ Items' = Tail(Items) /\ Head(Items) = data[next[ll]]
    BY <2>1, UnlinkTakesHead
  <2>3. Store!Take
    BY <2>1, <2>2 DEF Store!Take
  <2> QED
    BY <2>3 DEF Store!Next
<1>15. CASE ClearCall
  <2>1. /\ pc = "idle" /\ pc' = "clear" /\ UNCHANGED <<memory, file, chain, answer>>
    BY <1>15 DEF ClearCall, Ready
  <2>2. Store!BeginClear
    BY <2>1, <1>2 DEF Store!BeginClear, memory
  <2> QED
    BY <2>2 DEF Store!Next
<1>16. CASE ClearRemove
  <2>1. /\ pc = "clear" /\ pc' = "clear" /\ UNCHANGED <<ll, file, answer>> /\ Unlink
        /\ next[ll] # Null /\ count' = 0 /\ pos' = 0
    BY <1>16 DEF ClearRemove, locals, IInv, Filled
  <2>2. Items # <<>> /\ Items' = Tail(Items)
    BY <2>1, UnlinkTakesHead
  <2>3. Store!Drop
    BY <2>1, <2>2 DEF Store!Drop
  <2> QED
    BY <2>3 DEF Store!Next
<1>17. CASE ClearEnd
  <2>1. /\ pc = "clear" /\ pc' = "cleared" /\ UNCHANGED <<data, file, chain>>
        /\ next[ll] = Null /\ answer' = Reply("clear", NoValue, TRUE)
    BY <1>17 DEF ClearEnd
  <2>2. chain = <<>>
    BY <2>1, EmptyList DEF IInv
  <2>3. Items = <<>> /\ Items' = Items
    BY <2>1, <2>2, <1>2 DEF Items
  <2>4. Store!EndClear
    BY <2>1, <2>3 DEF Store!EndClear
  <2> QED
    BY <2>4 DEF Store!Next
<1>18. CASE InitAgain
  <2>1. /\ pc = "cleared" /\ pc' = "idle" /\ UNCHANGED <<file, chain, answer>>
        /\ chain = <<>>
    BY <1>18 DEF InitAgain, IInv, Filled
  <2>2. Items' = Items
    BY <2>1 DEF Items
  <2> QED
    BY <2>1, <2>2 DEF Store!vars
<1>19. CASE UNCHANGED <<memory, file, pc, locals, answer, chain>>
  <2>1. Items' = Items
    BY <1>19 DEF Items, memory, locals
  <2> QED
    BY <1>19, <2>1 DEF Store!vars
<1>20. CASE OutOfMemory \/ UNCHANGED vars
  BY <1>19, <1>20 DEF OutOfMemory, vars
<1> QED
  BY <1>4, <1>5, <1>6, <1>7, <1>8, <1>9, <1>10, <1>11, <1>12, <1>13, <1>14, <1>15, <1>16,
     <1>17, <1>18, <1>20 DEF Next, Store!Next

(* The linked cells implement a last-in first-out sequence that can be     *)
(* saved and read back: removing, searching, counting, exporting and       *)
(* reading answer and leave what the sequence does, for blocks of any      *)
(* width and whatever lies behind them.                                    *)
THEOREM ListImplementsLifo == Spec => IsLifo
<1>1. Init => Store!Init
  <2> SUFFICES ASSUME Init PROVE Store!Init
    OBVIOUS
  <2>1. Items = <<>>
    BY DEF Init, Items
  <2> QED
    BY <2>1 DEF Init, Store!Init, Reply, Store!Reply
<1>2. IInv /\ IInv' /\ [Next]_vars => [Store!Next]_(Store!vars)
  BY StepIsLifo
<1> QED
  BY <1>1, <1>2, Invariance, PTL DEF Spec, IsLifo, Store!Spec
=============================================================================
