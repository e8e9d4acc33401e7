----------------------------- MODULE AppProofs ------------------------------
(* Proofs about App, for any configuration files and disk. *)
EXTENDS App, SequenceTheorems, WellFoundedInduction, TLAPS

-----------------------------------------------------------------------------
(* What is left unread of a sequence of tokens is one, and the words of    *)
(* one are a sequence of words.                                            *)
LEMMA WordsTyped ==
  ASSUME NEW s \in Seq(Tokens)
  PROVE  WordsOf(s) \in Seq(Words)
<1>1. /\ Len(s) \in Nat /\ DOMAIN s = 1 .. Len(s)
      /\ \A i \in DOMAIN s : s[i].word \in Words
  <2>1. Len(s) \in Nat /\ DOMAIN s = 1 .. Len(s)
    OBVIOUS
  <2>2. ASSUME NEW i \in DOMAIN s PROVE s[i].word \in Words
    <3>1. s[i] \in Tokens
      BY <2>1, ElementOfSeq
    <3> QED
      BY <3>1 DEF Tokens
  <2> QED
    BY <2>1, <2>2
<1>2. WordsOf(s) \in [1 .. Len(s) -> Words]
  BY <1>1 DEF WordsOf
<1> QED
  BY <1>1, <1>2, IsASeq

(* A path, completed or not, is one. *)
LEMMA PathsTyped ==
  ASSUME NEW w \in Words
  PROVE  /\ Given(w) \in Paths
         /\ \A f \in Names : Public(w, f) \in Paths
  BY DEF Paths

(* One fscanf keeps the types of what it writes to. *)
LEMMA ScanTyped ==
  ASSUME ConfigTypeOK, Scan
  PROVE  /\ rest' \in Seq(Tokens)
         /\ eof' \in BOOLEAN
         /\ key' \in Seq(Words)
         /\ value' \in Words
<1> USE DEF ConfigTypeOK
<1>1. CASE ScanNothing
  BY <1>1 DEF ScanNothing
<1>2. CASE ScanColon
  BY <1>2 DEF ScanColon
<1>3. CASE ScanKeyOnly
  BY <1>3, WordsTyped DEF ScanKeyOnly
<1>4. CASE ScanPair
  <2> PICK last \in Colons(rest) :
        /\ key' = WordsOf(SubSeq(rest, 1, last))
        /\ IF last = Len(rest)
             THEN rest' = <<>> /\ eof' = TRUE /\ UNCHANGED value
             ELSE /\ value' = rest[last + 1].word
                  /\ rest' = SubSeq(rest, last + 2, Len(rest))
                  /\ eof' = (last + 1 = Len(rest) /\ ~source.newline)
    BY <1>4 DEF ScanPair
  <2>1. last \in 1 .. Len(rest) /\ Len(rest) \in Nat
    BY DEF Colons
  <2>2. SubSeq(rest, 1, last) \in Seq(Tokens)
    BY <2>1, SubSeqProperties
  <2>3. key' \in Seq(Words)
    BY <2>2, WordsTyped
  <2>4. CASE last = Len(rest)
    BY <2>3, <2>4
  <2>5. CASE last # Len(rest)
    <3>1. last + 1 \in 1 .. Len(rest) /\ rest[last + 1] \in Tokens
      BY <2>1, <2>5, ElementOfSeq
    <3>2. value' \in Words
      BY <2>5, <3>1 DEF Tokens
    <3>3. rest' \in Seq(Tokens)
      <4>1. CASE last + 1 = Len(rest)
        <5>1. rest' = <<>>
          BY <2>1, <2>5, <4>1
        <5> QED
          BY <5>1
      <4>2. CASE last + 1 # Len(rest)
        <5>1. last + 2 \in Int /\ Len(rest) \in Int
          BY <2>1
        <5>2. \A i \in last + 2 .. Len(rest) : rest[i] \in Tokens
          BY <2>1, ElementOfSeq
        <5>3. SubSeq(rest, last + 2, Len(rest)) \in Seq(Tokens)
          BY <5>1, <5>2, SubSeqProperties
        <5> QED
          BY <2>5, <5>3
      <4> QED
        BY <4>1, <4>2
    <3>4. eof' \in BOOLEAN
      BY <2>5
    <3> QED
      BY <2>3, <3>2, <3>3, <3>4
  <2> QED
    BY <2>4, <2>5
<1> QED
  BY <1>1, <1>2, <1>3, <1>4 DEF Scan

(* The numbers and addresses that are completed are numbers and paths. *)
LEMMA CompletedTyped ==
  ASSUME NEW c \in Settings
  PROVE  /\ Completed(c) \in Settings
         /\ [c EXCEPT !.order = Completed(c).order,
                      !.schema_size = Completed(c).schema_size] \in Settings
<1>1. /\ c.name \in Words /\ c.order \in Int /\ c.schema_size \in Int
      /\ c.idx_free_rrn_address \in Paths /\ c.data_free_rrn_address \in Paths
  BY DEF Settings
<1>2. /\ Public(c.name, "BTree.idx") \in Paths
      /\ Public(c.name, "BTree.dat") \in Paths
      /\ Public(c.name, "idx_free_rrn.addr") \in Paths
      /\ Public(c.name, "data_free_rrn.addr") \in Paths
  BY <1>1, PathsTyped DEF Names
<1>3. /\ Address(c.idx_free_rrn_address, c.name, "idx_free_rrn.addr") \in Paths
      /\ Address(c.data_free_rrn_address, c.name, "data_free_rrn.addr") \in Paths
  BY <1>1, <1>2 DEF Address
<1>4. Completed(c) \in Settings
  BY <1>1, <1>2, <1>3 DEF Completed, Settings, DefaultOrder, DefaultSize
<1>5. Completed(c).order \in Int /\ Completed(c).schema_size \in Int
  BY <1>4 DEF Settings
<1> QED
  BY <1>4, <1>5 DEF Settings

(* What the stack holds in place of a configuration is typed as one. *)
LEMMA ScrambledTyped ==
  ASSUME NEW c \in Settings, NEW parts
  PROVE  Scrambled(c, parts) \in Settings
<1>1. Junk \in Words /\ Number[Junk] \in Int /\ Given(Junk) \in Paths
  BY WordsAssumption, ReadingAssumption, PathsTyped
<1> QED
  BY <1>1 DEF Scrambled, Settings

(* The steps of read_btree_config keep the types of what they write. *)
LEMMA ReadNextTyped ==
  ASSUME ConfigTypeOK, NEW closes, ReadNext(closes)
  PROVE  ConfigTypeOK'
<1>1. CASE ReadPair
  <2> DEFINE f == FieldOf(key')
  <2>1. /\ rest' \in Seq(Tokens) /\ eof' \in BOOLEAN
        /\ key' \in Seq(Words) /\ value' \in Words
    BY <1>1, ScanTyped DEF ReadPair
  <2>2. Number[value'] \in Int /\ Text[value'] \in Words /\ Given(Text[value']) \in Paths
    BY <2>1, ReadingAssumption, PathsTyped
  <2>3. cfg \in Settings /\ reading = "pairs"
    BY <1>1 DEF ConfigTypeOK, ReadPair
  <2>4. cfg' = CASE f \in {"order", "schema_size"} -> [cfg EXCEPT ![f] = Number[value']]
                 [] f = "btree_name"               -> [cfg EXCEPT !.name = Text[value']]
                 [] f \in Addresses                -> [cfg EXCEPT ![f] = Given(Text[value'])]
                 [] OTHER                          -> cfg
    BY <1>1 DEF ReadPair
  <2> HIDE DEF f
  <2>5. cfg' \in Settings
    <3>1. CASE f = "order"
      BY <2>2, <2>3, <2>4, <3>1 DEF Settings, Addresses
    <3>2. CASE f = "schema_size"
      BY <2>2, <2>3, <2>4, <3>2 DEF Settings, Addresses
    <3>3. CASE f = "btree_name"
      BY <2>2, <2>3, <2>4, <3>3 DEF Settings, Addresses
    <3>4. CASE f = "index_file"
      BY <2>2, <2>3, <2>4, <3>4 DEF Settings, Addresses
    <3>5. CASE f = "data_file"
      BY <2>2, <2>3, <2>4, <3>5 DEF Settings, Addresses
    <3>6. CASE f = "idx_free_rrn_address"
      BY <2>2, <2>3, <2>4, <3>6 DEF Settings, Addresses
    <3>7. CASE f = "data_free_rrn_address"
      BY <2>2, <2>3, <2>4, <3>7 DEF Settings, Addresses
    <3>8. CASE f \notin {"order", "schema_size", "btree_name"} \cup Addresses
      BY <2>3, <2>4, <3>8
    <3> QED
      BY <3>1, <3>2, <3>3, <3>4, <3>5, <3>6, <3>7, <3>8 DEF Addresses
  <2>6. reading' \in {"pairs", "columns"}
    BY <1>1, <2>3 DEF ReadPair
  <2> QED
    BY <1>1, <2>1, <2>5, <2>6 DEF ReadPair, ConfigTypeOK
<1>2. CASE ReadColumn
  <2>1. /\ rest' \in Seq(Tokens) /\ eof' \in BOOLEAN
        /\ key' \in Seq(Words) /\ value' \in Words
    BY <1>2, ScanTyped DEF ReadColumn
  <2>2. puts' \in 0 .. MaxPuts
    BY <1>2, MaxPutsAssumption DEF ReadColumn, ConfigTypeOK
  <2> QED
    BY <1>2, <2>1, <2>2 DEF ReadColumn, ConfigTypeOK
<1>3. CASE Starve
  BY <1>3 DEF Starve, ConfigTypeOK, readVars
<1>4. CASE ColumnsEnd
  BY <1>4 DEF ColumnsEnd, ConfigTypeOK
<1>5. CASE ReadEnd(closes)
  <2>1. cfg' \in Settings
    BY <1>5, CompletedTyped DEF ReadEnd, ConfigTypeOK
  <2>2. reading' \in {"read", "refused"}
    BY <1>5 DEF ReadEnd
  <2> QED
    BY <1>5, <2>1, <2>2 DEF ReadEnd, ConfigTypeOK
<1> QED
  BY <1>1, <1>2, <1>3, <1>4, <1>5 DEF ReadNext

(* So does opening a file. *)
LEMMA ReadCallTyped ==
  ASSUME ConfigTypeOK, NEW file \in Files, ReadCall(file)
  PROVE  ConfigTypeOK'
<1>1. source' \in Files /\ rest' \in Seq(Tokens)
  BY DEF ReadCall, Files
<1>2. cfg' \in Settings
  <2>1. PICK parts \in SUBSET {"name", "numbers", "idx", "data"} : cfg' = Scrambled(cfg, parts)
    BY DEF ReadCall
  <2> QED
    BY <2>1, ScrambledTyped DEF ConfigTypeOK
<1>3. key' \in Seq(Words) /\ value' \in Words
  <2>1. Junk \in Words /\ <<Junk>> \in Seq(Words)
    BY WordsAssumption
  <2> QED
    BY <2>1 DEF ReadCall, ConfigTypeOK
<1> QED
  BY <1>1, <1>2, <1>3 DEF ReadCall, ConfigTypeOK

-----------------------------------------------------------------------------
(* While a tree is made main is at a file of the list. *)
AtFile == pc \in {"read", "index", "data", "build", "push"} => next <= Len(setup.files)

(* With AtFile the types are inductive. *)
Typed == TypeOK /\ AtFile

LEMMA FilesTyped ==
  ASSUME TypeOK
  PROVE  setup.files \in Seq(Files) /\ Len(setup.files) \in Nat
  BY SetupsAssumption DEF TypeOK

LEMMA InitTyped ==
  ASSUME Init
  PROVE  Typed
<1>1. ConfigTypeOK
  <2>1. source \in Files /\ rest \in Seq(Tokens) /\ key \in Seq(Words)
    BY WordsAssumption DEF Init, ConfigInit, Files
  <2>2. cfg \in Settings
    BY WordsAssumption, PathsTyped DEF Init, ConfigInit, Zero, Settings
  <2>3. value \in Words
    BY WordsAssumption DEF Init, ConfigInit
  <2>4. eof \in BOOLEAN
    BY DEF Init, ConfigInit
  <2>5. puts \in 0 .. MaxPuts
    BY MaxPutsAssumption DEF Init, ConfigInit
  <2> QED
    BY <2>1, <2>2, <2>3, <2>4, <2>5 DEF Init, ConfigInit, ConfigTypeOK
<1>2. tree \in TreeRecords
  BY <1>1 DEF Init, ConfigInit, ConfigTypeOK, Fresh, TreeRecords, Pointers, Null
<1>3. setup.files \in Seq(Files) /\ Len(setup.files) \in Nat
  BY SetupsAssumption DEF Init
<1>4. trees \in Seq(TreeRecords) /\ Len(trees) = 0
  BY DEF Init
<1>5. /\ next \in 1 .. Len(setup.files) + 1
      /\ Len(trees) <= Capacity /\ at \in 1 .. Len(trees) + 1
      /\ opened \in Nat /\ open \subseteq 1 .. opened
  BY <1>3, <1>4, CapacityAssumption DEF Init
<1>6. setup \in Setups /\ pc = "list" /\ reused \in BOOLEAN /\ refused \in BOOLEAN
  BY DEF Init
<1> QED
  BY <1>1, <1>2, <1>4, <1>5, <1>6 DEF Typed, TypeOK, AtFile

(* What the configuration's variables are typed by does not mention main's. *)
LEMMA StepTyped ==
  ASSUME Typed, [Next]_vars
  PROVE  Typed'
<1> USE DEF Typed
<1>0. /\ Len(setup.files) \in Nat /\ setup.files \in Seq(Files)
      /\ Len(trees) \in Nat /\ opened \in Nat
  BY FilesTyped DEF TypeOK
<1>1. CASE NoList
  BY <1>0, <1>1 DEF NoList, Running, TypeOK, AtFile, configVars, readVars, ConfigTypeOK,
                    TreeRecords, Pointers
<1>2. CASE NoFile
  BY <1>0, <1>2 DEF NoFile, Running, TypeOK, AtFile, configVars, readVars, ConfigTypeOK,
                    TreeRecords, Pointers
<1>3. CASE CreateCall
  <2>1. setup.files[next] \in Files
    BY <1>0, <1>3, ElementOfSeq DEF CreateCall, TypeOK
  <2>2. ConfigTypeOK'
    BY <1>3, <2>1, ReadCallTyped DEF CreateCall, TypeOK
  <2> QED
    BY <1>0, <1>3, <2>2 DEF CreateCall, Running, TypeOK, AtFile, TreeRecords, Pointers
<1>4. CASE Read
  <2>1. ConfigTypeOK'
    BY <1>4, ReadNextTyped DEF Read, TypeOK
  <2> QED
    BY <1>0, <1>4, <2>1 DEF Read, appVars, TypeOK, AtFile, TreeRecords, Pointers
<1>5. CASE ReadRefused
  <2>1. ConfigTypeOK'
    BY <1>5 DEF ReadRefused, TypeOK, ConfigTypeOK
  <2> QED
    BY <1>0, <1>5, <2>1 DEF ReadRefused, Running, TypeOK, AtFile, TreeRecords, Pointers
<1>6. CASE AllocTree
  <2>1. ConfigTypeOK'
    BY <1>6 DEF AllocTree, TypeOK, ConfigTypeOK
  <2>2. tree' \in TreeRecords
    <3>1. PICK found \in [{"index", "data", "reqs"} -> IF reused THEN {Null, Wild} ELSE {Null}] :
            tree' = [cfg |-> cfg, source |-> source,
                     index |-> found["index"], data |-> found["data"],
                     write_reqs |-> found["reqs"]]
      BY <1>6 DEF AllocTree
    <3>2. /\ found["index"] \in {Null, Wild} /\ found["data"] \in {Null, Wild}
          /\ found["reqs"] \in {Null, Wild}
      OBVIOUS
    <3> QED
      BY <3>1, <3>2 DEF TypeOK, ConfigTypeOK, TreeRecords, Pointers
  <2> QED
    BY <1>0, <1>6, <2>1, <2>2 DEF AllocTree, Running, TypeOK, AtFile, TreeRecords, Pointers
<1>7. ASSUME NEW kind \in {"index", "data"}, NEW path, NEW after \in {"data", "build"},
             OpenFile(kind, path, after)
      PROVE  Typed'
  <2>1. ConfigTypeOK'
    BY <1>7 DEF OpenFile, TypeOK, configVars, readVars, ConfigTypeOK
  <2>2. opened' \in Nat /\ opened <= opened' /\ open' \subseteq 1 .. opened'
    <3>1. open \subseteq 1 .. opened
      BY DEF TypeOK
    <3>2. CASE opened' = opened + 1 /\ open' = open \cup {opened'}
      BY <1>0, <3>1, <3>2
    <3>3. CASE UNCHANGED <<opened, open>>
      BY <1>0, <3>1, <3>3
    <3> QED
      BY <1>7, <3>2, <3>3 DEF OpenFile
  <2>3. TreeRecords \subseteq TreeRecords'
    BY <1>0, <2>2 DEF TreeRecords, Pointers
  <2>4. tree' \in TreeRecords'
    <3>1. CASE tree' = tree
      BY <2>3, <3>1 DEF TypeOK
    <3>2. CASE opened' = opened + 1 /\ tree' = [tree EXCEPT ![kind] = opened']
      <4>1. opened' \in Pointers'
        BY <1>0, <3>2 DEF Pointers
      <4>2. tree \in TreeRecords'
        BY <2>3 DEF TypeOK
      <4>3. CASE kind = "index"
        BY <3>2, <4>1, <4>2, <4>3 DEF TreeRecords
      <4>4. CASE kind = "data"
        BY <3>2, <4>1, <4>2, <4>4 DEF TreeRecords
      <4> QED
        BY <1>7, <4>3, <4>4
    <3> QED
      BY <1>7, <3>1, <3>2 DEF OpenFile
  <2>5. trees' \in Seq(TreeRecords')
    BY <1>7, <2>3, SeqMonotonic DEF OpenFile, TypeOK
  <2> QED
    BY <1>0, <1>7, <2>1, <2>2, <2>4, <2>5 DEF OpenFile, Running, TypeOK, AtFile
<1>8. CASE Refuse
  <2>1. ConfigTypeOK'
    BY <1>8 DEF Refuse, readVars, TypeOK, ConfigTypeOK
  <2>2. /\ pc' = "list" /\ next' = next + 1 /\ reused' = TRUE /\ refused' = TRUE
        /\ next <= Len(setup.files)
        /\ UNCHANGED <<setup, tree, trees, at, opened>>
    BY <1>8 DEF Refuse, Running, AtFile
  <2>3. open' \subseteq 1 .. opened'
    BY <1>8 DEF Refuse, TypeOK
  <2>4. TreeRecords' = TreeRecords
    BY <2>2 DEF TreeRecords, Pointers
  <2> QED
    BY <1>0, <1>8, <2>1, <2>2, <2>3, <2>4 DEF TypeOK, AtFile
<1>9. CASE BuildCrashes
  <2>1. ConfigTypeOK'
    BY <1>9 DEF BuildCrashes, readVars, TypeOK, ConfigTypeOK
  <2> QED
    BY <1>0, <1>9, <2>1 DEF BuildCrashes, appVars, TypeOK, AtFile, TreeRecords, Pointers
<1>10. CASE Build
  BY <1>0, <1>10 DEF Build, Running, TypeOK, AtFile, configVars, readVars, ConfigTypeOK,
                     TreeRecords, Pointers
<1>11. CASE Push
  <2>1. ConfigTypeOK'
    BY <1>11 DEF Push, configVars, readVars, TypeOK, ConfigTypeOK
  <2>2. trees' \in Seq(TreeRecords) /\ Len(trees') = Len(trees) + 1
    BY <1>11, AppendProperties DEF Push, TypeOK
  <2> QED
    BY <1>0, <1>11, <2>1, <2>2, CapacityAssumption
       DEF Push, Running, TypeOK, AtFile, TreeRecords, Pointers
<1>12. CASE PushGrows
  <2>1. ConfigTypeOK'
    BY <1>12 DEF PushGrows, readVars, TypeOK, ConfigTypeOK
  <2> QED
    BY <1>0, <1>12, <2>1 DEF PushGrows, appVars, TypeOK, AtFile, TreeRecords, Pointers
<1>13. CASE Prompt
  BY <1>0, <1>13 DEF Prompt, Running, TypeOK, AtFile, configVars, readVars, ConfigTypeOK,
                     TreeRecords, Pointers
<1>14. CASE Exit
  BY <1>0, <1>14 DEF Exit, Running, TypeOK, AtFile, configVars, readVars, ConfigTypeOK,
                     TreeRecords, Pointers
<1>15. CASE ClearTree
  <2>1. ConfigTypeOK'
    BY <1>15 DEF ClearTree, readVars, TypeOK, ConfigTypeOK
  <2>2. /\ pc = "clear" /\ at' = at + 1 /\ at <= Len(trees)
        /\ UNCHANGED <<setup, next, pc, tree, trees, opened, reused, refused>>
    BY <1>15 DEF ClearTree, Running
  <2>3. open' \subseteq 1 .. opened'
    BY <1>15 DEF ClearTree, TypeOK
  <2>4. TreeRecords' = TreeRecords
    BY <2>2 DEF TreeRecords, Pointers
  <2> QED
    BY <1>0, <2>1, <2>2, <2>3, <2>4 DEF TypeOK, AtFile
<1>16. CASE ClearEnd
  BY <1>0, <1>16 DEF ClearEnd, Running, TypeOK, AtFile, configVars, readVars, ConfigTypeOK,
                     TreeRecords, Pointers
<1>17. CASE UNCHANGED vars
  BY <1>0, <1>17 DEF vars, appVars, TypeOK, AtFile, configVars, readVars, ConfigTypeOK,
                     TreeRecords, Pointers
<1> QED
  BY <1>1, <1>2, <1>3, <1>4, <1>5, <1>6, <1>7, <1>8, <1>9, <1>10, <1>11, <1>12, <1>13, <1>14,
     <1>15, <1>16, <1>17 DEF Next, Work, OpenIndex, OpenData

(* Whatever the files are, the variables have the types they are called,   *)
(* the array of trees is not overrun, and pointers are NULL, wild or to a  *)
(* stream that was opened.                                                 *)
THEOREM TypeCorrect == Spec => []TypeOK
<1>1. Init => Typed
  BY InitTyped
<1>2. Typed /\ [Next]_vars => Typed'
  BY StepTyped
<1>3. Typed => TypeOK
  BY DEF Typed
<1> QED
  BY <1>1, <1>2, <1>3, PTL DEF Spec

-----------------------------------------------------------------------------
(* Whose the streams are.  The tree that is made counts from its first     *)
(* file on, and until it is in the array.                                  *)
Making == pc \in {"data", "build", "push"}

Held(n) == \/ \E i \in at .. Len(trees) : n \in StreamsOf(trees[i])
           \/ Making /\ n \in StreamsOf(tree)

Owned == status = "running" => \A n : n \in open <=> n # Wild /\ Held(n)

(* No two elements of the array share one, nor does the tree that is made. *)
Apart ==
  /\ \A i, j \in at .. Len(trees) : i # j => StreamsOf(trees[i]) \cap StreamsOf(trees[j]) \subseteq {Wild}
  /\ Making => \A i \in at .. Len(trees) : StreamsOf(trees[i]) \cap StreamsOf(tree) \subseteq {Wild}

(* Elements are cleared at the end only, and a file is opened once.        *)
Places ==
  /\ pc \notin {"clear", "ended"} => at = 1
  /\ pc = "index" => tree.index \in {Null, Wild}
  /\ pc \in {"index", "data"} => tree.data \in {Null, Wild}

Streams == Owned /\ Apart /\ Places

LEMMA InitStreams ==
  ASSUME Init
  PROVE  Streams
  BY DEF Init, ConfigInit, Streams, Owned, Apart, Places, Held, Making

(* What is typed: the streams of a tree were opened, or are wild.          *)
LEMMA StreamsTyped ==
  ASSUME TypeOK
  PROVE  /\ Len(trees) \in Nat /\ opened \in Nat /\ at \in Nat \ {0} /\ open \subseteq 1 .. opened
         /\ StreamsOf(tree) \subseteq {Wild} \cup 1 .. opened
         /\ \A i \in at .. Len(trees) : StreamsOf(trees[i]) \subseteq {Wild} \cup 1 .. opened
<1>1. ASSUME NEW b \in TreeRecords PROVE StreamsOf(b) \subseteq {Wild} \cup 1 .. opened
  BY DEF TreeRecords, Pointers, StreamsOf
<1>2. Len(trees) \in Nat /\ opened \in Nat /\ at \in Nat \ {0} /\ open \subseteq 1 .. opened
  BY DEF TypeOK
<1>3. ASSUME NEW i \in at .. Len(trees) PROVE trees[i] \in TreeRecords
  <2>1. trees \in Seq(TreeRecords) /\ i \in 1 .. Len(trees)
    BY <1>2 DEF TypeOK
  <2> QED
    BY <2>1, ElementOfSeq
<1> QED
  BY <1>1, <1>2, <1>3 DEF TypeOK

(* Steps that touch no stream and no tree. *)
LEMMA StreamsKept ==
  ASSUME Streams, UNCHANGED <<tree, trees, at, open>>, Making' = Making,
         status' = "running" => status = "running"
  PROVE  Owned' /\ Apart'
  BY DEF Streams, Owned, Apart, Held

(* One of the two files of a tree is opened, or was there, or cannot be. *)
LEMMA OpenFileStreams ==
  ASSUME Typed, Streams, NEW kind \in {"index", "data"}, NEW path,
         NEW after, after = (IF kind = "index" THEN "data" ELSE "build"),
         OpenFile(kind, path, after)
  PROVE  Streams'
<1>1. /\ Len(trees) \in Nat /\ opened \in Nat /\ at \in Nat \ {0} /\ open \subseteq 1 .. opened
      /\ StreamsOf(tree) \subseteq {Wild} \cup 1 .. opened
      /\ \A i \in at .. Len(trees) : StreamsOf(trees[i]) \subseteq {Wild} \cup 1 .. opened
  BY StreamsTyped DEF Typed
<1>2. /\ status = "running" /\ status' = status /\ pc = kind /\ pc' = after
      /\ UNCHANGED <<trees, at>>
  BY DEF OpenFile, Running, configVars
<1>3. Making' /\ (Making <=> kind = "data")
  BY <1>2 DEF Making
<1>4. kind = "index" => StreamsOf(tree) \subseteq {Wild}
  BY <1>2 DEF Streams, Places, StreamsOf
<1>5. Places'
  <2>1. tree \in TreeRecords
    BY DEF Typed, TypeOK
  <2>2. kind = "index" => tree'.data = tree.data
    BY <2>1 DEF OpenFile, TreeRecords
  <2> QED
    BY <1>2, <2>2 DEF Streams, Places
<1>6. CASE tree[kind] = Null /\ path \notin setup.broken
  <2>1. /\ open' = open \cup {opened'} /\ opened' = opened + 1
        /\ StreamsOf(tree') = StreamsOf(tree) \cup {opened'}
    <3>1. /\ open' = open \cup {opened'} /\ opened' = opened + 1
          /\ tree' = [tree EXCEPT ![kind] = opened']
      BY <1>6 DEF OpenFile
    <3>2. opened' # Null /\ tree \in TreeRecords
      BY <1>1, <3>1 DEF Null, Typed, TypeOK
    <3>3. CASE kind = "index"
      BY <1>6, <3>1, <3>2, <3>3 DEF StreamsOf, TreeRecords
    <3>4. CASE kind = "data"
      BY <1>6, <3>1, <3>2, <3>4 DEF StreamsOf, TreeRecords
    <3> QED
      BY <3>1, <3>3, <3>4
  <2>2. opened' \notin {Wild} \cup 1 .. opened
    BY <1>1, <2>1 DEF Wild
  <2>3. ASSUME NEW n PROVE n \in open' <=> n # Wild /\ Held(n)'
    <3>1. Held(n)' <=> \/ \E i \in at .. Len(trees) : n \in StreamsOf(trees[i])
                       \/ n \in StreamsOf(tree) \/ n = opened'
      BY <1>2, <1>3, <2>1 DEF Held
    <3>2. n # Wild => (Held(n)' <=> Held(n) \/ n = opened')
      BY <1>3, <1>4, <3>1 DEF Held
    <3>3. n \in open <=> n # Wild /\ Held(n)
      BY <1>2 DEF Streams, Owned
    <3> QED
      BY <2>1, <2>2, <3>2, <3>3
  <2>4. Apart'
    <3>1. ASSUME NEW i \in at .. Len(trees)
          PROVE  StreamsOf(trees[i]) \cap StreamsOf(tree') \subseteq {Wild}
      <4>1. StreamsOf(trees[i]) \cap StreamsOf(tree) \subseteq {Wild}
        BY <1>3, <1>4 DEF Streams, Apart
      <4>2. opened' \notin StreamsOf(trees[i])
        BY <1>1, <2>2
      <4> QED
        BY <2>1, <4>1, <4>2
    <3> QED
      BY <1>2, <3>1 DEF Streams, Apart
  <2> QED
    BY <1>5, <2>3, <2>4 DEF Streams, Owned
<1>7. CASE ~(tree[kind] = Null /\ path \notin setup.broken)
  <2>1. UNCHANGED <<open, tree>>
    BY <1>7 DEF OpenFile
  <2>2. ASSUME NEW n PROVE n \in open' <=> n # Wild /\ Held(n)'
    <3>1. n # Wild => (Held(n)' <=> Held(n))
      BY <1>2, <1>3, <1>4, <2>1 DEF Held
    <3> QED
      BY <1>2, <2>1, <3>1 DEF Streams, Owned
  <2>3. Apart'
    BY <1>2, <1>3, <1>4, <2>1 DEF Streams, Apart
  <2> QED
    BY <1>5, <2>2, <2>3 DEF Streams, Owned
<1> QED
  BY <1>6, <1>7

(* A tree is given up: only its streams are closed. *)
LEMMA RefuseStreams ==
  ASSUME Typed, Streams, Refuse
  PROVE  Streams'
<1>1. /\ pc = "build" /\ pc' = "list" /\ status = "running"
      /\ open' = open \ StreamsOf(tree)
      /\ UNCHANGED <<tree, trees, at>>
  BY DEF Refuse, Running
<1>2. Making /\ ~Making'
  BY <1>1 DEF Making
<1>3. ASSUME NEW n PROVE n \in open' <=> n # Wild /\ Held(n)'
  <2>1. Held(n)' <=> \E i \in at .. Len(trees) : n \in StreamsOf(trees[i])
    BY <1>1, <1>2 DEF Held
  <2>2. n \in open <=> n # Wild /\ Held(n)
    BY <1>1 DEF Streams, Owned
  <2>3. n # Wild /\ n \in StreamsOf(tree) => ~ \E i \in at .. Len(trees) : n \in StreamsOf(trees[i])
    BY <1>2 DEF Streams, Apart
  <2> QED
    BY <1>1, <1>2, <2>1, <2>2, <2>3 DEF Held
<1>4. Apart'
  BY <1>1, <1>2 DEF Streams, Apart
<1>5. Places'
  BY <1>1 DEF Streams, Places
<1> QED
  BY <1>3, <1>4, <1>5 DEF Streams, Owned

(* The tree that was made is the last of the array. *)
LEMMA PushStreams ==
  ASSUME Typed, Streams, Push
  PROVE  Streams'
<1>1. /\ pc = "push" /\ pc' = "list" /\ status = "running"
      /\ trees' = Append(trees, tree)
      /\ UNCHANGED <<tree, at, open>>
  BY DEF Push, Running, configVars
<1>2. Making /\ ~Making' /\ at = 1
  BY <1>1 DEF Making, Streams, Places
<1>3. /\ Len(trees) \in Nat /\ Len(trees') = Len(trees) + 1
      /\ \A i \in 1 .. Len(trees) : trees'[i] = trees[i]
      /\ trees'[Len(trees) + 1] = tree
  BY <1>1, AppendProperties DEF Typed, TypeOK
<1>4. at' .. Len(trees') = (at .. Len(trees)) \cup {Len(trees) + 1}
  BY <1>1, <1>2, <1>3
<1>5. ASSUME NEW n PROVE n \in open' <=> n # Wild /\ Held(n)'
  <2>1. Held(n)' <=> \/ \E i \in at .. Len(trees) : n \in StreamsOf(trees[i])
                     \/ n \in StreamsOf(tree)
    BY <1>2, <1>3, <1>4 DEF Held
  <2> QED
    BY <1>1, <1>2, <2>1 DEF Held, Streams, Owned
<1>6. Apart'
  <2>1. ASSUME NEW i \in at .. Len(trees)
        PROVE  trees'[i] = trees[i] /\ StreamsOf(trees[i]) \cap StreamsOf(tree) \subseteq {Wild}
    BY <1>2, <1>3 DEF Streams, Apart
  <2>2. ASSUME NEW i \in at' .. Len(trees'), NEW j \in at' .. Len(trees'), i # j
        PROVE  StreamsOf(trees'[i]) \cap StreamsOf(trees'[j]) \subseteq {Wild}
    <3>1. CASE i \in at .. Len(trees) /\ j \in at .. Len(trees)
      BY <2>1, <2>2, <3>1 DEF Streams, Apart
    <3>2. CASE i = Len(trees) + 1 /\ j \in at .. Len(trees)
      BY <1>3, <2>1, <3>2
    <3>3. CASE i \in at .. Len(trees) /\ j = Len(trees) + 1
      BY <1>3, <2>1, <3>3
    <3> QED
      BY <1>4, <2>2, <3>1, <3>2, <3>3
  <2> QED
    BY <1>2, <2>2 DEF Apart
<1>7. Places'
  BY <1>1, <1>2 DEF Places
<1> QED
  BY <1>5, <1>6, <1>7 DEF Streams, Owned

(* The first tree that is not cleared yet is, with its streams. *)
LEMMA ClearTreeStreams ==
  ASSUME Typed, Streams, ClearTree
  PROVE  Streams'
<1>1. /\ pc = "clear" /\ pc' = pc /\ status = "running"
      /\ at <= Len(trees) /\ at' = at + 1
      /\ open' = open \ StreamsOf(trees[at])
      /\ UNCHANGED <<tree, trees>>
  BY DEF ClearTree, Running
<1>2. ~Making /\ ~Making'
  BY <1>1 DEF Making
<1>3. Len(trees) \in Nat /\ at \in Nat
  BY StreamsTyped DEF Typed
<1>4. at .. Len(trees) = {at} \cup (at' .. Len(trees)) /\ at \notin at' .. Len(trees)
  BY <1>1, <1>3
<1>5. ASSUME NEW n PROVE n \in open' <=> n # Wild /\ Held(n)'
  <2>1. Held(n)' <=> \E i \in at' .. Len(trees) : n \in StreamsOf(trees[i])
    BY <1>1, <1>2 DEF Held
  <2>2. n \in open <=> n # Wild /\ \E i \in at .. Len(trees) : n \in StreamsOf(trees[i])
    BY <1>1, <1>2 DEF Streams, Owned, Held
  <2>3. ASSUME NEW i \in at' .. Len(trees), n \in StreamsOf(trees[i]), n # Wild
        PROVE  n \notin StreamsOf(trees[at])
    <3>1. i \in at .. Len(trees) /\ at \in at .. Len(trees) /\ i # at
      BY <1>4
    <3>2. StreamsOf(trees[i]) \cap StreamsOf(trees[at]) \subseteq {Wild}
      BY <3>1 DEF Streams, Apart
    <3> QED
      BY <2>3, <3>2
  <2> QED
    BY <1>1, <1>4, <2>1, <2>2, <2>3
<1>6. Apart'
  BY <1>1, <1>2, <1>4 DEF Streams, Apart
<1>7. Places'
  BY <1>1 DEF Places
<1> QED
  BY <1>5, <1>6, <1>7 DEF Streams, Owned

LEMMA StreamsStep ==
  ASSUME Typed, Streams, [Next]_vars
  PROVE  Streams'
<1> USE DEF Streams
<1>1. CASE NoList
  <2>1. Owned' /\ Apart'
    BY <1>1, StreamsKept DEF NoList, Running, Making, configVars
  <2> QED
    BY <1>1, <2>1 DEF NoList, Running, Places
<1>2. CASE NoFile
  <2>1. Owned' /\ Apart'
    BY <1>2, StreamsKept DEF NoFile, Running, Making, configVars
  <2> QED
    BY <1>2, <2>1 DEF NoFile, Running, Places
<1>3. CASE CreateCall
  <2>1. Owned' /\ Apart'
    BY <1>3, StreamsKept DEF CreateCall, Running, Making
  <2> QED
    BY <1>3, <2>1 DEF CreateCall, Running, Places
<1>4. CASE Read
  <2>1. status = "running"
    BY <1>4 DEF Read, ReadNext, ReadPair, ReadColumn, Starve, ColumnsEnd, ReadEnd
  <2>2. Owned' /\ Apart'
    BY <1>4, <2>1, StreamsKept DEF Read, appVars, Making
  <2> QED
    BY <1>4, <2>2 DEF Read, appVars, Places
<1>5. CASE ReadRefused
  <2>1. Owned' /\ Apart'
    BY <1>5, StreamsKept DEF ReadRefused, Running, Making
  <2> QED
    BY <1>5, <2>1 DEF ReadRefused, Running, Places
<1>6. CASE AllocTree
  <2>1. /\ pc = "read" /\ pc' = "index" /\ UNCHANGED <<status, trees, at, open>>
        /\ tree'.index \in {Null, Wild} /\ tree'.data \in {Null, Wild}
    <3>1. PICK found \in [{"index", "data", "reqs"} -> IF reused THEN {Null, Wild} ELSE {Null}] :
            tree' = [cfg |-> cfg, source |-> source,
                     index |-> found["index"], data |-> found["data"],
                     write_reqs |-> found["reqs"]]
      BY <1>6 DEF AllocTree
    <3> QED
      BY <1>6, <3>1 DEF AllocTree, Running
  <2>2. ~Making /\ ~Making'
    BY <2>1 DEF Making
  <2> QED
    BY <2>1, <2>2 DEF Owned, Held, Apart, Places
<1>7. CASE OpenIndex
  BY <1>7, OpenFileStreams DEF OpenIndex
<1>8. CASE OpenData
  BY <1>8, OpenFileStreams DEF OpenData
<1>9. CASE Refuse
  BY <1>9, RefuseStreams
<1>10. CASE BuildCrashes
  <2>1. Owned' /\ Apart'
    BY <1>10, StreamsKept DEF BuildCrashes, Running, appVars, Making
  <2> QED
    BY <1>10, <2>1 DEF BuildCrashes, appVars, Places
<1>11. CASE Build
  <2>1. Owned' /\ Apart'
    BY <1>11, StreamsKept DEF Build, Running, Making, configVars
  <2> QED
    BY <1>11, <2>1 DEF Build, Running, Places
<1>12. CASE Push
  BY <1>12, PushStreams
<1>13. CASE PushGrows
  <2>1. Owned' /\ Apart'
    BY <1>13, StreamsKept DEF PushGrows, Running, appVars, Making
  <2> QED
    BY <1>13, <2>1 DEF PushGrows, appVars, Places
<1>14. CASE Prompt
  <2>1. Owned' /\ Apart'
    BY <1>14, StreamsKept DEF Prompt, Running, Making, configVars
  <2> QED
    BY <1>14, <2>1 DEF Prompt, Running, Places
<1>15. CASE Exit
  <2>1. Owned' /\ Apart'
    BY <1>15, StreamsKept DEF Exit, Running, Making, configVars
  <2> QED
    BY <1>15, <2>1 DEF Exit, Running, Places
<1>16. CASE ClearTree
  BY <1>16, ClearTreeStreams
<1>17. CASE ClearEnd
  <2>1. Owned' /\ Apart'
    BY <1>17, StreamsKept DEF ClearEnd, Running, Making, configVars
  <2> QED
    BY <1>17, <2>1 DEF ClearEnd, Running, Places
<1>18. CASE UNCHANGED vars
  <2>1. Owned' /\ Apart'
    BY <1>18, StreamsKept DEF vars, configVars, appVars, Making
  <2> QED
    BY <1>18, <2>1 DEF vars, appVars, Places
<1> QED
  BY <1>1, <1>2, <1>3, <1>4, <1>5, <1>6, <1>7, <1>8, <1>9, <1>10, <1>11, <1>12, <1>13, <1>14,
     <1>15, <1>16, <1>17, <1>18 DEF Next, Work

LEMMA StreamsOwnedNow ==
  ASSUME Streams
  PROVE  StreamsOwned
<1> DEFINE live == {trees[i] : i \in at .. Len(trees)}
                   \cup (IF pc \in {"data", "build", "push"} THEN {tree} ELSE {})
<1>1. ASSUME NEW n PROVE Held(n) <=> \E b \in live : n \in StreamsOf(b)
  BY DEF Held, Making
<1>2. ASSUME status = "running"
      PROVE  open = UNION {StreamsOf(b) \ {Wild} : b \in live}
  <2>1. ASSUME NEW n PROVE n \in open <=> n # Wild /\ \E b \in live : n \in StreamsOf(b)
    BY <1>1, <1>2 DEF Streams, Owned
  <2> HIDE DEF live
  <2> QED
    BY <2>1
<1>3. ASSUME NEW b \in live, NEW c \in live, b # c
      PROVE  StreamsOf(b) \cap StreamsOf(c) \subseteq {Wild}
  <2>1. CASE (b = tree /\ Making) \/ (c = tree /\ Making)
    BY <1>3, <2>1 DEF Streams, Apart, Making
  <2>2. CASE ~(b = tree /\ Making) /\ ~(c = tree /\ Making)
    <3>1. PICK i \in at .. Len(trees) : b = trees[i]
      BY <2>2 DEF Making
    <3>2. PICK j \in at .. Len(trees) : c = trees[j]
      BY <2>2 DEF Making
    <3> QED
      BY <1>3, <3>1, <3>2 DEF Streams, Apart
  <2> QED
    BY <2>1, <2>2
<1> QED
  BY <1>2, <1>3 DEF StreamsOwned

(* While the program runs what is open are the streams of the trees that   *)
(* are not cleared yet, and each belongs to one of them.                   *)
THEOREM StreamsAreOwned == Spec => []StreamsOwned
<1>1. Init => Typed /\ Streams
  BY InitTyped, InitStreams
<1>2. Typed /\ Streams /\ [Next]_vars => (Typed /\ Streams)'
  BY StepTyped, StreamsStep
<1>3. Streams => StreamsOwned
  BY StreamsOwnedNow
<1> QED
  BY <1>1, <1>2, <1>3, PTL DEF Spec

-----------------------------------------------------------------------------
(* Pages that were used are handed out only where the program has a reason *)
(* to; until then memory that is not set is zero.  The tree that is made   *)
(* is a reason before it is in the array.                                  *)
Unset(b)   == b.write_reqs = Null /\ b.index # Wild /\ b.data # Wild
Partial(b) == b.cfg.data_file \in setup.partial
Excuse     == refused \/ \E b \in Trees : Partial(b)

Zeroed ==
  /\ reused => Excuse \/ (pc = "push" /\ Partial(tree))
  /\ ~reused => Unset(tree) /\ \A i \in 1 .. Len(trees) : Unset(trees[i])

Sound == Zeroed /\ CorruptOnlyOnUsedPages

LEMMA InitSound ==
  ASSUME Init
  PROVE  Sound
  BY DEF Init, ConfigInit, Sound, Zeroed, CorruptOnlyOnUsedPages, Unset, Fresh, Null, Wild

(* Steps that set no field of a tree and do not corrupt anything. *)
LEMMA SoundKept ==
  ASSUME Sound, UNCHANGED <<setup, tree, trees, reused, refused>>,
         pc = "push" => pc' = "push",
         status' = "corrupt" => status = "corrupt"
  PROVE  Sound'
  BY DEF Sound, Zeroed, CorruptOnlyOnUsedPages, Excuse, Partial, Trees

(* What a step adds to the array stays a reason.                           *)
LEMMA PushSound ==
  ASSUME Typed, Sound, Push
  PROVE  Sound'
<1>1. /\ trees' = Append(trees, tree) /\ trees \in Seq(TreeRecords) /\ tree \in TreeRecords
      /\ UNCHANGED <<setup, status, tree, reused, refused>>
  BY DEF Push, configVars, Typed, TypeOK
<1>2. /\ Len(trees) \in Nat /\ Len(trees') = Len(trees) + 1
      /\ \A i \in 1 .. Len(trees) : trees'[i] = trees[i]
      /\ trees'[Len(trees) + 1] = tree
      /\ DOMAIN trees = 1 .. Len(trees) /\ DOMAIN trees' = 1 .. Len(trees) + 1
  BY <1>1, AppendProperties
<1>3. Trees' = Trees \cup {tree}
  BY <1>2 DEF Trees
<1>4. \A i \in 1 .. Len(trees') : trees'[i] = tree \/ (i \in 1 .. Len(trees) /\ trees'[i] = trees[i])
  BY <1>2
<1>5. Excuse \/ Partial(tree) => Excuse'
  BY <1>1, <1>3 DEF Excuse, Partial
<1>6. Zeroed'
  BY <1>1, <1>4, <1>5 DEF Sound, Zeroed
<1>7. CorruptOnlyOnUsedPages'
  BY <1>1, <1>3 DEF Sound, CorruptOnlyOnUsedPages
<1> QED
  BY <1>6, <1>7 DEF Sound

LEMMA SoundStep ==
  ASSUME Typed, Streams, Sound, [Next]_vars
  PROVE  Sound'
<1>1. CASE NoList \/ NoFile \/ Prompt \/ Exit \/ ClearEnd
  BY <1>1, SoundKept DEF NoList, NoFile, Prompt, Exit, ClearEnd, Running, configVars
<1>2. CASE CreateCall
  BY <1>2, SoundKept DEF CreateCall, ReadCall, Running
<1>3. CASE Read
  <2>1. status' = "corrupt" => status = "corrupt"
    BY <1>3 DEF Read, ReadNext, ReadPair, ReadColumn, Starve, ColumnsEnd, ReadEnd
  <2> QED
    BY <1>3, <2>1, SoundKept DEF Read, appVars
<1>4. CASE ReadRefused
  BY <1>4, SoundKept DEF ReadRefused, Running
<1>5. CASE AllocTree
  <2>1. PICK found \in [{"index", "data", "reqs"} -> IF reused THEN {Null, Wild} ELSE {Null}] :
          tree' = [cfg |-> cfg, source |-> source,
                   index |-> found["index"], data |-> found["data"],
                   write_reqs |-> found["reqs"]]
    BY <1>5 DEF AllocTree
  <2>2. ~reused => Unset(tree')
    BY <2>1 DEF Unset, Null, Wild
  <2> QED
    BY <1>5, <2>2 DEF AllocTree, Running, Sound, Zeroed, CorruptOnlyOnUsedPages, Excuse, Partial,
                      Trees
<1>6. ASSUME NEW kind \in {"index", "data"}, NEW path, NEW after, OpenFile(kind, path, after)
      PROVE  Sound'
  <2>1. tree \in TreeRecords /\ opened \in Nat
    BY DEF Typed, TypeOK
  <2>2. Unset(tree) => Unset(tree')
    <3>1. CASE tree' = tree
      BY <3>1
    <3>2. CASE opened' = opened + 1 /\ tree' = [tree EXCEPT ![kind] = opened']
      <4>1. opened' # Wild
        BY <2>1, <3>2 DEF Wild
      <4> QED
        BY <1>6, <2>1, <3>2, <4>1 DEF Unset, TreeRecords
    <3> QED
      BY <1>6, <3>1, <3>2 DEF OpenFile
  <2> QED
    BY <1>6, <2>2 DEF OpenFile, Running, configVars, Sound, Zeroed, CorruptOnlyOnUsedPages,
                      Excuse, Partial, Trees
<1>7. CASE Refuse
  BY <1>7 DEF Refuse, Sound, Zeroed, CorruptOnlyOnUsedPages, Excuse
<1>8. CASE BuildCrashes \/ PushGrows
  BY <1>8, SoundKept DEF BuildCrashes, PushGrows, appVars
<1>9. CASE Push
  BY <1>9, PushSound
<1>10. CASE ClearTree
  <2>1. /\ status = "running" /\ at <= Len(trees)
        /\ status' = IF StreamsOf(trees[at]) \subseteq open
                        /\ (at = 1 \/ trees[at - 1].write_reqs = Null)
                     THEN status ELSE "corrupt"
        /\ pc = "clear" /\ UNCHANGED <<setup, pc, tree, trees, reused, refused>>
    BY <1>10 DEF ClearTree, Running
  <2>2. at \in Nat \ {0} /\ Len(trees) \in Nat
    BY StreamsTyped DEF Typed
  <2>3. ASSUME ~reused PROVE status' = status
    <3>1. \A i \in 1 .. Len(trees) : Unset(trees[i])
      BY <2>3 DEF Sound, Zeroed
    <3>2. at = 1 \/ trees[at - 1].write_reqs = Null
      BY <2>1, <2>2, <3>1 DEF Unset
    <3>3. StreamsOf(trees[at]) \subseteq open
      <4>1. ASSUME NEW n \in StreamsOf(trees[at]) PROVE n \in open
        <5>1. n # Wild
          BY <2>1, <2>2, <3>1 DEF Unset, StreamsOf
        <5>2. Held(n)
          BY <2>1, <2>2 DEF Held
        <5> QED
          BY <2>1, <5>1, <5>2 DEF Streams, Owned
      <4> QED
        BY <4>1
    <3> QED
      BY <2>1, <3>2, <3>3
  <2> QED
    BY <2>1, <2>3 DEF Sound, Zeroed, CorruptOnlyOnUsedPages, Excuse, Partial, Trees
<1>11. CASE UNCHANGED vars
  BY <1>11, SoundKept DEF vars, configVars, appVars
<1>12. CASE Build
  BY <1>12 DEF Build, Running, configVars, Sound, Zeroed, CorruptOnlyOnUsedPages, Excuse, Partial,
               Trees
<1> QED
  BY <1>1, <1>2, <1>3, <1>4, <1>5, <1>6, <1>7, <1>8, <1>9, <1>10, <1>11, <1>12
     DEF Next, Work, OpenIndex, OpenData

(* Freeing the elements of the array does no harm, and no tree closes what *)
(* is no stream, unless a tree was given up before or more of a record     *)
(* than the lists take over was read for one that is in the array.         *)
THEOREM OnlyUsedPagesCorrupt == Spec => []CorruptOnlyOnUsedPages
<1>1. Init => Typed /\ Streams /\ Sound
  BY InitTyped, InitStreams, InitSound
<1>2. Typed /\ Streams /\ Sound /\ [Next]_vars => (Typed /\ Streams /\ Sound)'
  BY StepTyped, StreamsStep, SoundStep
<1>3. Sound => CorruptOnlyOnUsedPages
  BY DEF Sound
<1> QED
  BY <1>1, <1>2, <1>3, PTL DEF Spec

-----------------------------------------------------------------------------
(* A set of naturals that is not empty has a least element, and a bounded  *)
(* one a greatest.                                                         *)
LEMMA HasLeast ==
  ASSUME NEW T \in SUBSET Nat, T # {}
  PROVE  \E i \in T : \A j \in T : i <= j
<1> DEFINE R == {ss \in Nat \X Nat : ss[1] < ss[2]}
<1>1. IsWellFoundedOn(R, Nat)
  BY NatLessThanWellFounded, Zenon DEF OpToRel
<1>2. \A x, y \in Nat : x < y => <<x, y>> \in R
  OBVIOUS
<1> HIDE DEF R
<1>3. PICK i \in T : \A j \in T : ~ (<<j, i>> \in R)
  BY <1>1, WFMin, Zenon
<1>4. ASSUME NEW j \in T PROVE i <= j
  <2>1. i \in Nat /\ j \in Nat /\ ~ (<<j, i>> \in R)
    BY <1>3
  <2>2. ~ (j < i)
    BY <1>2, <2>1, Zenon
  <2> QED
    BY <2>1, <2>2
<1> QED
  BY <1>4

LEMMA MinIsLeast ==
  ASSUME NEW T \in SUBSET Nat, T # {}
  PROVE  Min(T) \in T /\ \A j \in T : Min(T) <= j
<1>1. \E i \in T : \A j \in T : i <= j
  BY HasLeast
<1> QED
  BY <1>1 DEF Min

LEMMA MaxIsGreatest ==
  ASSUME NEW n \in Nat, NEW T \in SUBSET (1 .. n), T # {}
  PROVE  Max(T) \in T /\ \A j \in T : j <= Max(T)
<1> DEFINE U == {n - i : i \in T}
<1>1. U \in SUBSET Nat /\ U # {}
  <2>1. \A i \in T : n - i \in Nat
    OBVIOUS
  <2>2. PICK i \in T : TRUE
    OBVIOUS
  <2>3. n - i \in U
    OBVIOUS
  <2> QED
    BY <2>1, <2>3
<1>2. PICK u \in U : \A v \in U : u <= v
  BY <1>1, HasLeast
<1>3. PICK i \in T : u = n - i
  BY <1>2
<1>4. ASSUME NEW j \in T PROVE i >= j
  <2>1. n - i <= n - j
    BY <1>2, <1>3
  <2> QED
    BY <2>1
<1>5. \E x \in T : \A y \in T : x >= y
  BY <1>4
<1>6. Max(T) \in T /\ \A j \in T : Max(T) >= j
  BY <1>5 DEF Max
<1> QED
  BY <1>6

-----------------------------------------------------------------------------
(* What is known of a plain file.                                          *)
LEMMA PlainShape ==
  ASSUME NEW file \in Files, IsPlain(file)
  PROVE  /\ Len(file.words) \in Nat /\ Len(file.words) > 1
         /\ DOMAIN file.words = 1 .. Len(file.words)
         /\ SchemaAt(file) \in 1 .. Len(file.words) + 1 /\ SchemaAt(file) % 2 = 1
         /\ \A i \in 1 .. Len(file.words) :
              /\ file.words[i] \in Tokens /\ file.words[i] # Colon
              /\ i = Len(file.words) - 1 => file.words[i].colon
              /\ i = Len(file.words) => ~file.words[i].colon
              /\ i < SchemaAt(file) /\ i % 2 = 1 =>
                   /\ file.words[i].colon
                   /\ file.words[i].word \in ToSet(Tests) \ {"schema"}
              /\ i < SchemaAt(file) /\ i % 2 = 0 => ~file.words[i].colon
              /\ i = SchemaAt(file) =>
                   /\ file.words[i].colon /\ file.words[i].word = "schema"
                   /\ i + 1 < Len(file.words) /\ ~file.words[i + 1].colon
              /\ i >= SchemaAt(file) /\ i < Len(file.words) /\ file.words[i].colon =>
                   ~file.words[i + 1].colon
<1> DEFINE w == file.words
           n == Len(w)
           s == SchemaAt(file)
           T == {i \in KeysOf(file) : w[i].word = "schema"} \cup {n + 1}
<1>1. w \in Seq(Tokens) /\ n \in Nat /\ DOMAIN w = 1 .. n
  BY DEF Files
<1>2. \A i \in 1 .. n : w[i] \in Tokens
  BY <1>1, ElementOfSeq
<1>3. T \in SUBSET Nat /\ T \subseteq 1 .. n + 1 /\ T # {}
  BY <1>1 DEF KeysOf, Colons
<1>4. s = Min(T)
  BY DEF SchemaAt
<1>5. s \in T /\ \A j \in T : s <= j
  <2> HIDE DEF T, s
  <2> QED
    BY <1>3, <1>4, MinIsLeast
<1>6. s \in 1 .. n + 1
  BY <1>3, <1>5
<1>7. ASSUME NEW i \in 1 .. n, w[i].colon, w[i].word = "schema" PROVE s <= i
  BY <1>1, <1>5, <1>7 DEF KeysOf, Colons
<1>8. s <= n => w[s].colon /\ w[s].word = "schema"
  BY <1>1, <1>5, <1>6 DEF KeysOf, Colons
<1>9. /\ Colon \notin ToSet(w)
      /\ Len(w) > 1 /\ w[Len(w) - 1].colon /\ ~w[Len(w)].colon
      /\ s % 2 = 1
      /\ \A i \in 1 .. s - 1 :
           IF i % 2 = 1 THEN w[i].colon /\ w[i].word \in ToSet(Tests) ELSE ~w[i].colon
      /\ s <= Len(w) => /\ s + 1 < Len(w)
                        /\ ~w[s + 1].colon
                        /\ \A i \in s .. Len(w) - 1 : ~(w[i].colon /\ w[i + 1].colon)
  BY DEF IsPlain
<1>10. \A i \in 1 .. n : w[i] # Colon
  BY <1>1, <1>9 DEF ToSet
<1> HIDE DEF w, n, s, T
<1>11. \A i \in 1 .. n : i < s => i \in 1 .. s - 1
  BY <1>1, <1>6
<1>12. \A i \in 1 .. n :
         /\ i = n - 1 => w[i].colon
         /\ i = n => ~w[i].colon
  BY <1>9 DEF n
<1>13. \A i \in 1 .. n :
         /\ i < s /\ i % 2 = 1 => w[i].colon /\ w[i].word \in ToSet(Tests) \ {"schema"}
         /\ i < s /\ i % 2 = 0 => ~w[i].colon
  <2> TAKE i \in 1 .. n
  <2>1. i < s /\ i % 2 = 0 => ~w[i].colon
    BY <1>1, <1>6, <1>9, <1>11
  <2>2. i < s /\ i % 2 = 1 => w[i].colon /\ w[i].word \in ToSet(Tests)
    BY <1>1, <1>6, <1>9, <1>11
  <2>3. i < s /\ w[i].colon => w[i].word # "schema"
    BY <1>1, <1>6, <1>7
  <2> QED
    BY <2>1, <2>2, <2>3
<1>14. \A i \in 1 .. n :
         /\ i = s => /\ w[i].colon /\ w[i].word = "schema"
                     /\ i + 1 < n /\ ~w[i + 1].colon
         /\ i >= s /\ i < n /\ w[i].colon => ~w[i + 1].colon
  <2> TAKE i \in 1 .. n
  <2>1. i >= s => s <= n
    BY <1>1, <1>6
  <2>2. i >= s /\ i < n => i \in s .. n - 1
    BY <1>1, <1>6
  <2> QED
    BY <1>8, <1>9, <2>1, <2>2 DEF n
<1>15. n > 1 /\ s % 2 = 1
  BY <1>9 DEF n
<1> QED
  BY <1>1, <1>2, <1>6, <1>10, <1>12, <1>13, <1>14, <1>15 DEF w, n, s

-----------------------------------------------------------------------------
(* The fields a file can give, what one of them is in c, and what a word   *)
(* makes of it.                                                            *)
Kinds            == ToSet(Tests) \ {"schema"}
Field(c, f)      == IF f = "btree_name" THEN c.name ELSE c[f]
Meaning(f, word) == IF f \in {"order", "schema_size"} THEN Number[word]
                    ELSE IF f = "btree_name" THEN Text[word] ELSE Given(Text[word])

KindNames == {"order", "index_file", "data_file", "idx_free_rrn_address",
              "data_free_rrn_address", "schema_size", "btree_name"}

LEMMA KindsAre ==
  /\ ToSet(Tests) = KindNames \cup {"schema"}
  /\ Kinds = KindNames
<1>1. ToSet(Tests) = {Tests[i] : i \in 1 .. 8}
  BY DEF ToSet, Tests
<1>2. ToSet(Tests) = {Tests[1], Tests[2], Tests[3], Tests[4], Tests[5], Tests[6], Tests[7], Tests[8]}
  <2>1. 1 .. 8 = {1, 2, 3, 4, 5, 6, 7, 8}
    OBVIOUS
  <2> QED
    BY <1>1, <2>1
<1>3. ToSet(Tests) = KindNames \cup {"schema"}
  BY <1>2 DEF Tests, KindNames
<1> QED
  BY <1>3 DEF Kinds, KindNames

(* A key that is the name of a field is taken for that field: schema_size  *)
(* for itself, since it is tested for before schema.                       *)
LEMMA FieldOfName ==
  ASSUME NEW g \in ToSet(Tests)
  PROVE  FieldOf(<<g>>) = g
<1> DEFINE found == {i \in DOMAIN Tests : Tests[i] \in Mentioned(<<g>>)}
<1>1. Mentioned(<<g>>) = Mentions[g]
  BY DEF Mentioned
<1>2. Mentions[g] = IF g = "schema_size" THEN {"schema_size", "schema"} ELSE {g}
  BY FieldsAssumption
<1>3. DOMAIN Tests = {1, 2, 3, 4, 5, 6, 7, 8}
  BY DEF Tests
<1>4. found \in SUBSET Nat
  BY <1>3
<1>5. PICK n \in 1 .. 8 : Tests[n] = g
  BY DEF ToSet, Tests
<1>6. \A i \in 1 .. 8 : Tests[i] = g => i = n
  BY <1>5 DEF Tests
<1>7. found = IF g = "schema_size" THEN {6, 7} ELSE {n}
  <2>1. CASE g = "schema_size"
    BY <1>1, <1>2, <1>3, <2>1 DEF Tests
  <2>2. CASE g # "schema_size"
    BY <1>1, <1>2, <1>3, <1>5, <1>6, <2>2
  <2> QED
    BY <2>1, <2>2
<1>8. g = "schema_size" => n = 6
  BY <1>6 DEF Tests
<1>9. n \in found /\ \A i \in found : n <= i
  BY <1>7, <1>8
<1>10. FieldOf(<<g>>) = IF found = {} THEN "none" ELSE Tests[Min(found)]
  BY DEF FieldOf
<1> HIDE DEF found
<1>11. Min(found) \in found /\ \A i \in found : Min(found) <= i
  BY <1>4, <1>9, MinIsLeast
<1>12. Min(found) = n
  <2>1. PICK k : k = Min(found)
    OBVIOUS
  <2>2. k \in Nat /\ k <= n /\ n <= k
    BY <1>4, <1>9, <1>11, <2>1
  <2>3. k = n
    BY <2>2
  <2> QED
    BY <2>1, <2>3
<1> QED
  BY <1>5, <1>9, <1>10, <1>12

(* The last place at or before word p where the file gives field f.        *)
IsLast(file, f, p, m) ==
  m \in PlacesOf(file, f) /\ m <= p /\ \A i \in PlacesOf(file, f) : i <= p => i <= m

(* c has of every field what the first p words of the file say last.       *)
SaidBy(file, c, p) ==
  \A f \in Kinds : \A m : IsLast(file, f, p, m) => Field(c, f) = Meaning(f, file.words[m + 1].word)

(* After the pair before word q the settings are those of one more pair.   *)
AfterPair(c, g, v) ==
  CASE g \in {"order", "schema_size"} -> [c EXCEPT ![g] = Number[v]]
    [] g = "btree_name"               -> [c EXCEPT !.name = Text[v]]
    [] g \in Addresses                -> [c EXCEPT ![g] = Given(Text[v])]
    [] OTHER                          -> c

LEMMA PairSets ==
  ASSUME NEW c \in Settings, NEW g \in Kinds, NEW v
  PROVE  /\ Field(AfterPair(c, g, v), g) = Meaning(g, v)
         /\ \A f \in Kinds \ {g} : Field(AfterPair(c, g, v), f) = Field(c, f)
<1>1. g \in KindNames /\ Kinds = KindNames
  BY KindsAre
<1>2. CASE g = "order"
  BY <1>1, <1>2 DEF KindNames, AfterPair, Field, Meaning, Settings, Addresses
<1>3. CASE g = "schema_size"
  BY <1>1, <1>3 DEF KindNames, AfterPair, Field, Meaning, Settings, Addresses
<1>4. CASE g = "btree_name"
  BY <1>1, <1>4 DEF KindNames, AfterPair, Field, Meaning, Settings, Addresses
<1>5. CASE g = "index_file"
  BY <1>1, <1>5 DEF KindNames, AfterPair, Field, Meaning, Settings, Addresses
<1>6. CASE g = "data_file"
  BY <1>1, <1>6 DEF KindNames, AfterPair, Field, Meaning, Settings, Addresses
<1>7. CASE g = "idx_free_rrn_address"
  BY <1>1, <1>7 DEF KindNames, AfterPair, Field, Meaning, Settings, Addresses
<1>8. CASE g = "data_free_rrn_address"
  BY <1>1, <1>8 DEF KindNames, AfterPair, Field, Meaning, Settings, Addresses
<1> QED
  BY <1>1, <1>2, <1>3, <1>4, <1>5, <1>6, <1>7, <1>8 DEF KindNames

(* The pair of the key at q and the word after it is handled: whatever the *)
(* first p words have said, q + 1 words have now.                          *)
LEMMA PairSaid ==
  ASSUME NEW file \in Files, IsPlain(file), NEW c \in Settings,
         NEW q \in 1 .. Len(file.words), q % 2 = 1, q < SchemaAt(file),
         NEW p \in {q - 1, q + 1}, SaidBy(file, c, p)
  PROVE  SaidBy(file, AfterPair(c, file.words[q].word, file.words[q + 1].word), q + 1)
<1> DEFINE w == file.words
           g == w[q].word
           d == AfterPair(c, g, w[q + 1].word)
<1>1. /\ Len(w) \in Nat /\ DOMAIN w = 1 .. Len(w) /\ SchemaAt(file) \in 1 .. Len(w) + 1
      /\ w[q].colon /\ g \in Kinds /\ q < Len(w) /\ ~w[q + 1].colon
  <2>1. /\ Len(w) \in Nat /\ DOMAIN w = 1 .. Len(w) /\ SchemaAt(file) \in 1 .. Len(w) + 1
        /\ w[q].colon /\ g \in ToSet(Tests) \ {"schema"}
        /\ SchemaAt(file) % 2 = 1 /\ (q = Len(w) => ~w[q].colon)
    BY PlainShape
  <2>2. q < Len(w) /\ q + 1 \in 1 .. Len(w) /\ (q + 1) % 2 = 0 /\ q + 1 < SchemaAt(file)
    BY <2>1
  <2>3. ~w[q + 1].colon
    BY <2>2, PlainShape
  <2> QED
    BY <2>1, <2>2, <2>3 DEF Kinds
<1>2. /\ Field(d, g) = Meaning(g, w[q + 1].word)
      /\ \A f \in Kinds \ {g} : Field(d, f) = Field(c, f)
  BY <1>1, PairSets
<1>3. \A f : PlacesOf(file, f) \subseteq {i \in 1 .. Len(w) : w[i].colon /\ w[i].word = f}
  BY <1>1 DEF PlacesOf, KeysOf, Colons
<1>4. q \in PlacesOf(file, g)
  BY <1>1 DEF PlacesOf, KeysOf, Colons
<1> HIDE DEF w, g, d
<1>5. ASSUME NEW m, IsLast(file, g, q + 1, m) PROVE m = q
  BY <1>1, <1>3, <1>4, <1>5 DEF IsLast
<1>6. ASSUME NEW f \in Kinds \ {g}, NEW m, IsLast(file, f, q + 1, m)
      PROVE  IsLast(file, f, p, m)
  <2>1. q \notin PlacesOf(file, f) /\ q + 1 \notin PlacesOf(file, f)
    BY <1>1, <1>3, <1>6 DEF g
  <2>2. \A i \in PlacesOf(file, f) : i \in Nat /\ (i <= q + 1 <=> i <= p)
    BY <1>3, <2>1
  <2> QED
    BY <1>6, <2>2 DEF IsLast
<1>7. ASSUME NEW f \in Kinds, NEW m, IsLast(file, f, q + 1, m)
      PROVE  Field(d, f) = Meaning(f, w[m + 1].word)
  <2>1. CASE f = g
    BY <1>2, <1>5, <1>7, <2>1
  <2>2. CASE f # g
    BY <1>2, <1>6, <1>7, <2>2 DEF SaidBy, w
  <2> QED
    BY <2>1, <2>2
<1> QED
  BY <1>7 DEF SaidBy, w, g, d

-----------------------------------------------------------------------------
(* The words after the first p of the file are left to read.               *)
Unread(file, r, p) ==
  /\ p \in 0 .. Len(file.words)
  /\ Len(r) = Len(file.words) - p
  /\ \A i \in 1 .. Len(r) : r[i] = file.words[p + i]

LEMMA ScanAtEnd ==
  ASSUME rest \in Seq(Tokens), Unread(source, rest, Len(source.words)), source \in Files, Scan
  PROVE  eof' = TRUE /\ UNCHANGED <<rest, key, value>>
<1>1. Len(source.words) \in Nat
  BY DEF Files
<1>2. Len(rest) = 0
  BY <1>1 DEF Unread
<1>3. rest = <<>>
  BY <1>2
<1> QED
  BY <1>3 DEF Scan, ScanNothing, ScanColon, ScanKeyOnly, ScanPair

(* With a key before the last word, that key and the word after it are     *)
(* read, and the key takes in every word before it.                        *)
LEMMA ScanAtPair ==
  ASSUME source \in Files, rest \in Seq(Tokens), NEW p, Unread(source, rest, p),
         \A i \in 1 .. Len(source.words) : source.words[i] # Colon,
         NEW q \in p + 1 .. Len(source.words) - 1, source.words[q].colon,
         \A i \in p + 1 .. q - 1 : ~source.words[i].colon,
         Scan
  PROVE  /\ Unread(source, rest', q + 1)
         /\ eof' = (q + 1 = Len(source.words) /\ ~source.newline)
         /\ value' = source.words[q + 1].word
         /\ key' # <<>> /\ Last(key') = source.words[q].word
         /\ q = p + 1 => key' = <<source.words[q].word>>
<1> DEFINE w == source.words
           n == Len(w)
<1>1. /\ n \in Nat /\ p \in Nat /\ p <= n /\ q \in Nat /\ p < q /\ q < n /\ n - p \in Nat
      /\ Len(rest) = n - p /\ DOMAIN rest = 1 .. n - p
      /\ \A i \in 1 .. n - p : rest[i] = w[p + i]
  BY DEF Unread, Files
<1> HIDE DEF w, n
<1>2. /\ rest # <<>> /\ rest[1] # Colon
      /\ Colons(rest) = {i \in 1 .. n - p : w[p + i].colon}
  <2>1. 1 \in 1 .. n - p /\ p + 1 \in 1 .. n
    BY <1>1
  <2>2. rest[1] = w[p + 1]
    BY <1>1, <2>1
  <2>3. rest[1] # Colon
    BY <2>1, <2>2 DEF w, n
  <2>4. rest # <<>>
    BY <1>1
  <2>5. \A i \in 1 .. n - p : rest[i].colon <=> w[p + i].colon
    BY <1>1
  <2>6. Colons(rest) = {i \in 1 .. n - p : rest[i].colon}
    BY <1>1 DEF Colons
  <2> QED
    BY <2>3, <2>4, <2>5, <2>6
<1>3. q - p \in Colons(rest) /\ \A i \in Colons(rest) : q - p <= i
  <2>1. q - p \in 1 .. n - p /\ p + (q - p) = q
    BY <1>1
  <2>2. ASSUME NEW i \in 1 .. n - p, i < q - p PROVE ~w[p + i].colon
    <3>1. p + i \in p + 1 .. q - 1
      BY <1>1, <2>2
    <3> QED
      BY <3>1 DEF w
  <2>3. ASSUME NEW i \in Colons(rest) PROVE q - p <= i
    <3>1. i \in 1 .. n - p /\ ~(i < q - p)
      BY <1>2, <2>2, <2>3
    <3> QED
      BY <1>1, <3>1
  <2> QED
    BY <1>2, <2>1, <2>3 DEF w
<1>4. ScanPair
  BY <1>2, <1>3 DEF Scan, ScanNothing, ScanColon, ScanKeyOnly
<1>5. PICK last \in Colons(rest) :
        /\ \A i \in Colons(rest) : last <= i
        /\ key' = WordsOf(SubSeq(rest, 1, last))
        /\ IF last = Len(rest)
             THEN rest' = <<>> /\ eof' = TRUE /\ UNCHANGED value
             ELSE /\ value' = rest[last + 1].word
                  /\ rest' = SubSeq(rest, last + 2, Len(rest))
                  /\ eof' = (last + 1 = Len(rest) /\ ~source.newline)
  BY <1>4 DEF ScanPair
<1>6. last = q - p /\ last \in 1 .. n - p /\ last # Len(rest)
  <2>1. last \in 1 .. n - p /\ last <= q - p /\ q - p <= last
    BY <1>2, <1>3, <1>5
  <2> QED
    BY <1>1, <2>1
<1>7. /\ value' = rest[last + 1].word
      /\ rest' = SubSeq(rest, last + 2, Len(rest))
      /\ eof' = (last + 1 = Len(rest) /\ ~source.newline)
  BY <1>5, <1>6
<1>8. value' = w[q + 1].word
  <2>1. last + 1 \in 1 .. n - p /\ p + (last + 1) = q + 1
    BY <1>1, <1>6
  <2> QED
    BY <1>1, <1>7, <2>1
<1>9. eof' = (q + 1 = n /\ ~source.newline)
  BY <1>1, <1>6, <1>7
<1>10. Len(rest') = n - (q + 1) /\ \A i \in 1 .. Len(rest') : rest'[i] = w[q + 1 + i]
  <2>1. CASE last + 1 = Len(rest)
    <3>1. rest' = <<>>
      BY <1>1, <1>6, <1>7, <2>1
    <3> QED
      BY <1>1, <1>6, <2>1, <3>1
  <2>2. CASE last + 1 # Len(rest)
    <3>1. /\ last + 2 \in Int /\ Len(rest) \in Int /\ last + 2 <= Len(rest)
          /\ \A i \in last + 2 .. Len(rest) : rest[i] \in Tokens
      BY <1>1, <1>6, <2>2, ElementOfSeq
    <3>2. /\ Len(SubSeq(rest, last + 2, Len(rest))) = Len(rest) - (last + 2) + 1
          /\ \A i \in 1 .. Len(rest) - (last + 2) + 1 :
               SubSeq(rest, last + 2, Len(rest))[i] = rest[last + 2 + i - 1]
      BY <3>1, SubSeqProperties
    <3>3. Len(rest) - (last + 2) + 1 = n - (q + 1)
      BY <1>1, <1>6
    <3>4. ASSUME NEW i \in 1 .. n - (q + 1) PROVE rest'[i] = w[q + 1 + i]
      <4>1. last + 2 + i - 1 \in 1 .. n - p /\ p + (last + 2 + i - 1) = q + 1 + i
        <5>1. PICK d \in Nat, m \in Nat : d = n - p /\ m = n - (q + 1) /\ d = m + last + 1
          BY <1>1, <1>6
        <5>2. i \in Int /\ 1 <= i /\ i <= m
          BY <3>4, <5>1
        <5>3. last \in Nat /\ p \in Nat /\ q \in Nat /\ q = p + last
          BY <1>1, <1>6
        <5>4. last + 2 + i - 1 \in Nat /\ 1 <= last + 2 + i - 1 /\ last + 2 + i - 1 <= d
          BY <5>1, <5>2, <5>3
        <5>5. p + (last + 2 + i - 1) = q + 1 + i
          BY <5>2, <5>3
        <5> QED
          BY <5>1, <5>4, <5>5
      <4> QED
        BY <1>1, <1>7, <3>2, <3>3, <4>1
    <3> QED
      BY <1>7, <3>2, <3>3, <3>4
  <2> QED
    BY <2>1, <2>2
<1>11. key' # <<>> /\ Last(key') = w[q].word /\ (q = p + 1 => key' = <<w[q].word>>)
  <2> DEFINE part == SubSeq(rest, 1, last)
  <2>1. last <= Len(rest) /\ \A i \in 1 .. last : rest[i] \in Tokens
    BY <1>1, <1>6, ElementOfSeq
  <2>2. /\ part \in Seq(Tokens) /\ Len(part) = last
        /\ \A i \in 1 .. last : part[i] = rest[i]
    BY <1>1, <1>6, <2>1
  <2> HIDE DEF part
  <2>3. key' = [i \in 1 .. last |-> part[i].word]
    BY <1>5, <2>2 DEF WordsOf, part
  <2>4. Len(key') = last /\ last \in Nat \ {0}
    BY <1>1, <1>6, <2>3
  <2>5. key'[last] = rest[last].word
    BY <1>1, <1>6, <2>2, <2>3
  <2>6. rest[last] = w[q]
    <3>1. p + last = q
      BY <1>1, <1>6
    <3> QED
      BY <1>1, <1>6, <3>1
  <2>7. Last(key') = w[q].word
    BY <2>4, <2>5, <2>6 DEF Last
  <2>8. key' # <<>>
    BY <2>4
  <2>9. q = p + 1 => key' = <<w[q].word>>
    <3>1. SUFFICES ASSUME q = p + 1 PROVE key' = <<w[q].word>>
      OBVIOUS
    <3>2. last = 1 /\ 1 .. last = {1}
      BY <1>1, <1>6, <3>1
    <3>3. key' = [i \in {1} |-> w[q].word]
      BY <2>3, <2>5, <2>6, <3>2
    <3> QED
      BY <3>3
  <2> QED
    BY <2>7, <2>8, <2>9
<1>12. Unread(source, rest', q + 1)
  BY <1>1, <1>10 DEF Unread, w, n
<1> QED
  BY <1>8, <1>9, <1>11, <1>12 DEF w, n

-----------------------------------------------------------------------------
(* The names of the columns among the first p words.                       *)
ColumnsTo(file, p) ==
  {file.words[i].word : i \in {j \in KeysOf(file) : SchemaAt(file) < j /\ j <= p}}

(* p words of a plain file are read, before or after its schema has begun. *)
InPairs(p) ==
  /\ p < SchemaAt(source) /\ p % 2 = 0
  /\ SaidBy(source, cfg, p)
  /\ schema = {}
  /\ p > 0 => key = <<source.words[p - 1].word>> /\ value = source.words[p].word

InColumns(p) ==
  /\ SchemaAt(source) < p /\ ~source.words[p].colon
  /\ SaidBy(source, cfg, p)
  /\ {Last(k) : k \in schema} = ColumnsTo(source, p)
  /\ p > SchemaAt(source) + 1 => source.words[p - 1].colon /\ Last(key) = source.words[p - 1].word

Reached(p) ==
  /\ Unread(source, rest, p)
  /\ eof => p = Len(source.words)
  /\ \/ reading = "pairs" /\ InPairs(p)
     \/ reading = "pairs" /\ eof /\ InColumns(p)
     \/ reading = "columns" /\ InColumns(p)

(* While a plain file is read the settings and the schema are what the     *)
(* part of it that is read says; then they are what it says.               *)
Reading ==
  /\ reading \in {"pairs", "columns"} /\ IsPlain(source) => \E p \in Nat : Reached(p)
  /\ ConfigAsWritten
  /\ SchemaAsWritten

(* Words that are no keys of fields change nothing that was said.          *)
LEMMA SaidOn ==
  ASSUME NEW file, NEW c, NEW p, NEW q, SaidBy(file, c, p),
         \A f \in Kinds : \A i \in PlacesOf(file, f) : i <= p <=> i <= q
  PROVE  SaidBy(file, c, q)
<1>1. ASSUME NEW f \in Kinds, NEW m, IsLast(file, f, q, m) PROVE IsLast(file, f, p, m)
  BY <1>1 DEF IsLast
<1> QED
  BY <1>1 DEF SaidBy

LEMMA PlacesBefore ==
  ASSUME NEW file \in Files, NEW f
  PROVE  PlacesOf(file, f) \subseteq {i \in 1 .. Len(file.words) : i < SchemaAt(file)}
  BY DEF PlacesOf, KeysOf, Colons, Files

(* The settings that a pair leaves, as ReadPair writes them.               *)
LEMMA ReadPairSets ==
  ASSUME ReadPair, NEW g \in ToSet(Tests), FieldOf(key') = g
  PROVE  /\ cfg' = AfterPair(cfg, g, value')
         /\ g = "schema" => cfg' = cfg /\ reading' = "columns" /\ schema' = {}
         /\ g # "schema" => UNCHANGED <<reading, schema>>
         /\ Scan /\ ~eof /\ UNCHANGED source /\ reading = "pairs"
<1>1. cfg' = AfterPair(cfg, g, value')
  BY DEF ReadPair, AfterPair
<1>2. g = "schema" => AfterPair(cfg, g, value') = cfg
  BY DEF AfterPair, Addresses
<1>3. IF g = "schema" THEN reading' = "columns" /\ schema' = {} ELSE UNCHANGED <<reading, schema>>
  BY DEF ReadPair
<1> QED
  BY <1>1, <1>2, <1>3 DEF ReadPair

LEMMA ReadPairReading ==
  ASSUME ConfigTypeOK, Reading, ReadPair
  PROVE  Reading'
<1> DEFINE w == source.words
           n == Len(w)
           s == SchemaAt(source)
<1>0. /\ reading = "pairs" /\ ~eof /\ Scan /\ source' = source
      /\ reading' \in {"pairs", "columns"}
      /\ source \in Files /\ cfg \in Settings /\ rest \in Seq(Tokens)
  BY DEF ReadPair, ConfigTypeOK
<1>1. ConfigAsWritten' /\ SchemaAsWritten'
  BY <1>0 DEF ConfigAsWritten, SchemaAsWritten
<1>2. SUFFICES ASSUME IsPlain(source) PROVE \E p \in Nat : Reached(p)'
  <2>1. IsPlain(source)' <=> IsPlain(source)
    BY <1>0
  <2> QED
    BY <1>1, <2>1 DEF Reading
<1>3. PICK p \in Nat : Reached(p)
  BY <1>0, <1>2 DEF Reading
<1>4. Unread(source, rest, p) /\ InPairs(p)
  BY <1>0, <1>3 DEF Reached
<1>5. /\ n \in Nat /\ n > 1 /\ s \in 1 .. n + 1 /\ s % 2 = 1 /\ p \in 0 .. n
      /\ p < s /\ p % 2 = 0
      /\ \A i \in 1 .. n : w[i] # Colon
  BY <1>2, <1>4, <1>0, PlainShape DEF Unread, InPairs
<1>6. CASE p = n
  <2>1. eof' = TRUE /\ UNCHANGED <<rest, key, value>>
    BY <1>0, <1>4, <1>6, ScanAtEnd
  <2>2. PICK q \in 1 .. n : q = p - 1 /\ q % 2 = 1 /\ q < s /\ q + 1 = p
    <3>1. p \in Nat /\ p > 1 /\ p - 1 \in 1 .. n /\ p - 1 < s /\ (p - 1) + 1 = p
      BY <1>5, <1>6
    <3>2. (p - 1) % 2 = 1
      BY <1>5, <3>1
    <3> QED
      BY <3>1, <3>2
  <2>3. key' = <<w[q].word>> /\ value' = w[q + 1].word
    BY <1>4, <1>5, <1>6, <2>1, <2>2 DEF InPairs
  <2>4. w[q].word \in ToSet(Tests) \ {"schema"}
    BY <1>0, <1>2, <2>2, PlainShape
  <2>5. FieldOf(key') = w[q].word
    BY <2>3, <2>4, FieldOfName
  <2>6. cfg' = AfterPair(cfg, w[q].word, w[q + 1].word) /\ UNCHANGED <<reading, schema>>
    BY <2>3, <2>4, <2>5, ReadPairSets
  <2>7. SaidBy(source, cfg', p)
    <3>1. SaidBy(source, cfg, p) /\ p \in {q - 1, q + 1}
      BY <1>4, <2>2 DEF InPairs
    <3>2. SaidBy(source, AfterPair(cfg, w[q].word, w[q + 1].word), q + 1)
      BY <1>0, <1>2, <2>2, <3>1, PairSaid
    <3> QED
      BY <2>2, <2>6, <3>2
  <2>8. InPairs(p)'
    BY <1>0, <1>4, <2>1, <2>6, <2>7 DEF InPairs
  <2>9. Reached(p)'
    BY <1>0, <1>4, <1>6, <2>1, <2>6, <2>8 DEF Reached
  <2> QED
    BY <2>9
<1>7. CASE p < n
  <2>1. PICK q \in 1 .. n : q = p + 1 /\ q % 2 = 1 /\ q <= s
    BY <1>5, <1>7
  <2>2. w[q].colon /\ q < n
    <3>1. q < s => w[q].colon
      BY <1>0, <1>2, <2>1, PlainShape
    <3>2. q = s => w[q].colon
      BY <1>0, <1>2, <2>1, PlainShape
    <3>3. w[q].colon
      BY <1>5, <2>1, <3>1, <3>2
    <3>4. q # n
      BY <1>0, <1>2, <2>1, <3>3, PlainShape
    <3> QED
      BY <1>5, <2>1, <3>3, <3>4
  <2>3. /\ Unread(source, rest', q + 1)
        /\ eof' = (q + 1 = n /\ ~source.newline)
        /\ value' = w[q + 1].word
        /\ key' = <<w[q].word>>
    <3>1. q \in p + 1 .. n - 1 /\ \A i \in p + 1 .. q - 1 : ~w[i].colon
      BY <1>5, <2>1, <2>2
    <3> QED
      BY <1>0, <1>4, <1>5, <2>1, <2>2, <3>1, ScanAtPair
  <2>4. SaidBy(source, cfg, p)
    BY <1>4 DEF InPairs
  <2>5. CASE q < s
    <3>1. w[q].word \in ToSet(Tests) \ {"schema"}
      BY <1>0, <1>2, <2>1, <2>5, PlainShape
    <3>2. FieldOf(key') = w[q].word
      BY <2>3, <3>1, FieldOfName
    <3>3. cfg' = AfterPair(cfg, w[q].word, w[q + 1].word) /\ UNCHANGED <<reading, schema>>
      BY <2>3, <3>1, <3>2, ReadPairSets
    <3>4. SaidBy(source, cfg', q + 1)
      <4>1. p \in {q - 1, q + 1}
        BY <1>5, <2>1
      <4> QED
        BY <1>0, <1>2, <2>1, <2>4, <2>5, <3>3, <4>1, PairSaid
    <3>5. /\ q + 1 < s /\ (q + 1) % 2 = 0 /\ q + 1 > 0 /\ q + 1 - 1 = q
      BY <1>5, <2>1, <2>5
    <3>6. schema' = {}
      BY <1>4, <3>3 DEF InPairs
    <3>7. InPairs(q + 1)'
      BY <1>0, <2>3, <3>4, <3>5, <3>6 DEF InPairs
    <3>8. Reached(q + 1)'
      BY <1>0, <2>3, <3>3, <3>7 DEF Reached
    <3> QED
      BY <2>1, <3>8
  <2>6. CASE q = s
    <3>1. w[q].word = "schema" /\ ~w[q + 1].colon
      BY <1>0, <1>2, <2>1, <2>6, PlainShape
    <3>2. "schema" \in ToSet(Tests)
      BY KindsAre
    <3>3. cfg' = cfg /\ reading' = "columns" /\ schema' = {}
      BY <2>3, <3>1, <3>2, FieldOfName, ReadPairSets
    <3>4. SaidBy(source, cfg, q + 1)
      <4>1. ASSUME NEW f \in Kinds, NEW i \in PlacesOf(source, f)
            PROVE  i <= p <=> i <= q + 1
        <5>1. i \in 1 .. n /\ i < s
          BY <1>0, PlacesBefore
        <5> QED
          BY <1>5, <2>1, <2>6, <5>1
      <4> QED
        BY <2>4, <4>1, SaidOn
    <3>5. ColumnsTo(source, q + 1) = {}
      <4>1. ASSUME NEW j \in KeysOf(source), s < j, j <= q + 1 PROVE FALSE
        <5>1. j \in 1 .. n /\ w[j].colon
          BY <1>0, <4>1 DEF KeysOf, Colons, Files
        <5>2. j = q + 1
          BY <1>5, <2>1, <2>6, <4>1, <5>1
        <5> QED
          BY <3>1, <5>1, <5>2
      <4> QED
        BY <4>1 DEF ColumnsTo
    <3>6. {Last(k) : k \in schema'} = {}
      BY <3>3
    <3>7. s < q + 1 /\ ~(q + 1 > s + 1)
      BY <1>5, <2>1, <2>6
    <3>8. InColumns(q + 1)'
      BY <1>0, <3>1, <3>3, <3>4, <3>5, <3>6, <3>7 DEF InColumns
    <3>9. Reached(q + 1)'
      BY <1>0, <2>3, <3>3, <3>8 DEF Reached
    <3> QED
      BY <2>1, <3>9
  <2> QED
    BY <1>5, <2>1, <2>5, <2>6
<1> QED
  BY <1>5, <1>6, <1>7

LEMMA ReadColumnReading ==
  ASSUME ConfigTypeOK, Reading, ReadColumn
  PROVE  Reading'
<1> DEFINE w == source.words
           n == Len(w)
           s == SchemaAt(source)
<1>0. /\ reading = "columns" /\ reading' = reading /\ Scan /\ source' = source /\ cfg' = cfg
      /\ schema' = schema \cup {key'}
      /\ source \in Files /\ rest \in Seq(Tokens)
  BY DEF ReadColumn, ConfigTypeOK
<1>1. ConfigAsWritten' /\ SchemaAsWritten'
  BY <1>0 DEF ConfigAsWritten, SchemaAsWritten
<1>2. SUFFICES ASSUME IsPlain(source) PROVE \E p \in Nat : Reached(p)'
  <2>1. IsPlain(source)' <=> IsPlain(source)
    BY <1>0
  <2> QED
    BY <1>1, <2>1 DEF Reading
<1>3. PICK p \in Nat : Reached(p)
  BY <1>0, <1>2 DEF Reading
<1>4. Unread(source, rest, p) /\ InColumns(p)
  BY <1>0, <1>3 DEF Reached
<1>5. /\ n \in Nat /\ s \in 1 .. n + 1 /\ p \in 0 .. n /\ s < p /\ s \in 1 .. n
      /\ ~w[p].colon /\ w[n - 1].colon /\ n > 1
      /\ \A i \in 1 .. n : w[i] # Colon
  <2>1. /\ n \in Nat /\ s \in 1 .. n + 1 /\ p \in 0 .. n /\ s < p /\ ~w[p].colon /\ n > 1
        /\ \A i \in 1 .. n : w[i] # Colon
    BY <1>2, <1>4, <1>0, PlainShape DEF Unread, InColumns
  <2>2. n - 1 \in 1 .. n /\ s \in 1 .. n
    BY <2>1
  <2>3. w[n - 1].colon
    BY <1>0, <1>2, <2>2, PlainShape
  <2> QED
    BY <2>1, <2>2, <2>3
<1>6. s + 1 < n /\ ~w[s + 1].colon
  BY <1>0, <1>2, <1>5, PlainShape
<1>7. KeysOf(source) = {i \in 1 .. n : w[i].colon}
  BY <1>0 DEF KeysOf, Colons, Files
<1>8. SaidBy(source, cfg, p) /\ {Last(k) : k \in schema} = ColumnsTo(source, p)
  BY <1>4 DEF InColumns
<1>9. {Last(k) : k \in schema'} = ColumnsTo(source, p) \cup {Last(key')}
  BY <1>0, <1>8
<1>10. CASE p = n
  <2>1. eof' = TRUE /\ UNCHANGED <<rest, key, value>>
    BY <1>0, <1>4, <1>10, ScanAtEnd
  <2>2. p > s + 1 /\ p - 1 \in 1 .. n /\ s < p - 1 /\ p - 1 <= p
    BY <1>5, <1>6, <1>10
  <2>3. w[p - 1].colon /\ Last(key) = w[p - 1].word
    BY <1>4, <2>2 DEF InColumns
  <2>4. Last(key') \in ColumnsTo(source, p)
    BY <1>7, <2>1, <2>2, <2>3 DEF ColumnsTo
  <2>5. {Last(k) : k \in schema'} = ColumnsTo(source, p)
    BY <1>9, <2>4
  <2>6. InColumns(p)'
    BY <1>0, <1>4, <2>1, <2>5 DEF InColumns
  <2>7. Reached(p)'
    BY <1>0, <1>4, <1>10, <2>1, <2>6 DEF Reached
  <2> QED
    BY <2>7
<1>11. CASE p < n
  <2> DEFINE T == {i \in p + 1 .. n - 1 : w[i].colon}
  <2>1. n - 1 \in T /\ T \in SUBSET Nat
    <3>1. p # n - 1
      BY <1>5
    <3> QED
      BY <1>5, <1>11, <3>1
  <2>2. PICK q \in T : \A i \in T : q <= i
    BY <2>1, HasLeast
  <2>3. q \in p + 1 .. n - 1 /\ w[q].colon /\ q \in 1 .. n /\ q < n /\ s < q /\ p < q
    BY <1>5, <2>2
  <2>4. \A i \in p + 1 .. q - 1 : ~w[i].colon
    BY <1>5, <2>2, <2>3
  <2>5. /\ Unread(source, rest', q + 1)
        /\ eof' = (q + 1 = n /\ ~source.newline)
        /\ Last(key') = w[q].word
    BY <1>0, <1>4, <1>5, <2>3, <2>4, ScanAtPair
  <2>6. ~w[q + 1].colon
    <3>1. q >= s
      BY <1>5, <2>3
    <3> QED
      BY <1>0, <1>2, <2>3, <3>1, PlainShape
  <2>7. SaidBy(source, cfg, q + 1)
    <3>1. ASSUME NEW f \in Kinds, NEW i \in PlacesOf(source, f)
          PROVE  i <= p <=> i <= q + 1
      <4>1. i \in 1 .. n /\ i < s
        BY <1>0, PlacesBefore
      <4> QED
        BY <1>5, <2>3, <4>1
    <3> QED
      BY <1>8, <3>1, SaidOn
  <2>8. ColumnsTo(source, q + 1) = ColumnsTo(source, p) \cup {w[q].word}
    <3>1. ASSUME NEW j \in KeysOf(source), s < j
          PROVE  j <= q + 1 <=> (j <= p \/ j = q)
      <4>1. j \in 1 .. n /\ w[j].colon
        BY <1>7
      <4>2. ~(j \in p + 1 .. q - 1) /\ j # q + 1
        BY <2>4, <2>6, <4>1
      <4> QED
        BY <1>5, <2>3, <4>1, <4>2
    <3>2. q \in KeysOf(source) /\ s < q
      BY <1>7, <2>3
    <3> QED
      BY <3>1, <3>2 DEF ColumnsTo
  <2>9. {Last(k) : k \in schema'} = ColumnsTo(source, q + 1)
    BY <1>9, <2>5, <2>8
  <2>10. s < q + 1 /\ q + 1 - 1 = q
    BY <1>5, <2>3
  <2>11. InColumns(q + 1)'
    BY <1>0, <2>3, <2>5, <2>6, <2>7, <2>9, <2>10 DEF InColumns
  <2>12. Reached(q + 1)'
    BY <1>0, <2>5, <2>11 DEF Reached
  <2> QED
    BY <2>3, <2>12
<1> QED
  BY <1>5, <1>10, <1>11

(* At the end of the file every field that it gives has its last value.    *)
LEMMA SaidAtEnd ==
  ASSUME NEW file \in Files, NEW c, SaidBy(file, c, Len(file.words)),
         NEW f \in Kinds, PlacesOf(file, f) # {}
  PROVE  Field(c, f) = Meaning(f, LastFor(file, f))
<1>1. Len(file.words) \in Nat /\ PlacesOf(file, f) \in SUBSET (1 .. Len(file.words))
  BY PlacesBefore DEF Files
<1>2. PICK m : m = Max(PlacesOf(file, f))
  OBVIOUS
<1>3. m \in PlacesOf(file, f) /\ \A j \in PlacesOf(file, f) : j <= m
  BY <1>1, <1>2, MaxIsGreatest
<1>4. IsLast(file, f, Len(file.words), m)
  BY <1>1, <1>3 DEF IsLast
<1> QED
  BY <1>2, <1>4 DEF SaidBy, LastFor

(* What is completed is what was said.                                     *)
LEMMA CompletedAsSaid ==
  ASSUME source \in Files, cfg \in Settings, SaidBy(source, cfg, Len(source.words)),
         source' = source, cfg' = Completed(cfg)
  PROVE  ConfigAsWritten'
<1>1. \A f \in Kinds : PlacesOf(source, f) # {} => Field(cfg, f) = Meaning(f, LastFor(source, f))
  BY SaidAtEnd
<1>2. KindNames = Kinds
  BY KindsAre
<1>3. ASSUME PlacesOf(source, "btree_name") # {}
      PROVE  /\ cfg'.name = Text[LastFor(source, "btree_name")]
             /\ cfg'.index_file = Public(cfg'.name, "BTree.idx")
             /\ cfg'.data_file = Public(cfg'.name, "BTree.dat")
  <2>1. cfg.name = Text[LastFor(source, "btree_name")]
    BY <1>1, <1>2, <1>3 DEF KindNames, Field, Meaning
  <2> QED
    BY <2>1 DEF Completed
<1>4. ASSUME PlacesOf(source, "order") # {}
      PROVE  LET k == Number[LastFor(source, "order")]
             IN  cfg'.order = IF k \in 1 .. 99 THEN k ELSE DefaultOrder
  <2>1. cfg.order = Number[LastFor(source, "order")]
    BY <1>1, <1>2, <1>4 DEF KindNames, Field, Meaning
  <2> QED
    BY <2>1 DEF Completed
<1>5. ASSUME PlacesOf(source, "schema_size") # {}
      PROVE  LET k == Number[LastFor(source, "schema_size")]
             IN  cfg'.schema_size = IF k # 0 THEN k ELSE DefaultSize
  <2>1. cfg.schema_size = Number[LastFor(source, "schema_size")]
    BY <1>1, <1>2, <1>5 DEF KindNames, Field, Meaning
  <2> QED
    BY <2>1 DEF Completed
<1>6. ASSUME NEW f \in {"idx_free_rrn_address", "data_free_rrn_address"},
             PlacesOf(source, f) # {}, Text[LastFor(source, f)] # Blank
      PROVE  cfg'[f] = Given(Text[LastFor(source, f)])
  <2>1. cfg[f] = Given(Text[LastFor(source, f)])
    BY <1>1, <1>2, <1>6 DEF KindNames, Field, Meaning
  <2>2. cfg[f] # Given(Blank)
    BY <1>6, <2>1 DEF Given
  <2>3. CASE f = "idx_free_rrn_address"
    BY <2>1, <2>2, <2>3 DEF Completed, Address
  <2>4. CASE f = "data_free_rrn_address"
    BY <2>1, <2>2, <2>4 DEF Completed, Address
  <2> QED
    BY <2>3, <2>4
<1> QED
  BY <1>3, <1>4, <1>5, <1>6 DEF ConfigAsWritten

LEMMA ReadEndReading ==
  ASSUME ConfigTypeOK, Reading, NEW closes, ReadEnd(closes)
  PROVE  Reading'
<1> DEFINE n == Len(source.words)
           s == SchemaAt(source)
<1>0. /\ reading = "pairs" /\ eof /\ UNCHANGED <<source, schema>>
      /\ reading' \in {"read", "refused"}
      /\ reading' = "read" => cfg' = Completed(cfg)
      /\ source \in Files /\ cfg \in Settings
  BY DEF ReadEnd, ConfigTypeOK
<1>1. SUFFICES ASSUME reading' = "read", IsPlain(source)
               PROVE  ConfigAsWritten' /\ SchemaAsWritten'
  <2>1. reading' # "read" \/ ~IsPlain(source) => ConfigAsWritten' /\ SchemaAsWritten'
    BY <1>0 DEF ConfigAsWritten, SchemaAsWritten
  <2>2. ConfigAsWritten' /\ SchemaAsWritten' => Reading'
    BY <1>0 DEF Reading
  <2> QED
    BY <2>1, <2>2
<1>2. PICK p \in Nat : Reached(p)
  BY <1>0, <1>1 DEF Reading
<1>3. p = n /\ SaidBy(source, cfg, n)
  BY <1>0, <1>2 DEF Reached, InPairs, InColumns
<1>4. ConfigAsWritten'
  BY <1>0, <1>1, <1>3, CompletedAsSaid
<1>5. n \in Nat /\ s \in 1 .. n + 1 /\ KeysOf(source) \subseteq 1 .. n
  BY <1>0, <1>1, PlainShape DEF KeysOf, Colons, Files
<1>6. ColumnsTo(source, n) = ColumnsOf(source)
  <2>1. \A j \in KeysOf(source) : j <= n /\ (s < j <=> j > s)
    BY <1>5
  <2> QED
    BY <2>1 DEF ColumnsTo, ColumnsOf
<1>7. {Last(k) : k \in schema} = ColumnsTo(source, n)
  <2>1. CASE InPairs(n)
    <3>1. n < s /\ schema = {}
      BY <2>1 DEF InPairs
    <3>2. \A j \in KeysOf(source) : ~(s < j)
      BY <1>5, <3>1
    <3> QED
      BY <3>1, <3>2 DEF ColumnsTo
  <2>2. CASE InColumns(n)
    BY <2>2 DEF InColumns
  <2> QED
    BY <1>2, <1>3, <2>1, <2>2 DEF Reached
<1>8. SchemaAsWritten'
  BY <1>0, <1>6, <1>7 DEF SchemaAsWritten
<1> QED
  BY <1>4, <1>8

LEMMA ReadNextReading ==
  ASSUME ConfigTypeOK, Reading, NEW closes, ReadNext(closes)
  PROVE  Reading'
<1>1. CASE ReadPair
  BY <1>1, ReadPairReading
<1>2. CASE ReadColumn
  BY <1>2, ReadColumnReading
<1>3. CASE Starve
  BY <1>3 DEF Starve, readVars, Reading, Reached, Unread, InPairs, InColumns, SaidBy,
              ConfigAsWritten, SchemaAsWritten
<1>4. CASE ColumnsEnd
  <2>1. /\ reading = "columns" /\ reading' = "pairs" /\ eof
        /\ UNCHANGED <<source, rest, eof, key, value, cfg, schema>>
    BY <1>4 DEF ColumnsEnd, MoreColumns, ConfigTypeOK
  <2>2. ConfigAsWritten' /\ SchemaAsWritten'
    BY <2>1 DEF ConfigAsWritten, SchemaAsWritten
  <2>3. ASSUME NEW p \in Nat, Reached(p) PROVE Reached(p)'
    <3>1. Unread(source, rest, p) /\ p = Len(source.words) /\ InColumns(p)
      BY <2>1, <2>3 DEF Reached
    <3>2. InColumns(p)'
      BY <2>1, <3>1 DEF InColumns
    <3> QED
      BY <2>1, <3>1, <3>2 DEF Reached
  <2> QED
    BY <2>1, <2>2, <2>3 DEF Reading
<1>5. CASE ReadEnd(closes)
  BY <1>5, ReadEndReading
<1> QED
  BY <1>1, <1>2, <1>3, <1>4, <1>5 DEF ReadNext

LEMMA ReadCallReading ==
  ASSUME NEW file \in Files, ReadCall(file)
  PROVE  Reading'
<1>1. /\ source' = file /\ rest' = file.words /\ eof' = FALSE /\ schema' = {}
      /\ reading' = "pairs"
  BY DEF ReadCall
<1>2. SUFFICES ASSUME IsPlain(file) PROVE Reached(0)'
  BY <1>1 DEF Reading, ConfigAsWritten, SchemaAsWritten
<1>3. /\ Len(file.words) \in Nat /\ SchemaAt(file) \in 1 .. Len(file.words) + 1
  BY <1>2, PlainShape
<1>4. Unread(file, file.words, 0)
  BY <1>3 DEF Unread, Files
<1>5. SaidBy(file, cfg', 0)
  <2>1. ASSUME NEW f \in Kinds, NEW m, IsLast(file, f, 0, m) PROVE FALSE
    BY <1>3, <2>1, PlacesBefore DEF IsLast
  <2> QED
    BY <2>1 DEF SaidBy
<1>6. InPairs(0)'
  BY <1>1, <1>3, <1>5 DEF InPairs
<1> QED
  BY <1>1, <1>4, <1>6 DEF Reached

-----------------------------------------------------------------------------
(* A tree whose file names it has that name, and its files are called      *)
(* after it; its lists of free rrns are where the file says.               *)
NamedAsWritten(b) ==
  IsPlain(b.source) =>
    /\ PlacesOf(b.source, "btree_name") # {} =>
         /\ b.cfg.name = Text[LastFor(b.source, "btree_name")]
         /\ b.cfg.index_file = Public(b.cfg.name, "BTree.idx")
         /\ b.cfg.data_file = Public(b.cfg.name, "BTree.dat")
    /\ \A f \in Lists : Gives(b, f) => b.cfg[f] = Given(GivenAs(b, f))

TreesNamed ==
  /\ pc \in {"index", "data", "build", "push"} => NamedAsWritten(tree)
  /\ \A i \in 1 .. Len(trees) : NamedAsWritten(trees[i])

(* What is read and what is made of it are as the files say. *)
Written == Reading /\ TreesNamed

LEMMA InitWritten ==
  ASSUME Init
  PROVE  Written
<1>1. reading = "idle" /\ pc = "list" /\ Len(trees) = 0
  BY DEF Init, ConfigInit
<1>2. TreesNamed
  BY <1>1 DEF TreesNamed
<1> QED
  BY <1>1, <1>2 DEF Written, Reading, ConfigAsWritten, SchemaAsWritten

(* Steps that read nothing. *)
LEMMA ReadingKept ==
  ASSUME Reading, UNCHANGED readVars
  PROVE  Reading'
  BY DEF readVars, Reading, Reached, Unread, InPairs, InColumns, SaidBy, ConfigAsWritten,
         SchemaAsWritten

(* The configuration that was read is taken. *)
LEMMA ReadingOver ==
  ASSUME reading' = "idle"
  PROVE  Reading'
  BY DEF Reading, ConfigAsWritten, SchemaAsWritten

LEMMA StepWritten ==
  ASSUME Typed, Written, [Next]_vars
  PROVE  Written'
<1> USE DEF Written
<1>0. ConfigTypeOK /\ tree \in TreeRecords /\ trees \in Seq(TreeRecords) /\ Len(trees) \in Nat
  BY DEF Typed, TypeOK
<1>1. CASE NoList \/ NoFile \/ Build \/ Prompt \/ Exit \/ ClearEnd
  <2>1. UNCHANGED <<readVars, tree, trees>>
    BY <1>1 DEF NoList, NoFile, Build, Prompt, Exit, ClearEnd, configVars
  <2>2. pc' \in {"index", "data", "build", "push"} => pc \in {"index", "data", "build", "push"}
    BY <1>1 DEF NoList, NoFile, Build, Prompt, Exit, ClearEnd, Running
  <2> QED
    BY <2>1, <2>2, ReadingKept DEF TreesNamed
<1>2. CASE CreateCall
  <2>1. next \in 1 .. Len(setup.files) /\ setup.files \in Seq(Files)
    BY <1>2, FilesTyped DEF CreateCall, Typed, TypeOK
  <2>2. setup.files[next] \in Files
    BY <2>1, ElementOfSeq
  <2>3. Reading'
    BY <1>2, <2>2, ReadCallReading DEF CreateCall
  <2> QED
    BY <1>2, <2>3 DEF CreateCall, TreesNamed
<1>3. CASE Read
  BY <1>0, <1>3, ReadNextReading DEF Read, appVars, TreesNamed
<1>4. CASE ReadRefused
  BY <1>4, ReadingOver DEF ReadRefused, TreesNamed
<1>5. CASE AllocTree
  <2>1. tree'.cfg = cfg /\ tree'.source = source /\ reading = "read" /\ UNCHANGED trees
    BY <1>5 DEF AllocTree
  <2>2. ConfigAsWritten
    BY DEF Reading
  <2>3. NamedAsWritten(tree')
    BY <2>1, <2>2 DEF NamedAsWritten, Lists, Gives, GivenAs, ConfigAsWritten
  <2> QED
    BY <1>5, <2>1, <2>3, ReadingOver DEF AllocTree, TreesNamed
<1>6. ASSUME NEW kind \in {"index", "data"}, NEW path, NEW after, OpenFile(kind, path, after)
      PROVE  Written'
  <2>1. tree'.cfg = tree.cfg /\ tree'.source = tree.source
    <3>1. CASE tree' = tree
      BY <3>1
    <3>2. CASE tree' = [tree EXCEPT ![kind] = opened']
      BY <1>0, <1>6, <3>2 DEF TreeRecords
    <3> QED
      BY <1>6, <3>1, <3>2 DEF OpenFile
  <2>2. NamedAsWritten(tree) => NamedAsWritten(tree')
    BY <2>1 DEF NamedAsWritten, Gives, GivenAs
  <2>3. UNCHANGED <<readVars, trees>> /\ pc \in {"index", "data"}
    BY <1>6 DEF OpenFile, Running, configVars
  <2> QED
    BY <2>2, <2>3, ReadingKept DEF TreesNamed
<1>7. CASE Refuse
  BY <1>7, ReadingKept DEF Refuse, TreesNamed
<1>8. CASE BuildCrashes \/ PushGrows
  BY <1>8, ReadingKept DEF BuildCrashes, PushGrows, appVars, TreesNamed
<1>9. CASE Push
  <2>1. trees' = Append(trees, tree) /\ UNCHANGED readVars /\ pc = "push" /\ pc' = "list"
    BY <1>9 DEF Push, Running, configVars
  <2>2. \A i \in 1 .. Len(trees') : trees'[i] = tree \/ (i \in 1 .. Len(trees) /\ trees'[i] = trees[i])
    BY <1>0, <2>1, AppendProperties
  <2> QED
    BY <2>1, <2>2, ReadingKept DEF TreesNamed
<1>10. CASE ClearTree
  BY <1>10, ReadingKept DEF ClearTree, TreesNamed
<1>11. CASE UNCHANGED vars
  BY <1>11, ReadingKept DEF vars, configVars, appVars, TreesNamed
<1> QED
  BY <1>1, <1>2, <1>3, <1>4, <1>5, <1>6, <1>7, <1>8, <1>9, <1>10, <1>11
     DEF Next, Work, OpenIndex, OpenData

LEMMA AlwaysWritten == Spec => []Written
<1>1. Init => Typed /\ Written
  BY InitTyped, InitWritten
<1>2. Typed /\ Written /\ [Next]_vars => (Typed /\ Written)'
  BY StepTyped, StepWritten
<1> QED
  BY <1>1, <1>2, PTL DEF Spec

(* The settings of a plain file are its last values, whatever was on the   *)
(* stack and although the last pair may be handled twice.                  *)
THEOREM SettingsAreWritten == Spec => []ConfigAsWritten
<1>1. Written => ConfigAsWritten
  BY DEF Written, Reading
<1> QED
  BY <1>1, AlwaysWritten, PTL

(* Its columns are in the schema, each one and nothing else.               *)
THEOREM SchemaIsWritten == Spec => []SchemaAsWritten
<1>1. Written => SchemaAsWritten
  BY DEF Written, Reading
<1> QED
  BY <1>1, AlwaysWritten, PTL

LEMMA OwnFilesNow ==
  ASSUME TypeOK, TreesNamed
  PROVE  OwnFiles
<1>1. \A b \in Trees : NamedAsWritten(b)
  BY DEF Trees, TreesNamed, TypeOK
<1>2. ASSUME NEW b \in Trees, NEW c \in Trees, IsPlain(b.source), IsPlain(c.source),
             FilesOf(b) \cap FilesOf(c) # {}, Gives(b, "btree_name"), Gives(c, "btree_name")
      PROVE  GivenAs(b, "btree_name") = GivenAs(c, "btree_name")
  <2>1. /\ b.cfg.name = GivenAs(b, "btree_name") /\ c.cfg.name = GivenAs(c, "btree_name")
        /\ FilesOf(b) = {<<b.cfg.name, "BTree.idx">>, <<b.cfg.name, "BTree.dat">>}
        /\ FilesOf(c) = {<<c.cfg.name, "BTree.idx">>, <<c.cfg.name, "BTree.dat">>}
    BY <1>1, <1>2 DEF NamedAsWritten, Gives, GivenAs, FilesOf, Public
  <2>2. b.cfg.name = c.cfg.name
    BY <1>2, <2>1
  <2> QED
    BY <2>1, <2>2
<1>3. ASSUME NEW b \in Trees, NEW c \in Trees, IsPlain(b.source), IsPlain(c.source),
             NEW f \in Lists, NEW g \in Lists, b.cfg[f] = c.cfg[g], Gives(b, f), Gives(c, g)
      PROVE  GivenAs(b, f) = GivenAs(c, g)
  <2>1. b.cfg[f] = <<GivenAs(b, f)>> /\ c.cfg[g] = <<GivenAs(c, g)>>
    BY <1>1, <1>3 DEF NamedAsWritten, Given
  <2>2. <<GivenAs(b, f)>>[1] = <<GivenAs(c, g)>>[1]
    BY <1>3, <2>1
  <2> QED
    BY <2>2
<1> QED
  BY <1>2, <1>3 DEF OwnFiles

(* Of trees with plain files, two share an index or a data file only under *)
(* one name, and a list of free rrns only at one address, if both are      *)
(* given it: nothing an earlier tree left on the stack wins over what is   *)
(* written.                                                                *)
THEOREM FilesAreOwn == Spec => []OwnFiles
<1>1. Init => Typed
  BY InitTyped
<1>2. Typed /\ [Next]_vars => Typed'
  BY StepTyped
<1>3. Typed /\ Written => OwnFiles
  BY OwnFilesNow DEF Typed, Written
<1> QED
  BY <1>1, <1>2, <1>3, AlwaysWritten, PTL DEF Spec
=============================================================================
