-------------------------------- MODULE App ---------------------------------
(***************************************************************************)
(* The program from main to its end (src/App.c) with the life of a tree:   *)
(* create_btree_from_file, the files it opens and clear_btree              *)
(* (src/modules/ds/BTree.c).                                               *)
(*                                                                         *)
(* For each configuration file main makes a tree on the pool and pushes a  *)
(* copy of the struct into the array app.btrees, whose first buffer has    *)
(* room for four.  At the end clear_btree is given the addresses of the    *)
(* array's elements and frees them as if they were blocks: for the first   *)
(* one g_deallocate finds the header of the array's buffer, for the others *)
(* the last field of the tree before, io.write_reqs, which nobody sets.    *)
(*                                                                         *)
(* Memory of the pool that was not used before is zero.  load_btree_node   *)
(* looks for the root in the node queue, which is empty, and returns NULL: *)
(* every tree starts empty, and the code for a root is not reached.        *)
(***************************************************************************)
EXTENDS Config

CONSTANTS
  Setups,   \* what may be on the disk: see Init
  Capacity  \* the trees there is room for: init_app says 4

ASSUME CapacityAssumption == Capacity \in Nat \ {0}
ASSUME SetupsAssumption == \A s \in Setups : s.files \in Seq(Files)

VARIABLES
  setup,   \* the configuration files, and what is wrong on the disk
  next,    \* the file main is at
  pc,      \* where main, or create_btree_from_file, is
  tree,    \* the tree that is being made
  trees,   \* app.btrees
  at,      \* the element clear_app is at
  opened,  \* how many times fopen has succeeded for an index or data file
  open,    \* the streams that are open, by that count
  reused,  \* pages that were used may be given out to a new tree
  refused  \* history: a tree was given up

appVars == <<setup, next, pc, tree, trees, at, opened, open, reused, refused>>
vars    == <<configVars, appVars>>

(* A FILE pointer: NULL, not one at all, or the n-th stream. *)
Null  == 0
Wild  == -1
Fresh == [cfg |-> Zero, source |-> source, index |-> Null, data |-> Null, write_reqs |-> Null]

(* A setup: the files that are listed, and which of them cannot be opened  *)
(* or not be closed; whether the list cannot be opened; the paths no tree  *)
(* can open; the data files that hold a record, and those that hold part   *)
(* of one, longer than three pages.                                        *)
Init ==
  /\ ConfigInit
  /\ setup \in Setups
  /\ next = 1
  /\ pc = "list"
  /\ tree = Fresh
  /\ trees = <<>>
  /\ at = 1
  /\ opened = 0 /\ open = {}
  /\ reused = FALSE /\ refused = FALSE

Running(where) == status = "running" /\ pc = where

-----------------------------------------------------------------------------
(* main: the list of configuration files cannot be opened. *)
NoList ==
  /\ Running("list") /\ next = 1
  /\ setup.unlisted
  /\ pc' = "ended"
  /\ UNCHANGED <<configVars, setup, next, tree, trees, at, opened, open, reused, refused>>

(* The next file of the list cannot be opened. *)
NoFile ==
  /\ Running("list") /\ ~setup.unlisted /\ next <= Len(setup.files)
  /\ next \in setup.absent
  /\ next' = next + 1
  /\ UNCHANGED <<configVars, setup, pc, tree, trees, at, opened, open, reused, refused>>

CreateCall ==
  /\ Running("list") /\ ~setup.unlisted /\ next <= Len(setup.files)
  /\ next \notin setup.absent
  /\ ReadCall(setup.files[next])
  /\ pc' = "read"
  /\ UNCHANGED <<setup, next, tree, trees, at, opened, open, reused, refused>>

Read ==
  /\ pc = "read"
  /\ ReadNext(next \notin setup.unclosed)
  /\ UNCHANGED appVars

ReadRefused ==
  /\ Running("read") /\ reading = "refused"
  /\ reading' = "idle"
  /\ next' = next + 1
  /\ pc' = "list"
  /\ UNCHANGED <<source, rest, eof, key, value, cfg, schema, puts, status>>
  /\ UNCHANGED <<setup, tree, trees, at, opened, open, reused, refused>>

(* alloc_tree_buf, and b->config = cfg.  What is not set here is zero, or  *)
(* anything if the page was used before.                                   *)
AllocTree ==
  /\ Running("read") /\ reading = "read"
  /\ \E found \in [{"index", "data", "reqs"} -> IF reused THEN {Null, Wild} ELSE {Null}] :
       tree' = [cfg |-> cfg, source |-> source,
                index |-> found["index"], data |-> found["data"], write_reqs |-> found["reqs"]]
  /\ reading' = "idle"
  /\ pc' = "index"
  /\ UNCHANGED <<source, rest, eof, key, value, cfg, schema, puts, status>>
  /\ UNCHANGED <<setup, next, trees, at, opened, open, reused, refused>>

(* create_index_file or create_data_file, then load_file, which tries once *)
(* more what has failed.  A stream that seems to be there is kept.         *)
OpenFile(kind, path, after) ==
  /\ Running(kind)
  /\ IF tree[kind] = Null /\ path \notin setup.broken
       THEN /\ opened' = opened + 1
            /\ open' = open \cup {opened'}
            /\ tree' = [tree EXCEPT ![kind] = opened']
       ELSE UNCHANGED <<opened, open, tree>>
  /\ pc' = after
  /\ UNCHANGED <<configVars, setup, next, trees, at, reused, refused>>

OpenIndex == OpenFile("index", tree.cfg.index_file, "data")
OpenData  == OpenFile("data", tree.cfg.data_file, "build")

-----------------------------------------------------------------------------
(* clear_io_buf of the streams of b. *)
StreamsOf(b) == {b.index, b.data} \ {Null}

(* Mutant of Refuse: the files of a tree that is given up stay open. *)
RefuseKeepsOpen ==
  /\ Running("build") /\ tree.data = Null
  /\ status' = IF StreamsOf(tree) \subseteq open THEN status ELSE "corrupt"
  /\ reused' = TRUE /\ refused' = TRUE
  /\ next' = next + 1
  /\ pc' = "list"
  /\ UNCHANGED <<readVars, setup, tree, trees, at, opened, open>>

(* build_tree_from_data_file fails without a data file; clear_btree.  To   *)
(* close what is no stream is undefined.                                   *)
Refuse ==
  /\ Running("build") /\ tree.data = Null
  /\ open' = open \ StreamsOf(tree)
  /\ status' = IF StreamsOf(tree) \subseteq open THEN status ELSE "corrupt"
  /\ reused' = TRUE /\ refused' = TRUE
  /\ next' = next + 1
  /\ pc' = "list"
  /\ UNCHANGED <<readVars, setup, tree, trees, at, opened>>

(* fseek through what is no stream; or b_insert of a record, whose key is  *)
(* never filled in.                                                        *)
BuildCrashes ==
  /\ Running("build")
  /\ tree.data = Wild \/ (tree.data # Null /\ tree.cfg.data_file \in setup.records)
  /\ status' = "crashed"
  /\ UNCHANGED <<readVars, appVars>>

(* The data file has no record; no root is found; main gets the tree.  The *)
(* record, its buffer, with what fread has put into it, and its key are    *)
(* given back.  The cells of the two lists of free rrns and their blocks   *)
(* take the first four of these pages; a fourth page of the buffer is for  *)
(* the next tree.                                                          *)
Build ==
  /\ Running("build")
  /\ tree.data \notin {Null, Wild} /\ tree.cfg.data_file \notin setup.records
  /\ reused' = (reused \/ tree.cfg.data_file \in setup.partial)
  /\ pc' = "push"
  /\ UNCHANGED <<configVars, setup, next, tree, trees, at, opened, open, refused>>

(* Mutant of Push: the struct is freed once it is copied. *)
PushFrees ==
  /\ Running("push") /\ Len(trees) < Capacity
  /\ trees' = Append(trees, tree)
  /\ reused' = TRUE
  /\ next' = next + 1
  /\ pc' = "list"
  /\ UNCHANGED <<configVars, setup, tree, at, opened, open, refused>>

(* Mutant of Push: the capacity is not looked at. *)
PushUnchecked ==
  /\ Running("push")
  /\ trees' = Append(trees, tree)
  /\ next' = next + 1
  /\ pc' = "list"
  /\ UNCHANGED <<configVars, setup, tree, at, opened, open, reused, refused>>

(* darray_push copies the struct; the first one is never freed. *)
Push ==
  /\ Running("push") /\ Len(trees) < Capacity
  /\ trees' = Append(trees, tree)
  /\ next' = next + 1
  /\ pc' = "list"
  /\ UNCHANGED <<configVars, setup, tree, at, opened, open, reused, refused>>

(* The array is full: realloc is given memory of the pool. *)
PushGrows ==
  /\ Running("push") /\ Len(trees) = Capacity
  /\ status' = "aborted"
  /\ UNCHANGED <<readVars, appVars>>

(* The list is read; the prompt, which ends at "exit", "quit" or the end   *)
(* of the input.  Its other commands change nothing.                       *)
Prompt ==
  /\ Running("list") /\ ~setup.unlisted /\ next > Len(setup.files)
  /\ pc' = "cli"
  /\ UNCHANGED <<configVars, setup, next, tree, trees, at, opened, open, reused, refused>>

Exit ==
  /\ Running("cli")
  /\ pc' = "clear"
  /\ UNCHANGED <<configVars, setup, next, tree, trees, at, opened, open, reused, refused>>

(* clear_app at one tree: its streams are closed, and the element freed.   *)
ClearTree ==
  /\ Running("clear") /\ at <= Len(trees)
  /\ open' = open \ StreamsOf(trees[at])
  /\ status' = IF StreamsOf(trees[at]) \subseteq open
                  /\ (at = 1 \/ trees[at - 1].write_reqs = Null)
               THEN status ELSE "corrupt"
  /\ at' = at + 1
  /\ UNCHANGED <<readVars, setup, next, pc, tree, trees, opened, reused, refused>>

(* darray_destroy, clear_mem; main returns. *)
ClearEnd ==
  /\ Running("clear") /\ at > Len(trees)
  /\ pc' = "ended"
  /\ UNCHANGED <<configVars, setup, next, tree, trees, at, opened, open, reused, refused>>

(* What the program does by itself; Exit is up to its user. *)
Work ==
  \/ NoList \/ NoFile \/ CreateCall \/ Read \/ ReadRefused
  \/ AllocTree \/ OpenIndex \/ OpenData
  \/ Refuse \/ BuildCrashes \/ Build \/ Push \/ PushGrows
  \/ Prompt \/ ClearTree \/ ClearEnd

Next == Work \/ Exit

Spec     == Init /\ [][Next]_vars
FairSpec == Spec /\ WF_vars(Work)
-----------------------------------------------------------------------------
Trees == {trees[i] : i \in DOMAIN trees}

(* What a FILE pointer, or the field taken for a header, may hold. *)
Pointers == {Wild, Null} \cup 1 .. opened
TreeRecords ==
  [cfg : Settings, source : Files, index : Pointers, data : Pointers, write_reqs : Pointers]

(* The parts are what they are called: the array is not overrun, and the   *)
(* streams of a tree are ones that were opened.                            *)
TypeOK ==
  /\ ConfigTypeOK
  /\ setup \in Setups
  /\ next \in 1 .. Len(setup.files) + 1
  /\ pc \in {"list", "read", "index", "data", "build", "push", "cli", "clear", "ended"}
  /\ tree \in TreeRecords
  /\ trees \in Seq(TreeRecords) /\ Len(trees) <= Capacity
  /\ at \in 1 .. Len(trees) + 1
  /\ opened \in Nat /\ open \subseteq 1 .. opened
  /\ reused \in BOOLEAN /\ refused \in BOOLEAN

(* A tree's index and data files; those of its lists of free rrns, which   *)
(* create_btree_from_file writes; and what its configuration gives as f.   *)
FilesOf(b)   == {b.cfg.index_file, b.cfg.data_file}
Lists        == {"idx_free_rrn_address", "data_free_rrn_address"}
Gives(b, f)  == PlacesOf(b.source, f) # {} /\ Text[LastFor(b.source, f)] # Blank
GivenAs(b, f) == Text[LastFor(b.source, f)]

(* Of two trees with plain configurations: they share an index or a data   *)
(* file only if they are given the same name or one is given none; and a   *)
(* list file only if they are given the same address for it, or one is     *)
(* given none: a name or an address that an earlier one left on the stack  *)
(* never wins over the one that is written.  A tree that is given no       *)
(* address does get the one on the stack, and with it, often, the list     *)
(* files of the tree before.                                               *)
OwnFiles ==
  \A b, c \in Trees :
    IsPlain(b.source) /\ IsPlain(c.source) =>
      /\ FilesOf(b) \cap FilesOf(c) # {} /\ Gives(b, "btree_name") /\ Gives(c, "btree_name") =>
           GivenAs(b, "btree_name") = GivenAs(c, "btree_name")
      /\ \A f, g \in Lists :
           b.cfg[f] = c.cfg[g] /\ Gives(b, f) /\ Gives(c, g) => GivenAs(b, f) = GivenAs(c, g)

(* A stream belongs to one tree while it is open, and when the program     *)
(* ends every stream has been closed: the copies of the struct and trees   *)
(* given up neither leak one nor close it twice.                           *)
StreamsOwned ==
  LET live == {trees[i] : i \in at .. Len(trees)}
              \cup (IF pc \in {"data", "build", "push"} THEN {tree} ELSE {})
  IN  status = "running" =>
        /\ open = UNION {StreamsOf(b) \ {Wild} : b \in live}
        /\ \A b, c \in live : b # c => StreamsOf(b) \cap StreamsOf(c) \subseteq {Wild}

(* To free elements of the array as if they were blocks, and to find the   *)
(* stream fields of a new tree unset, goes unnoticed as long as a tree is  *)
(* made of pages never used: until a tree was given up, or a large part of *)
(* a record was read for one.                                              *)
CorruptOnlyOnUsedPages ==
  status = "corrupt" => refused \/ \E b \in Trees : b.cfg.data_file \in setup.partial

(* A setup in which nothing is wrong: every file is there, plain and named, *)
(* the trees have room, and what they store in can be opened and is empty. *)
Serviceable ==
  /\ ~setup.unlisted /\ setup.absent = {} /\ setup.unclosed = {}
  /\ setup.broken = {} /\ setup.records = {} /\ setup.partial = {}
  /\ Len(setup.files) <= Capacity
  /\ \A i \in DOMAIN setup.files :
       /\ IsPlain(setup.files[i])
       /\ PlacesOf(setup.files[i], "btree_name") # {}
       /\ Text[LastFor(setup.files[i], "btree_name")] # Blank

(* With such a setup the prompt comes up with a tree for every file; and   *)
(* after "exit" the program ends, unless pages were used again.            *)
Serves ==
  /\ (pc = "list" /\ next = 1 /\ Serviceable) ~> (pc = "cli" /\ Len(trees) = Len(setup.files))
  /\ (pc = "clear" /\ ~reused) ~> (pc = "ended")

(* A configuration that is read makes a tree: run with the example in the  *)
(* comment at the head of config.c.                                        *)
ExampleIsRead == pc = "read" ~> pc = "index"
=============================================================================
