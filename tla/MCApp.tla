------------------------------- MODULE MCApp --------------------------------
(* Constants of the model-checked instances of App and Config. *)
EXTENDS App

K(w) == [word |-> w, colon |-> TRUE]
V(w) == [word |-> w, colon |-> FALSE]

(* Word by word: what it mentions, is as a text, and is as a number.  The  *)
(* texts lose their first character, so 'b stands for "b".                 *)
Fields == ToSet(Tests) \cup {"border"}
Quoted == {"'b", "'c", "'addr"}
MCWords ==
  Fields \cup Quoted \cup {"", "?", "-", "32", "500", "{", "},", "}", "id", "age", "int",
                           "b", "c", "addr"}
MCMentions ==
  [w \in MCWords |-> CASE w = "schema_size" -> {"schema_size", "schema"}
                       [] w = "border"      -> {"order"}
                       [] w \in ToSet(Tests) -> {w}
                       [] OTHER             -> {}]
MCText ==
  [w \in MCWords |-> CASE w = "'b" -> "b" [] w = "'c" -> "c" [] w = "'addr" -> "addr"
                       [] w = "?" -> "?" [] OTHER -> ""]
MCNumber == [w \in MCWords |-> CASE w = "32" -> 32 [] w = "500" -> 500 [] w = "?" -> 7 [] OTHER -> 0]
MCBraces == {"},", "}"}

(* Two columns, listed as in assets/configs/default_btree.conf. *)
Columns == <<K("schema"), V("-"), K("id"), V("int"), V("-"), K("age"), V("int")>>

Shipped(name) ==
  <<K("btree_name"), V(name), K("order"), V("32"), K("schema_size"), V("500")>> \o Columns

File(w) == [words |-> w, newline |-> TRUE]
Cut(w)  == [words |-> w, newline |-> FALSE]

Named(name) == File(<<K("btree_name"), V(name)>>)
Nameless    == File(<<K("order"), V("500"), K("data_free_rrn_address"), V("'addr")>>)

Sound(files) ==
  [files |-> files, absent |-> {}, unclosed |-> {}, unlisted |-> FALSE,
   broken |-> {}, records |-> {}, partial |-> {}]

(* One file of at most three words. *)
Pieces == {K("btree_name"), K("schema"), V("'b"), V("}"), Colon}
Short  == UNION {[1 .. n -> Pieces] : n \in 0 .. 3}

(* One longer file. *)
Long ==
  {Shipped("'b"),
   Columns,
   <<K("btree_name"), V("'b"), K("btree_name"), V("'c"), K("border"), V("32")>>,
   <<K("idx_free_rrn_address"), V("'addr"), K("data_free_rrn_address"), V("'addr"),
     K("index_file"), V("'c"), K("data_file"), V("'c"), K("btree_name"), V("'b")>>,
   <<K("btree_name"), V("'b"), K("schema"), K("id"), V("int"), K("age"), V("int")>>}

OneFile ==
  {Sound(<<f>>) : f \in {File(w) : w \in Short \cup Long} \cup {Cut(w) : w \in Short \cup Long}}

(* Two files, with and without a name, and the disk in order or not; three *)
(* files, the first tree or every other one given up.                      *)
Disks ==
  {[broken |-> {}, records |-> {}],
   [broken |-> {Public("b", "BTree.dat")}, records |-> {}],
   [broken |-> {Public("c", "BTree.idx")}, records |-> {Public("b", "BTree.dat")}]}
Pairs ==
  [1 .. 2 -> {Named("'b"), Named("'c"), Nameless}]
  \cup {<<File(Shipped("'b")), Named("'c")>>, <<File(<<V("b")>>), Named("'b")>>,
        <<Named("'c"), Cut(<<>>)>>}
Several ==
  {[Sound(l) EXCEPT !.broken = d.broken, !.records = d.records] : l \in Pairs, d \in Disks}
  \cup {[Sound(<<Named("'b"), Named("'c"), f>>) EXCEPT !.broken = {Public("b", "BTree.dat")}]
          : f \in {Named("'b"), Named("'c")}}

(* One tree too many for the array; and no list. *)
Full    == {Sound([i \in 1 .. n |-> Named(IF i % 2 = 0 THEN "'b" ELSE "'c")]) : n \in {4, 5}}
NoLists == {[Sound(<<>>) EXCEPT !.unlisted = TRUE], Sound(<<>>)}

(* The first of two files is gone when it is its turn, or does not close.  *)
Gone    == {[Sound(<<Nameless, Named("'b")>>) EXCEPT !.absent = {1}],
            [Sound(<<Named("'c"), Nameless>>) EXCEPT !.unclosed = {1}]}

(* The data file of the first of two or three trees holds a large part of  *)
(* a record.                                                               *)
Parts   == {[Sound(<<Named("'b"), Named("'c")>>) EXCEPT !.partial = {Public("b", "BTree.dat")}],
            [Sound(<<Named("'b"), Nameless, Named("'c")>>)
               EXCEPT !.partial = {Public("b", "BTree.dat")}]}

(* Two trees, addresses given for the list files of one or of both.        *)
Listed(name, addr) ==
  File(<<K("idx_free_rrn_address"), V(addr), K("btree_name"), V(name)>>)
Addressed == {Sound(<<Listed("'b", "'addr"), f>>) :
                f \in {Listed("'c", "'c"), Listed("'c", "'addr"), Named("'c")}}

MCSetups == OneFile \cup Several \cup Full \cup NoLists \cup Gone \cup Parts \cup Addressed

(* The example in the comment of config.c. *)
Example ==
  File(<<V("{"), K("btree_name"), V("'b"), K("order"), V("32"), K("index_file"), V("'c"),
         K("data_file"), V("'c"), K("schema"), V("{"), K("id"), V("int"), K("age"), V("int"),
         V("},"), V("}")>>)
MCExample == {Sound(<<Example>>)}
=============================================================================
