------------------------------- MODULE Config -------------------------------
(***************************************************************************)
(* Reading one configuration file (src/modules/config/config.c).           *)
(*                                                                         *)
(* A file is the sequence of its words as white space parts them; a word   *)
(* may end with a colon.  fscanf(fp, " %[^:]: %s", key, value) takes as    *)
(* the key everything up to the next colon, line ends included, and the    *)
(* word after it as the value; what it cannot read keeps its last content, *)
(* and nobody looks at what it returns.                                    *)
(*                                                                         *)
(* key, value and the btree_config are on the stack and never initialised: *)
(* each part holds what the previous call left there, or Junk.             *)
(*                                                                         *)
(* Names, keys and addresses are shorter than their buffers.  end_str cuts *)
(* value where it stands; read again, it gives the same text.              *)
(***************************************************************************)
EXTENDS Integers, Sequences, FiniteSets, SequencesExt

CONSTANTS
  Words,    \* the words of configuration files
  Mentions, \* the names of fields that occur in a word
  Text,     \* what end_str(value + 1) makes of a word
  Number,   \* what atoi makes of it
  Braces,   \* the words with a "}"
  Blank,    \* the empty string
  Junk,     \* the word, and the string, uninitialised memory holds
  MaxPuts   \* bound: the columns the memory pool has room for

Tokens == [word : Words, colon : BOOLEAN]

(* A colon with white space before it. *)
Colon == [word |-> Blank, colon |-> TRUE]

(* The fields in the order in which a key is tested for them. *)
Tests == <<"order", "index_file", "data_file", "idx_free_rrn_address",
           "data_free_rrn_address", "schema_size", "schema", "btree_name">>

Addresses == {"index_file", "data_file", "idx_free_rrn_address", "data_free_rrn_address"}

ASSUME WordsAssumption == {Blank, Junk} \subseteq Words /\ Braces \subseteq Words
ASSUME MentionsAssumption == Mentions \in [Words -> SUBSET ToSet(Tests)]
ASSUME FieldsAssumption ==
  /\ ToSet(Tests) \subseteq Words
  /\ \A f \in ToSet(Tests) :
       Mentions[f] = IF f = "schema_size" THEN {"schema_size", "schema"} ELSE {f}
ASSUME ReadingAssumption == Text \in [Words -> Words] /\ Number \in [Words -> Int]
ASSUME MaxPutsAssumption == MaxPuts \in Nat

VARIABLES
  source,  \* history: the file that is read
  rest,    \* the words of it that are still to be read
  eof,     \* feof(fp)
  key,     \* the words of the string key
  value,   \* the string value
  cfg,     \* *cfg, except its schema
  schema,  \* the keys in cfg->schema
  puts,    \* how many columns were put into schemas since the program started
  reading, \* where read_btree_config is: pairs, columns, read, refused or idle
  status   \* the process: running, starved, crashed, aborted or corrupt

readVars   == <<source, rest, eof, key, value, cfg, schema, puts, reading>>
configVars == <<readVars, status>>

Files == [words : Seq(Tokens), newline : BOOLEAN]

(* Files are named after the tree and their kind; or as a string says. *)
Public(name, file) == <<name, file>>
Given(text)        == <<text>>

Names == {"BTree.idx", "BTree.dat", "idx_free_rrn.addr", "data_free_rrn.addr"}
Paths == {Public(w, f) : w \in Words, f \in Names} \cup {Given(w) : w \in Words}

Settings == [name : Words, order : Int, schema_size : Int, index_file : Paths, data_file : Paths,
             idx_free_rrn_address : Paths, data_free_rrn_address : Paths]

Zero == [name |-> Blank, order |-> 0, schema_size |-> 0, index_file |-> Given(Blank),
         data_file |-> Given(Blank), idx_free_rrn_address |-> Given(Blank),
         data_free_rrn_address |-> Given(Blank)]

ConfigInit ==
  /\ source = [words |-> <<>>, newline |-> FALSE]
  /\ rest = <<>> /\ eof = FALSE
  /\ key = <<Junk>> /\ value = Junk
  /\ cfg = Zero
  /\ schema = {} /\ puts = 0
  /\ reading = "idle"
  /\ status = "running"

(* What the stack holds in place of c. *)
Scrambled(c, parts) ==
  [c EXCEPT !.name = IF "name" \in parts THEN Junk ELSE @,
            !.order = IF "numbers" \in parts THEN Number[Junk] ELSE @,
            !.schema_size = IF "numbers" \in parts THEN Number[Junk] ELSE @,
            !.idx_free_rrn_address = IF "idx" \in parts THEN Given(Junk) ELSE @,
            !.data_free_rrn_address = IF "data" \in parts THEN Given(Junk) ELSE @]

(* The file is opened. *)
ReadCall(file) ==
  /\ status = "running"
  /\ source' = file
  /\ rest' = file.words
  /\ eof' = FALSE
  /\ \E parts \in SUBSET {"name", "numbers", "idx", "data"} : cfg' = Scrambled(cfg, parts)
  /\ key' \in {key, <<Junk>>}
  /\ value' \in {value, Junk}
  /\ schema' = {}
  /\ reading' = "pairs"
  /\ UNCHANGED <<puts, status>>

-----------------------------------------------------------------------------
(* fscanf(fp, " %[^:]: %s", key, value). *)
WordsOf(tokens) == [i \in DOMAIN tokens |-> tokens[i].word]
Colons(tokens)  == {i \in DOMAIN tokens : tokens[i].colon}

ScanNothing ==
  /\ rest = <<>>
  /\ eof' = TRUE
  /\ UNCHANGED <<rest, key, value>>

(* %[^:] does not match a colon: nothing is consumed. *)
ScanColon ==
  /\ rest # <<>> /\ rest[1] = Colon
  /\ UNCHANGED <<rest, eof, key, value>>

ScanKeyOnly ==
  /\ rest # <<>> /\ Colons(rest) = {}
  /\ key' = WordsOf(rest)
  /\ rest' = <<>>
  /\ eof' = TRUE
  /\ UNCHANGED value

(* The last word ends the file unless a line end follows it. *)
ScanPair ==
  /\ rest # <<>> /\ rest[1] # Colon /\ Colons(rest) # {}
  /\ \E last \in Colons(rest) :
       /\ \A i \in Colons(rest) : last <= i
       /\ key' = WordsOf(SubSeq(rest, 1, last))
       /\ IF last = Len(rest)
            THEN rest' = <<>> /\ eof' = TRUE /\ UNCHANGED value
            ELSE /\ value' = rest[last + 1].word
                 /\ rest' = SubSeq(rest, last + 2, Len(rest))
                 /\ eof' = (last + 1 = Len(rest) /\ ~source.newline)

Scan == ScanNothing \/ ScanColon \/ ScanKeyOnly \/ ScanPair

-----------------------------------------------------------------------------
Mentioned(k) == UNION {Mentions[k[i]] : i \in DOMAIN k}

(* Mutant of FieldOf: a key is tested for schema before schema_size. *)
FieldOfSchemaFirst(k) ==
  LET found == {i \in DOMAIN Tests : Tests[i] \in Mentioned(k)} IN
  IF found = {} THEN "none"
  ELSE IF 7 \in found THEN "schema" ELSE Tests[Min(found)]

(* The field a key is for. *)
FieldOf(k) ==
  LET found == {i \in DOMAIN Tests : Tests[i] \in Mentioned(k)} IN
  IF found = {} THEN "none" ELSE Tests[Min(found)]

(* One turn of the loop over the pairs; "schema" leads into read_schema. *)
ReadPair ==
  /\ status = "running" /\ reading = "pairs" /\ ~eof
  /\ Scan
  /\ LET f == FieldOf(key') IN
     /\ cfg' = CASE f \in {"order", "schema_size"} -> [cfg EXCEPT ![f] = Number[value']]
                 [] f = "btree_name"               -> [cfg EXCEPT !.name = Text[value']]
                 [] f \in Addresses                -> [cfg EXCEPT ![f] = Given(Text[value'])]
                 [] OTHER                          -> cfg
     /\ IF f = "schema" THEN reading' = "columns" /\ schema' = {}
                        ELSE UNCHANGED <<reading, schema>>
  /\ UNCHANGED <<source, puts, status>>

(* Mutant of MoreColumns: the loop ends only at a brace. *)
MoreColumnsToBrace == ~eof \/ \A i \in DOMAIN key : key[i] \notin Braces

(* The condition of read_schema's loop: it goes on at the end of the file  *)
(* if the last key has a brace.                                            *)
MoreColumns == ~eof \/ \E i \in DOMAIN key : key[i] \in Braces

(* Mutant of ReadColumn: the end of the file is looked for before the      *)
(* column that was read is put.                                            *)
ReadColumnLate ==
  /\ status = "running" /\ reading = "columns" /\ MoreColumns /\ puts < MaxPuts
  /\ Scan
  /\ schema' = IF eof' THEN schema ELSE schema \cup {key'}
  /\ puts' = puts + 1
  /\ UNCHANGED <<source, cfg, reading, status>>

(* One turn of it: whatever was read is a column. *)
ReadColumn ==
  /\ status = "running" /\ reading = "columns" /\ MoreColumns /\ puts < MaxPuts
  /\ Scan
  /\ schema' = schema \cup {key'}
  /\ puts' = puts + 1
  /\ UNCHANGED <<source, cfg, reading, status>>

(* The pool has no page for one more column: g_allocate takes pages that   *)
(* others use, which the model does not follow.                            *)
Starve ==
  /\ status = "running" /\ reading = "columns" /\ MoreColumns /\ puts = MaxPuts
  /\ status' = "starved"
  /\ UNCHANGED readVars

ColumnsEnd ==
  /\ status = "running" /\ reading = "columns" /\ ~MoreColumns
  /\ reading' = "pairs"
  /\ UNCHANGED <<source, rest, eof, key, value, cfg, schema, puts, status>>

-----------------------------------------------------------------------------
DefaultOrder == 20
DefaultSize  == 128

(* An address the file does not give is made from the name, if the stack   *)
(* held the empty string.                                                  *)
Address(given, name, file) == IF given = Given(Blank) THEN Public(name, file) ELSE given

(* Mutant of Completed: the files the configuration names are used. *)
CompletedAsGiven(c) ==
  [c EXCEPT !.order = IF @ \in 1 .. 99 THEN @ ELSE DefaultOrder,
            !.schema_size = IF @ = 0 THEN DefaultSize ELSE @,
            !.idx_free_rrn_address = Address(@, c.name, "idx_free_rrn.addr"),
            !.data_free_rrn_address = Address(@, c.name, "data_free_rrn.addr")]

(* The files are always named after the tree, whatever the file says. *)
Completed(c) ==
  [name        |-> c.name,
   order       |-> IF c.order \in 1 .. 99 THEN c.order ELSE DefaultOrder,
   schema_size |-> IF c.schema_size = 0 THEN DefaultSize ELSE c.schema_size,
   index_file  |-> Public(c.name, "BTree.idx"),
   data_file   |-> Public(c.name, "BTree.dat"),
   idx_free_rrn_address  |-> Address(c.idx_free_rrn_address, c.name, "idx_free_rrn.addr"),
   data_free_rrn_address |-> Address(c.data_free_rrn_address, c.name, "data_free_rrn.addr")]

(* Without a name the file is refused, but the numbers are set; if it does *)
(* not close it is refused as it is.                                       *)
ReadEnd(closes) ==
  /\ status = "running" /\ reading = "pairs" /\ eof
  /\ \/ ~closes /\ reading' = "refused" /\ UNCHANGED cfg
     \/ /\ closes /\ cfg.name = Blank
        /\ reading' = "refused"
        /\ cfg' = [cfg EXCEPT !.order = Completed(cfg).order,
                              !.schema_size = Completed(cfg).schema_size]
     \/ closes /\ cfg.name # Blank /\ reading' = "read" /\ cfg' = Completed(cfg)
  /\ UNCHANGED <<source, rest, eof, key, value, schema, puts, status>>

ReadNext(closes) == ReadPair \/ ReadColumn \/ Starve \/ ColumnsEnd \/ ReadEnd(closes)
-----------------------------------------------------------------------------
ConfigTypeOK ==
  /\ source \in Files /\ rest \in Seq(Tokens) /\ eof \in BOOLEAN
  /\ key \in Seq(Words) /\ value \in Words
  /\ cfg \in Settings
  /\ puts \in 0 .. MaxPuts
  /\ reading \in {"pairs", "columns", "read", "refused", "idle"}
  /\ status \in {"running", "starved", "crashed", "aborted", "corrupt"}

(* What a file means, from its words alone.                                *)
KeysOf(file) == Colons(file.words)

(* Where the schema begins; after the last word if there is none. *)
SchemaAt(file) ==
  Min({i \in KeysOf(file) : file.words[i].word = "schema"} \cup {Len(file.words) + 1})

(* A file as the shipped one: fields and values in turn, then perhaps      *)
(* "schema:", a word, and columns, each one a name with a colon and a      *)
(* type, with any word before the name but not two keys in a row; no       *)
(* brace, no colon by itself, no word after the last value.                *)
IsPlain(file) ==
  LET w == file.words
      s == SchemaAt(file)
  IN  /\ Colon \notin ToSet(w)
      /\ \A i \in DOMAIN w : w[i].word \notin Braces /\ w[i].word # Junk
      /\ Len(w) > 1 /\ w[Len(w) - 1].colon /\ ~w[Len(w)].colon
      /\ s % 2 = 1
      /\ \A i \in 1 .. s - 1 :
           IF i % 2 = 1 THEN w[i].colon /\ w[i].word \in ToSet(Tests) ELSE ~w[i].colon
      /\ s <= Len(w) => /\ s + 1 < Len(w)
                        /\ ~w[s + 1].colon
                        /\ \A i \in s .. Len(w) - 1 : ~(w[i].colon /\ w[i + 1].colon)

(* The words given for a field before the schema, the last of them. *)
PlacesOf(file, f) == {i \in KeysOf(file) : i < SchemaAt(file) /\ file.words[i].word = f}
LastFor(file, f)  == file.words[Max(PlacesOf(file, f)) + 1].word

(* The names of its columns. *)
ColumnsOf(file) == {file.words[i].word : i \in {j \in KeysOf(file) : j > SchemaAt(file)}}

(* What is read from a plain file is what it says: the last value of each  *)
(* field, completed, whatever was on the stack and although the last pair  *)
(* is handled once more when a line end follows it.                        *)
ConfigAsWritten ==
  reading = "read" /\ IsPlain(source) =>
    /\ PlacesOf(source, "btree_name") # {} =>
         /\ cfg.name = Text[LastFor(source, "btree_name")]
         /\ cfg.index_file = Public(cfg.name, "BTree.idx")
         /\ cfg.data_file = Public(cfg.name, "BTree.dat")
    /\ PlacesOf(source, "order") # {} =>
         LET n == Number[LastFor(source, "order")] IN
         cfg.order = IF n \in 1 .. 99 THEN n ELSE DefaultOrder
    /\ PlacesOf(source, "schema_size") # {} =>
         LET n == Number[LastFor(source, "schema_size")] IN
         cfg.schema_size = IF n # 0 THEN n ELSE DefaultSize
    /\ \A f \in {"idx_free_rrn_address", "data_free_rrn_address"} :
         PlacesOf(source, f) # {} /\ Text[LastFor(source, f)] # Blank =>
           cfg[f] = Given(Text[LastFor(source, f)])

(* The columns of a plain file are in the schema under keys that end with  *)
(* their names, each one and nothing else.                                 *)
SchemaAsWritten ==
  reading = "read" /\ IsPlain(source) => {Last(k) : k \in schema} = ColumnsOf(source)
=============================================================================
