------------------------------ MODULE SeqStore ------------------------------
(***************************************************************************)
(* What the generic queue and the generic list promise: a sequence of      *)
(* values that grows at one end and shrinks at its head, and, for the      *)
(* list, one file it can be saved to and read from.  Clearing and saving   *)
(* take several steps; nothing else happens meanwhile.                     *)
(***************************************************************************)
EXTENDS Integers, Sequences

CONSTANTS
  Values,   \* what is stored, numbers below Width
  Width,    \* the values a stored element can tell apart
  AtHead,   \* TRUE: grows at its head (the list); FALSE: at its end (the queue)
  NoValue,  \* no value in an answer
  NoFile    \* the file does not exist

VARIABLES items, file, busy, answer

vars == <<items, file, busy, answer>>

Reply(op, v, ok) == [op |-> op, value |-> v, ok |-> ok]
Add(s, v)        == IF AtHead THEN <<v>> \o s ELSE Append(s, v)

(* The file f holds the values of s, each perhaps with something above     *)
(* what a stored element keeps.                                            *)
Holds(f, s) == Len(f) = Len(s) /\ \A i \in DOMAIN s : f[i] % Width = s[i]

(* s with the values of the file f added one after the other. *)
AddAll(s, f) ==
  IF AtHead THEN [i \in 1 .. Len(f) |-> f[Len(f) + 1 - i] % Width] \o s
            ELSE s \o [i \in 1 .. Len(f) |-> f[i] % Width]

Init ==
  /\ items = <<>>
  /\ file = NoFile
  /\ busy = "no"
  /\ answer = Reply("none", NoValue, TRUE)

Put(v) ==
  /\ busy = "no"
  /\ items' = Add(items, v)
  /\ answer' = Reply("put", v, TRUE)
  /\ UNCHANGED <<file, busy>>

Take ==
  /\ busy = "no"
  /\ \/ items = <<>> /\ answer' = Reply("take", NoValue, FALSE) /\ UNCHANGED items
     \/ items # <<>> /\ answer' = Reply("take", Head(items), TRUE) /\ items' = Tail(items)
  /\ UNCHANGED <<file, busy>>

Top ==
  /\ busy = "no"
  /\ answer' = IF items = <<>> THEN Reply("top", NoValue, FALSE)
                               ELSE Reply("top", Head(items), TRUE)
  /\ UNCHANGED <<items, file, busy>>

Find(v) ==
  /\ busy = "no"
  /\ answer' = Reply("find", v, \E i \in DOMAIN items : items[i] = v)
  /\ UNCHANGED <<items, file, busy>>

Size ==
  /\ busy = "no"
  /\ answer' = Reply("size", Len(items), TRUE)
  /\ UNCHANGED <<items, file, busy>>

BeginClear == busy = "no" /\ busy' = "clear" /\ UNCHANGED <<items, file, answer>>
Drop == busy = "clear" /\ items # <<>> /\ items' = Tail(items) /\ UNCHANGED <<file, busy, answer>>

EndClear ==
  /\ busy = "clear"
  /\ items = <<>>
  /\ busy' = "no"
  /\ answer' = Reply("clear", NoValue, TRUE)
  /\ UNCHANGED <<items, file>>

(* A save may be refused, that of an empty list always is: the file keeps  *)
(* what it had, which need not be what the list held last.                 *)
BeginSave ==
  /\ busy = "no"
  /\ \/ answer' = Reply("save", NoValue, FALSE) /\ UNCHANGED <<file, busy>>
     \/ items # <<>> /\ file' = <<>> /\ busy' = "save" /\ UNCHANGED answer
  /\ UNCHANGED items

EndSave ==
  /\ busy = "save"
  /\ file' \in Seq(Nat)
  /\ Holds(file', items)
  /\ busy' = "no"
  /\ answer' = Reply("save", NoValue, TRUE)
  /\ UNCHANGED items

(* So may reading, even of a file that is there. *)
Read ==
  /\ busy = "no"
  /\ \/ answer' = Reply("read", NoValue, FALSE) /\ UNCHANGED items
     \/ /\ file # NoFile
        /\ items' = AddAll(items, file)
        /\ answer' = Reply("read", NoValue, TRUE)
  /\ UNCHANGED <<file, busy>>

Next ==
  \/ \E v \in Values : Put(v) \/ Find(v)
  \/ Take \/ Top \/ Size
  \/ BeginClear \/ Drop \/ EndClear
  \/ BeginSave \/ EndSave \/ Read

Spec == Init /\ [][Next]_vars
=============================================================================
