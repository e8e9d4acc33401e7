------------------------------ MODULE IndexMap ------------------------------
(***************************************************************************)
(* What an index promises to its caller: a set of keys; at most one        *)
(* request at a time; an insertion that is refused only when the key is    *)
(* there or for lack of memory; a removal or a search that succeeds        *)
(* exactly on the keys that do not route other keys; a range query that    *)
(* lists, in order, exactly the keys of the range.  The promise lasts      *)
(* until the index is broken.                                              *)
(***************************************************************************)
EXTENDS Integers, Sequences, SequencesExt

CONSTANTS
  Keys,    \* the keys, as numbers
  NoOp     \* no request in progress

VARIABLES
  present,  \* the keys in the index
  routing,  \* those of them that route searches: not found, not removed
  op,       \* the request in progress, or NoOp
  done,     \* it has taken effect
  answer,   \* the answer to the last request
  broken    \* something has happened that ends the promise

vars == <<present, routing, op, done, answer, broken>>

Requests ==
  [kind : {"insert", "remove", "search"}, key : Keys]
    \cup [kind : {"range"}, from : Keys, to : Keys]

NoAnswer == [code |-> "none", keys |-> <<>>]

Init ==
  /\ present \subseteq Keys
  /\ routing \subseteq present
  /\ op = NoOp
  /\ done = FALSE
  /\ answer = NoAnswer
  /\ broken = FALSE

Request ==
  /\ op = NoOp
  /\ op' \in Requests
  /\ answer' = NoAnswer
  /\ UNCHANGED <<present, routing, done>>

(* An insertion or a removal takes effect once, on its own key; only an    *)
(* insertion may choose other keys to route by.                            *)
Effect ==
  /\ op # NoOp /\ ~done
  /\ \/ op.kind = "insert" /\ op.key \notin present /\ present' = present \cup {op.key}
     \/ /\ op.kind = "remove" /\ op.key \in present \ routing
        /\ present' = present \ {op.key} /\ UNCHANGED routing

Apply == Effect /\ done' = TRUE /\ UNCHANGED <<op, answer>>

Reroute == done /\ op.kind = "insert" /\ UNCHANGED <<present, op, done, answer>>

(* The true answers to a request that has no effect. *)
Truthful(a) ==
  CASE op.kind = "insert" -> \/ op.key \in present /\ a.code = "duplicate"
                             \/ op.key \notin present /\ a.code = "memory"
    [] op.kind = "remove" -> op.key \notin present \ routing /\ a.code = "not found"
    [] op.kind = "search" ->
         a.code = IF op.key \in routing THEN "null"
                  ELSE IF op.key \in present THEN "found" ELSE "not found"
    [] op.kind = "range"  ->
         /\ a.code = "keys"
         /\ \A i, j \in DOMAIN a.keys : i < j => a.keys[i] < a.keys[j]
         /\ ToSet(a.keys) = {k \in present : op.from <= k /\ k <= op.to}

Return ==
  /\ op # NoOp
  /\ op' = NoOp
  /\ done' = FALSE
  /\ \/ Effect /\ answer'.code = "ok"
     \/ done /\ answer'.code = "ok" /\ UNCHANGED present
     \/ ~done /\ Truthful(answer') /\ UNCHANGED <<present, routing>>

Next ==
  \/ broken'
  \/ /\ ~broken /\ ~broken'
     /\ routing' \subseteq present'
     /\ Request \/ Apply \/ Reroute \/ Return

Spec == Init /\ [][Next]_vars
=============================================================================
