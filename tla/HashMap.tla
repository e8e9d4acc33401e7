------------------------------ MODULE HashMap -------------------------------
(***************************************************************************)
(* What the hash table promises its callers: per table a map from keys,    *)
(* cut to the length that is kept, to the value last put under them.       *)
(* Clearing takes several steps and excludes every other request.  The     *)
(* promise is kept until the process ends, whatever ended it.              *)
(***************************************************************************)
CONSTANTS
  Tables,   \* the tables callers hold
  Keys,     \* the keys they use
  Values,   \* the values they store
  Cut,      \* what is kept of each key
  NoTable,  \* no table is being cleared
  NoValue   \* no value, or no key: NULL

VARIABLES
  made,      \* the tables that exist
  maps,      \* what each holds; nothing, while it does not exist
  clearing,  \* the table that is being cleared
  answer,    \* what the last request returned
  ended      \* the process has ended

vars == <<made, maps, clearing, answer, ended>>

Reply(op, k, v, ok) == [op |-> op, key |-> k, value |-> v, ok |-> ok]
Empty == [k \in {} |-> NoValue]

Init ==
  /\ made = {}
  /\ maps = [t \in Tables |-> Empty]
  /\ clearing = NoTable
  /\ answer = Reply("none", NoValue, NoValue, TRUE)
  /\ ended = FALSE

Idle == clearing = NoTable

(* Creating a table may be refused. *)
Create(t) ==
  /\ Idle
  /\ t \notin made
  /\ \E ok \in BOOLEAN :
       /\ made' = IF ok THEN made \cup {t} ELSE made
       /\ answer' = Reply("create", NoValue, NoValue, ok)
  /\ UNCHANGED <<maps, clearing>>

(* The map m with v stored under k. *)
Written(m, k, v) == [j \in DOMAIN m \cup {k} |-> IF j = k THEN v ELSE m[j]]

(* The caller's key is cut, too.  A NULL key and a NULL value are refused. *)
Put(t, k, v) ==
  /\ Idle
  /\ IF t \in made /\ NoValue \notin {k, v}
       THEN /\ maps' = [maps EXCEPT ![t] = Written(@, Cut[k], v)]
            /\ answer' = Reply("put", Cut[k], v, TRUE)
       ELSE answer' = Reply("put", k, v, FALSE) /\ UNCHANGED maps
  /\ UNCHANGED <<made, clearing>>

(* The key that is looked for is not cut. *)
Lookup(t, k) ==
  /\ Idle
  /\ answer' = IF k \in DOMAIN maps[t]
               THEN Reply("lookup", k, maps[t][k], TRUE)
               ELSE Reply("lookup", k, NoValue, FALSE)
  /\ UNCHANGED <<made, maps, clearing>>

(* Any table that exists can be asked for its keys. *)
ListKeys(t) ==
  /\ Idle
  /\ answer' = Reply("keys", NoValue, DOMAIN maps[t], t \in made)
  /\ UNCHANGED <<made, maps, clearing>>

BeginClear(t) ==
  /\ Idle
  /\ IF t \in made
       THEN clearing' = t /\ UNCHANGED answer
       ELSE answer' = Reply("clear", NoValue, NoValue, FALSE) /\ UNCHANGED clearing
  /\ UNCHANGED <<made, maps>>

Forget ==
  /\ clearing # NoTable
  /\ \E S \in SUBSET DOMAIN maps[clearing] :
       maps' = [maps EXCEPT ![clearing] = [k \in S |-> @[k]]]
  /\ UNCHANGED <<made, clearing, answer>>

EndClear ==
  /\ clearing # NoTable
  /\ maps[clearing] = Empty
  /\ made' = made \ {clearing}
  /\ clearing' = NoTable
  /\ UNCHANGED maps
  /\ answer' = Reply("clear", NoValue, NoValue, TRUE)

Request ==
  \/ \E t \in Tables : Create(t) \/ ListKeys(t) \/ BeginClear(t)
  \/ \E t \in Tables, k \in Keys : Lookup(t, k)
  \/ \E t \in Tables, k \in Keys \cup {NoValue}, v \in Values \cup {NoValue} : Put(t, k, v)
  \/ Forget \/ EndClear

Next ==
  \/ ended'
  \/ Request /\ ~ended /\ ~ended'

Spec == Init /\ [][Next]_vars
=============================================================================
