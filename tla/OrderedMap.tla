----------------------------- MODULE OrderedMap -----------------------------
(***************************************************************************)
(* What the primary-key index promises to a table: a map from keys to      *)
(* record pointers, changed by one call at one key, whatever the tree      *)
(* behind it does and however often it is saved and opened again.          *)
(***************************************************************************)
EXTENDS Integers

CONSTANTS Keys, Values

VARIABLES
  content,   \* the pairs of the map, a set of <<key, value>>
  result     \* what the last changing call returned: 0 or -1

vars == <<content, result>>

KeysOf(c) == {e[1] : e \in c}

Init == content = {} /\ result = 0

Insert(k, v) ==
  \/ /\ k \notin KeysOf(content)
     /\ content' = content \cup {<<k, v>>}
     /\ result' = 0
  \/ /\ k \in KeysOf(content)
     /\ result' = -1
     /\ UNCHANGED content

Delete(k) ==
  /\ content' = {e \in content : e[1] # k}
  /\ result' = IF k \in KeysOf(content) THEN 0 ELSE -1

Update(k, v) ==
  /\ content' = {IF e[1] = k THEN <<k, v>> ELSE e : e \in content}
  /\ result' = IF k \in KeysOf(content) THEN 0 ELSE -1

Next ==
  \E k \in Keys :
    \/ Delete(k)
    \/ \E v \in Values : Insert(k, v) \/ Update(k, v)

Spec == Init /\ [][Next]_vars
=============================================================================
