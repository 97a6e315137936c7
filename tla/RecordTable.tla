---------------------------- MODULE RecordTable ----------------------------
(***************************************************************************)
(* What a table promises to the business logic: rows under keys that are   *)
(* handed out once, changed by one call at a time, and kept when the       *)
(* server is stopped and started.                                          *)
(***************************************************************************)
EXTENDS Integers

CONSTANTS Values

VARIABLES
  rows,    \* the live rows: a set of <<id, value>>
  used     \* every id a row was ever given

vars == <<rows, used>>

Init == rows = {} /\ used = {}

Insert(id, v) ==
  /\ id \notin used
  /\ rows' = rows \cup {<<id, v>>}
  /\ used' = used \cup {id}

Update(id, v) ==
  /\ \E r \in rows : r[1] = id
  /\ rows' = {IF r[1] = id THEN <<id, v>> ELSE r : r \in rows}
  /\ UNCHANGED used

Delete(id) ==
  /\ \E r \in rows : r[1] = id
  /\ rows' = {r \in rows : r[1] # id}
  /\ UNCHANGED used

Next ==
  \/ \E id \in used' : \E v \in Values : Insert(id, v)
  \/ \E id \in used : Delete(id) \/ \E v \in Values : Update(id, v)

Spec == Init /\ [][Next]_vars
=============================================================================
