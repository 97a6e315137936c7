----------------------------- MODULE PageStore -----------------------------
(***************************************************************************)
(* What the buffer pool promises to the tables: a page that is fetched has *)
(* the contents that were last written to it, whatever was evicted,        *)
(* flushed or reloaded in between.                                         *)
(***************************************************************************)
CONSTANTS Pages, Users, Values, NoPage

VARIABLES
  store,    \* the contents of every page
  holds     \* the page each user has fetched and not released, or NoPage

vars == <<store, holds>>

Init ==
  /\ store \in [Pages -> Values]
  /\ holds = [u \in Users |-> NoPage]

Fetch(u, p) ==
  /\ holds[u] = NoPage
  /\ holds' = [holds EXCEPT ![u] = p]
  /\ UNCHANGED store

Modify(u, v) ==
  /\ holds[u] # NoPage
  /\ store' = [store EXCEPT ![holds[u]] = v]
  /\ UNCHANGED holds

Release(u) ==
  /\ holds[u] # NoPage
  /\ holds' = [holds EXCEPT ![u] = NoPage]
  /\ UNCHANGED store

Next ==
  \E u \in Users :
    \/ \E p \in Pages : Fetch(u, p)
    \/ \E v \in Values : Modify(u, v)
    \/ Release(u)

Spec == Init /\ [][Next]_vars
=============================================================================
