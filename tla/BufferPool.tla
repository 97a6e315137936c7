----------------------------- MODULE BufferPool -----------------------------
(***************************************************************************)
(* The page cache of server/storage/buffer_pool.c: frames, a page map with *)
(* open addressing, an LRU list threaded through the frames, pins and      *)
(* dirty flags.  Every operation runs under the pool's mutex and is one    *)
(* step.  A user is a caller between buffer_pool_fetch and                 *)
(* buffer_pool_unpin; it holds a pointer into the frame's buffer, writes   *)
(* through it and marks the page dirty before it lets go, as the table     *)
(* functions do.  A page is <<fd, page_id>>.                               *)
(***************************************************************************)
EXTENDS Integers, FiniteSets

CONSTANTS
  Pages,        \* the pages in use, pairs <<fd, page_id>>
  NumFrames,    \* num_frames
  Users,
  PageData,     \* what a page can contain
  NoPage,       \* fd = -1, INVALID_PAGE_ID
  Idle,         \* a user without a page
  MaxReadFaults,   \* bound on failing page_read calls
  MaxWriteFaults   \* bound on failing page_write calls

ASSUME PagesAssumption == Pages \subseteq Nat \X Nat /\ NoPage \notin Pages /\ PageData # {}
ASSUME FramesAssumption == NumFrames \in Nat \ {0}
ASSUME UsersAssumption ==
  IsFiniteSet(Users) /\ Idle \notin [page : Pages, frame : 1 .. NumFrames, wrote : BOOLEAN]
ASSUME FaultsAssumption == MaxReadFaults \in Nat /\ MaxWriteFaults \in Nat

MAP_FACTOR == 4
map_capacity == NumFrames * MAP_FACTOR
FRAME_NONE == 0
Frames == 1 .. NumFrames
Buckets == 0 .. map_capacity - 1
NoBucket == -1

Free == [page |-> NoPage, frame |-> FRAME_NONE]   \* an unoccupied bucket

VARIABLES
  pool,      \* frames, map, lru_head, lru_tail
  files,     \* the contents of the data files
  held,      \* per user: the page, the frame behind its pointer, and
             \* whether it has written without marking the page dirty yet
  open,      \* the pool exists
  readFaults, writeFaults

poolVars == <<pool, files, held, open, readFaults, writeFaults>>

FrameRec ==
  [page : Pages \cup {NoPage}, data : PageData, pin_count : Nat,
   is_dirty : BOOLEAN, is_valid : BOOLEAN,
   prev : Frames \cup {FRAME_NONE}, next : Frames \cup {FRAME_NONE}]

\* The shapes of buffer_pool_t: indices stay inside the arrays they index.
PoolTypeOK ==
  /\ pool \in [frames : [Frames -> FrameRec],
               map : [Buckets -> [page : Pages, frame : Frames] \cup {Free}],
               head : Frames \cup {FRAME_NONE}, tail : Frames \cup {FRAME_NONE}]
  /\ files \in [Pages -> PageData]
  /\ held \in [Users -> {Idle} \cup [page : Pages, frame : Frames, wrote : BOOLEAN]]
  /\ open \in BOOLEAN
  /\ readFaults \in 0 .. MaxReadFaults /\ writeFaults \in 0 .. MaxWriteFaults
-----------------------------------------------------------------------------
(* The page map: linear probing from the hash of a page.                   *)

Least(S) == CHOOSE i \in S : \A j \in S : i <= j

hash(p) == (p[1] * 31 + p[2]) % map_capacity
Probe(p, i) == (hash(p) + i) % map_capacity

map_find(map, p) ==
  LET stops == {i \in Buckets : map[Probe(p, i)] = Free \/ map[Probe(p, i)].page = p}
      b == Probe(p, Least(stops))
  IN  IF stops = {} \/ map[b] = Free THEN NoBucket ELSE b

\* An insertion that stores the number of the bucket for that of the frame.
mutMapInsert(map, p, f) ==
  LET free == {i \in Buckets : map[Probe(p, i)] = Free}
      b == Probe(p, Least(free))
  IN  IF free = {} THEN map ELSE [map EXCEPT ![b] = [page |-> p, frame |-> b]]

map_insert(map, p, f) ==
  LET free == {i \in Buckets : map[Probe(p, i)] = Free}
  IN  IF free = {} THEN map
      ELSE [map EXCEPT ![Probe(p, Least(free))] = [page |-> p, frame |-> f]]

\* A removal that only clears its bucket: the probe sequences of the pages
\* behind it are cut.
mutMapRemove(map, p) ==
  LET b == map_find(map, p)
  IN  IF b = NoBucket THEN map ELSE [map EXCEPT ![b] = Free]

\* Clear the bucket and insert again, one after the other, the entries of the
\* contiguous run behind it.  An entry never moves behind the place it is taken
\* from, so the run is the one found before the first of them moves.
map_remove(map, p) ==
  LET b == map_find(map, p)
      cleared == [map EXCEPT ![b] = Free]
      At(i) == (b + i) % map_capacity
      end == Least({i \in 1 .. map_capacity : cleared[At(i)] = Free})
      shifted[i \in 0 .. end - 1] ==
        IF i = 0 THEN cleared
        ELSE LET e == shifted[i - 1][At(i)]
             IN  map_insert([shifted[i - 1] EXCEPT ![At(i)] = Free], e.page, e.frame)
  IN  IF b = NoBucket THEN map ELSE shifted[end - 1]
-----------------------------------------------------------------------------
(* The LRU list: head is the most recently used frame, tail the least.     *)

\* A removal that forgets to move the tail.
mutLruRemove(pl, f) ==
  LET p == pl.frames[f].prev
      n == pl.frames[f].next
      linked == [g \in Frames |->
        [pl.frames[g] EXCEPT !.next = IF g = p THEN n ELSE IF g = f THEN FRAME_NONE ELSE @,
                             !.prev = IF g = n THEN p ELSE IF g = f THEN FRAME_NONE ELSE @]]
  IN  [pl EXCEPT !.frames = linked,
                 !.head = IF p = FRAME_NONE THEN n ELSE @]

lru_remove(pl, f) ==
  LET p == pl.frames[f].prev
      n == pl.frames[f].next
      linked == [g \in Frames |->
        [pl.frames[g] EXCEPT !.next = IF g = p THEN n ELSE IF g = f THEN FRAME_NONE ELSE @,
                             !.prev = IF g = n THEN p ELSE IF g = f THEN FRAME_NONE ELSE @]]
  IN  [pl EXCEPT !.frames = linked,
                 !.head = IF p = FRAME_NONE THEN n ELSE @,
                 !.tail = IF n = FRAME_NONE THEN p ELSE @]

lru_push_front(pl, f) ==
  LET linked == [g \in Frames |->
        [pl.frames[g] EXCEPT !.prev = IF g = f THEN FRAME_NONE ELSE IF g = pl.head THEN f ELSE @,
                             !.next = IF g = f THEN pl.head ELSE @]]
  IN  [pl EXCEPT !.frames = linked,
                 !.head = f,
                 !.tail = IF @ = FRAME_NONE THEN f ELSE @]

lru_touch(pl, f) == lru_push_front(lru_remove(pl, f), f)

\* The frames met on the way from the tail towards the head.
FromTail(pl) ==
  LET at[i \in 0 .. NumFrames] ==
        IF i = 0 THEN pl.tail
        ELSE IF at[i - 1] = FRAME_NONE THEN FRAME_NONE ELSE pl.frames[at[i - 1]].prev
  IN  at
-----------------------------------------------------------------------------
(* Reusing a frame                                                         *)

\* The walk of _find_victim without its test of the pin count.
mutFindVictim(pl) ==
  LET unused == {f \in Frames : ~pl.frames[f].is_valid}
  IN  IF unused # {} THEN Least(unused) ELSE pl.tail

\* _find_victim: an unused frame, else the first unpinned one from the tail.
find_victim(pl) ==
  LET unused == {f \in Frames : ~pl.frames[f].is_valid}
      at == FromTail(pl)
      stops == {i \in 0 .. NumFrames :
                  at[i] = FRAME_NONE \/ pl.frames[at[i]].pin_count = 0}
  IN  IF unused # {} THEN Least(unused) ELSE at[Least(stops)]

\* The rest of _find_victim: a valid victim leaves the map and the list.
evict(pl, f) ==
  IF ~pl.frames[f].is_valid THEN pl
  ELSE lru_remove([pl EXCEPT !.map = map_remove(@, pl.frames[f].page),
                             !.frames[f].is_dirty = FALSE,
                             !.frames[f].is_valid = FALSE], f)

\* An eviction that forgets to write the page back.
mutEvictWrites(f) ==
  UNCHANGED <<files, writeFaults>>

\* The write of a dirty victim; the eviction goes on when it fails.
evict_writes(f) ==
  LET fr == pool.frames[f]
      dirty == fr.is_valid /\ fr.is_dirty
  IN  \/ /\ files' = IF dirty THEN [files EXCEPT ![fr.page] = fr.data] ELSE files
         /\ UNCHANGED writeFaults
      \/ /\ dirty /\ writeFaults < MaxWriteFaults
         /\ writeFaults' = writeFaults + 1
         /\ UNCHANGED files
-----------------------------------------------------------------------------
EmptyPool ==
  [frames |-> [f \in Frames |->
      [page |-> NoPage, data |-> CHOOSE v \in PageData : TRUE, pin_count |-> 0,
       is_dirty |-> FALSE, is_valid |-> FALSE, prev |-> FRAME_NONE, next |-> FRAME_NONE]],
   map |-> [b \in Buckets |-> Free], head |-> FRAME_NONE, tail |-> FRAME_NONE]

PoolInit ==
  /\ pool = EmptyPool
  /\ files \in [Pages -> PageData]
  /\ held = [u \in Users |-> Idle]
  /\ open = TRUE
  /\ readFaults = 0 /\ writeFaults = 0

FrameOf(p) == pool.map[map_find(pool.map, p)].frame

Hold(u, p, f) == held' = [held EXCEPT ![u] = [page |-> p, frame |-> f, wrote |-> FALSE]]

FetchHit(u, p) ==
  /\ open /\ held[u] = Idle
  /\ map_find(pool.map, p) # NoBucket
  /\ LET f == FrameOf(p)
     IN  /\ pool' = lru_touch([pool EXCEPT !.frames[f].pin_count = @ + 1], f)
         /\ Hold(u, p, f)
  /\ UNCHANGED <<files, open, readFaults, writeFaults>>

FetchMiss(u, p) ==
  /\ open /\ held[u] = Idle
  /\ map_find(pool.map, p) = NoBucket
  /\ find_victim(pool) # FRAME_NONE
  /\ LET f == find_victim(pool)
         freed == evict(pool, f)
         loaded == [freed EXCEPT !.map = map_insert(@, p, f),
                                 !.frames[f] = [freed.frames[f] EXCEPT
                                                   !.page = p, !.pin_count = 1, !.data = files[p],
                                                   !.is_dirty = FALSE, !.is_valid = TRUE]]
     IN  /\ pool' = lru_push_front(loaded, f)
         /\ evict_writes(f)
         /\ Hold(u, p, f)
  /\ UNCHANGED <<open, readFaults>>

\* page_read fails: the victim is gone and its frame stays unused.
FetchReadFails(u, p) ==
  /\ open /\ held[u] = Idle
  /\ map_find(pool.map, p) = NoBucket
  /\ find_victim(pool) # FRAME_NONE
  /\ readFaults < MaxReadFaults
  /\ readFaults' = readFaults + 1
  /\ pool' = evict(pool, find_victim(pool))
  /\ evict_writes(find_victim(pool))
  /\ UNCHANGED <<held, open>>

\* The caller changes the page through its pointer.
Write(u, v) ==
  /\ held[u] # Idle
  /\ pool' = [pool EXCEPT !.frames[held[u].frame].data = v]
  /\ held' = [held EXCEPT ![u].wrote = TRUE]
  /\ UNCHANGED <<files, open, readFaults, writeFaults>>

MarkDirty(u) ==
  /\ held[u] # Idle /\ held[u].wrote
  /\ pool' = IF map_find(pool.map, held[u].page) = NoBucket THEN pool
             ELSE [pool EXCEPT !.frames[FrameOf(held[u].page)].is_dirty = TRUE]
  /\ held' = [held EXCEPT ![u].wrote = FALSE]
  /\ UNCHANGED <<files, open, readFaults, writeFaults>>

Unpin(u) ==
  /\ held[u] # Idle /\ ~held[u].wrote
  /\ LET f == FrameOf(held[u].page)
     IN  pool' = IF \/ map_find(pool.map, held[u].page) = NoBucket
                    \/ pool.frames[f].pin_count = 0
                 THEN pool
                 ELSE [pool EXCEPT !.frames[f].pin_count = @ - 1]
  /\ held' = [held EXCEPT ![u] = Idle]
  /\ UNCHANGED <<files, open, readFaults, writeFaults>>

Dirty == {f \in Frames : pool.frames[f].is_valid /\ pool.frames[f].is_dirty}

\* What page_write of the frames in fs leaves, the ones in bad failing.
page_writes(fs, bad) ==
  /\ bad \subseteq fs
  /\ writeFaults + Cardinality(bad) <= MaxWriteFaults
  /\ writeFaults' = writeFaults + Cardinality(bad)
  /\ files' = [p \in Pages |->
       IF \E f \in fs \ bad : pool.frames[f].page = p
       THEN pool.frames[CHOOSE f \in fs \ bad : pool.frames[f].page = p].data
       ELSE files[p]]

Cleaned(fs) == [pool EXCEPT !.frames =
  [f \in Frames |-> IF f \in fs THEN [pool.frames[f] EXCEPT !.is_dirty = FALSE] ELSE pool.frames[f]]]

FlushPage(p) ==
  /\ open /\ map_find(pool.map, p) # NoBucket
  /\ FrameOf(p) \in Dirty
  /\ \E bad \in SUBSET {FrameOf(p)} :
       /\ page_writes({FrameOf(p)}, bad)
       /\ pool' = Cleaned({FrameOf(p)} \ bad)
  /\ UNCHANGED <<held, open, readFaults>>

FlushAll ==
  /\ open /\ Dirty # {}
  /\ \E bad \in SUBSET Dirty : page_writes(Dirty, bad) /\ pool' = Cleaned(Dirty \ bad)
  /\ UNCHANGED <<held, open, readFaults>>

\* buffer_pool_destroy: flush what is dirty, then free everything.
Destroy ==
  /\ open /\ \A u \in Users : held[u] = Idle
  /\ \E bad \in SUBSET Dirty : page_writes(Dirty, bad)
  /\ open' = FALSE
  /\ pool' = EmptyPool
  /\ UNCHANGED <<held, readFaults>>

Create ==
  /\ ~open
  /\ open' = TRUE
  /\ pool' = EmptyPool
  /\ UNCHANGED <<files, held, readFaults, writeFaults>>

PoolNext ==
  \/ \E u \in Users :
       \/ \E p \in Pages : FetchHit(u, p) \/ FetchMiss(u, p) \/ FetchReadFails(u, p)
       \/ \E v \in PageData : Write(u, v)
       \/ MarkDirty(u)
       \/ Unpin(u)
  \/ \E p \in Pages : FlushPage(p)
  \/ FlushAll
  \/ Destroy
  \/ Create

PoolSpec == PoolInit /\ [][PoolNext]_poolVars
-----------------------------------------------------------------------------
(* Properties                                                              *)

Valid == {f \in Frames : pool.frames[f].is_valid}

(* The map and the frames agree after any series of insertions and removals  *)
(* with colliding pages: every cached page is found by its probe sequence, in *)
(* the frame that holds it, and nothing else is in the map (_map_find,        *)
(* _map_insert, _map_remove).                                                 *)
MapFindsEveryPage ==
  /\ \A f \in Valid : /\ map_find(pool.map, pool.frames[f].page) # NoBucket
                      /\ FrameOf(pool.frames[f].page) = f
  /\ {pool.map[b].frame : b \in {c \in Buckets : pool.map[c] # Free}} = Valid
  /\ Cardinality({c \in Buckets : pool.map[c] # Free}) = Cardinality(Valid)

(* The LRU list threads exactly the valid frames, both ways: the walk from the *)
(* tail meets each of them once and ends at the head (_lru_remove,             *)
(* _lru_push_front), so that _find_victim cannot miss an evictable frame.      *)
ListThreadsValidFrames ==
  LET at == FromTail(pool)
      walk == {i \in 0 .. NumFrames : at[i] # FRAME_NONE}
  IN  /\ {at[i] : i \in walk} = Valid
      /\ Cardinality(walk) = Cardinality(Valid)
      /\ pool.head = IF walk = {} THEN FRAME_NONE ELSE at[Cardinality(walk) - 1]
      /\ \A f \in Valid : pool.frames[f].prev # FRAME_NONE
                             => pool.frames[pool.frames[f].prev].next = f

(* A caller's pointer stays a pointer to its page: a frame that is held is    *)
(* never evicted or given to another page, and the pin counts are exactly the *)
(* number of holders, so that a frame nobody holds can be evicted.            *)
PinsProtectTheirFrames ==
  /\ \A u \in Users : held[u] # Idle =>
       /\ held[u].frame \in Valid
       /\ pool.frames[held[u].frame].page = held[u].page
  /\ \A f \in Valid :
       pool.frames[f].pin_count = Cardinality({u \in Users : held[u] # Idle /\ held[u].frame = f})

\* The contents of a page are those of its frame if it has one.
Contents == [p \in Pages |->
  IF \E f \in Valid : pool.frames[f].page = p
  THEN pool.frames[CHOOSE f \in Valid : pool.frames[f].page = p].data
  ELSE files[p]]
Holds == [u \in Users |-> IF held[u] = Idle THEN NoPage ELSE held[u].page]

Store == INSTANCE PageStore WITH store <- Contents, holds <- Holds, Values <- PageData

(* Until a page_write fails, the pool implements the page store: fetches      *)
(* return what was last written to a page, across evictions, failing reads,   *)
(* flushes and a restart of the pool.                                         *)
ImplementsPageStore ==
  Store!Init /\ [][writeFaults' = 0 => Store!Next \/ UNCHANGED Store!vars]_poolVars

(* The three views the pool has of a cached page, its frame, its map entry  *)
(* and its place in the LRU list, agree after every operation, with reads   *)
(* and writes that fail in the middle of it.                                *)
MapAndListAgree == PoolTypeOK /\ MapFindsEveryPage /\ ListThreadsValidFrames
=============================================================================
