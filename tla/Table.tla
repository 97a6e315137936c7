------------------------------- MODULE Table -------------------------------
(***************************************************************************)
(* One table of server/storage/table.c over its pages (page.c), the buffer *)
(* pool, the B+ tree index and the write-ahead log, through failing calls, *)
(* stops, crashes and starts of the server.  storage_mutex makes every     *)
(* operation one step.                                                     *)
(*                                                                         *)
(* The buffer pool is what PageStore says of it: a current copy of every   *)
(* page and a copy on disk that catches up at any moment.  A write that    *)
(* fails leaves the copy on disk as it was, and when the page was evicted  *)
(* that copy becomes the current one.  The index is what OrderedMap says   *)
(* of it, in memory, and a file written when the table is closed.  Of the  *)
(* log a table needs to know what was logged.                              *)
(***************************************************************************)
EXTENDS Integers, Sequences, FiniteSets, SequencesExt

CONSTANTS
  Values,        \* the contents of a record apart from its key
  MaxRecords,    \* page_get_max_records: how many records a page has room for
  MaxId,         \* bound on the ids handed out
  Torn,          \* an index file that was not written to its end
  MaxFaults      \* bound on failures

ASSUME RecordsAssumption == MaxRecords \in Nat \ {0}
ASSUME BoundsAssumption == MaxId \in Nat /\ MaxFaults \in Nat

VARIABLES
  pages,        \* the pages as the buffer pool has them: sequences of records
  disk,         \* the pages as the data file has them
  index,        \* pk_index: <<id, page, slot>> triples, slots counted from 1
  index_file,   \* what the last btree_save wrote
  log,          \* the <<id, image>> pairs logged before a change
  next_id,      \* g_next_ids of this table
  up,           \* the table is open
  faults        \* the kinds of failure there have been

vars == <<pages, disk, index, index_file, log, next_id, up, faults>>

\* What can fail: the fetch of the last page, page_alloc, the log, the fetch of
\* the page to change, btree_insert, page_write, btree_save; and the process
\* can die.
FaultKinds == {"probe", "alloc", "wal", "fetch", "index", "write", "save", "crash"}

Record(id, v) == [id |-> id, val |-> v, is_deleted |-> FALSE]
-----------------------------------------------------------------------------
(* Pages and the index                                                     *)

page_get_count(file) == Len(file)

\* A page that takes one record more than it has room for.
mutPageIsFull(page) == Len(page) > MaxRecords

page_is_full(page) == Len(page) >= MaxRecords

\* page_get_record: NULL, here no record at all, for a slot that is not in use.
page_get_record(file, p, slot) ==
  IF p <= page_get_count(file) /\ slot <= Len(file[p]) THEN {file[p][slot]} ELSE {}

\* btree_search of the primary-key index.
btree_search(id) == {e \in index : e[1] = id}

\* The index entries of id whose page can be fetched.
Reached(id, skipped) == {e \in btree_search(id) : e[2] \notin skipped}

\* table_find_by_id: the value of the live record the index points to, nothing
\* when its page is one of the skipped that cannot be fetched.
table_find_by_id(id, skipped) ==
  {r.val : r \in {s \in UNION {page_get_record(pages, e[2], e[3]) : e \in Reached(id, skipped)} :
                    ~s.is_deleted}}

Records(file) == UNION {ToSet(file[p]) : p \in DOMAIN file}

\* table_scan without a filter: every live record of every page, passing over
\* the pages it cannot fetch.
table_scan(skipped) ==
  {r \in UNION {ToSet(pages[p]) : p \in DOMAIN pages \ skipped} : ~r.is_deleted}

\* The slots in use, page by page, as <<page, slot>> pairs.
Slots(file) == {x \in (1 .. Len(file)) \X (1 .. MaxRecords) : x[2] <= Len(file[x[1]])}

\* table_count walks the pages a second way and counts the live slots.
table_count(skipped) ==
  Cardinality({x \in Slots(pages) : x[1] \notin skipped /\ ~pages[x[1]][x[2]].is_deleted})
-----------------------------------------------------------------------------
Init ==   \* table_create
  /\ pages = <<>> /\ disk = <<>>
  /\ index = {} /\ index_file = {}
  /\ log = {}
  /\ next_id = 1
  /\ up = TRUE
  /\ faults = {}

\* The call meets these failures, none when all goes well; each kind at most
\* once.
Outcome(kinds) ==
  /\ kinds \subseteq FaultKinds \ faults /\ Cardinality(faults \cup kinds) <= MaxFaults
  /\ faults' = faults \cup kinds

\* The last page has no room, or there is none, or it could not be fetched: a
\* page with an empty header is appended to the file.
NeedsPage(fail) == pages # <<>> => page_is_full(Last(pages)) \/ fail = "probe"

page_alloc(file, fail) == IF NeedsPage(fail) THEN Append(file, <<>>) ELSE file

page_insert_record(file, r) == [file EXCEPT ![Len(file)] = Append(@, r)]

\* An insertion that changes the page before it writes the log.
mutTableInsert(v, fail) ==
  LET r == Record(next_id, v)
      grown == page_alloc(pages, fail)
      filled == page_insert_record(grown, r)
      at == <<next_id, Len(filled), Len(Last(filled))>>
  IN  /\ up /\ next_id <= MaxId
      /\ fail \in {"ok", "probe", "alloc", "wal", "fetch", "index"}
      /\ fail = "probe" => pages # <<>>
      /\ fail = "alloc" => NeedsPage(fail)
      /\ Outcome({fail} \ {"ok"})
      /\ next_id' = next_id + 1
      /\ disk' = IF fail = "alloc" THEN disk ELSE page_alloc(disk, fail)
      /\ log' = IF fail \in {"alloc", "wal"} THEN log ELSE log \cup {<<next_id, r>>}
      /\ pages' = CASE fail = "alloc" -> pages [] fail = "fetch" -> grown [] OTHER -> filled
      /\ index' = IF fail \in {"ok", "probe"} /\ btree_search(next_id) = {}
                  THEN index \cup {at} ELSE index
      /\ UNCHANGED <<index_file, up>>

\* table_insert: an id, a page, the log record, the record in the page, the
\* entry in the index, which refuses a key it has.  A failure leaves what was
\* done before it.  (The code tries a second page when the first has filled up
\* since it was looked at; under storage_mutex it never has.)
table_insert(v, fail) ==
  LET r == Record(next_id, v)
      grown == page_alloc(pages, fail)
      filled == page_insert_record(grown, r)
      at == <<next_id, Len(filled), Len(Last(filled))>>
  IN  /\ up /\ next_id <= MaxId
      /\ fail \in {"ok", "probe", "alloc", "wal", "fetch", "index"}
      /\ fail = "probe" => pages # <<>>
      /\ fail = "alloc" => NeedsPage(fail)
      /\ Outcome({fail} \ {"ok"})
      /\ next_id' = next_id + 1
      /\ disk' = IF fail = "alloc" THEN disk ELSE page_alloc(disk, fail)
      /\ log' = IF fail \in {"alloc", "wal"} THEN log ELSE log \cup {<<next_id, r>>}
      /\ pages' = CASE fail = "alloc" -> pages
                    [] fail \in {"wal", "fetch"} -> grown
                    [] OTHER -> filled
      /\ index' = IF fail \in {"ok", "probe"} /\ btree_search(next_id) = {}
                  THEN index \cup {at} ELSE index
      /\ UNCHANGED <<index_file, up>>

\* The live record a change of id works on, found like table_find_by_id does.
Found(id, e) ==
  /\ e \in btree_search(id)
  /\ \E r \in page_get_record(pages, e[2], e[3]) : ~r.is_deleted

\* table_update: log both images, then overwrite the record.
table_update(id, v, fail) ==
  \E e \in index :
    /\ up /\ Found(id, e)
    /\ fail \in {"ok", "fetch", "wal"}
    /\ Outcome({fail} \ {"ok"})
    /\ IF fail = "ok"
       THEN /\ log' = log \cup {<<id, Record(id, v)>>}
            /\ pages' = [pages EXCEPT ![e[2]][e[3]] = Record(id, v)]
       ELSE UNCHANGED <<log, pages>>
    /\ UNCHANGED <<disk, index, index_file, next_id, up>>

\* A deletion that only takes the entry out of the index.
mutDeletedPages(e) == pages

\* mark_record_deleted in the page the index entry points to.
DeletedPages(e) == [pages EXCEPT ![e[2]][e[3]].is_deleted = TRUE]

\* table_delete: log, set the flag in the page, remove the index entry.
table_delete(id, fail) ==
  \E e \in index :
    /\ up /\ Found(id, e)
    /\ fail \in {"ok", "fetch", "wal"}
    /\ Outcome({fail} \ {"ok"})
    /\ IF fail = "ok"
       THEN /\ log' = log \cup {<<id, DeletedPages(e)[e[2]][e[3]]>>}
            /\ pages' = DeletedPages(e)
            /\ index' = index \ {e}
       ELSE UNCHANGED <<log, pages, index>>
    /\ UNCHANGED <<disk, index_file, next_id, up>>

\* The buffer pool writes a page back, to make room or because it is flushed.
WriteBack(p) ==
  /\ up /\ disk[p] # pages[p]
  /\ disk' = [disk EXCEPT ![p] = pages[p]]
  /\ UNCHANGED <<pages, index, index_file, log, next_id, up, faults>>

\* The write of a page to be evicted fails: buffer_pool.c goes on and reuses the
\* frame, and the next fetch finds the page as the disk has it.
LosePage(p) ==
  /\ up /\ disk[p] # pages[p]
  /\ Outcome({"write"})
  /\ pages' = [pages EXCEPT ![p] = disk[p]]
  /\ UNCHANGED <<disk, index, index_file, log, next_id, up>>

DirtyPages == {p \in DOMAIN pages : disk[p] # pages[p]}

\* buffer_pool_flush_all: a page whose write fails does not stop the others.
FlushedBut(bad) == [p \in DOMAIN pages |-> IF p \in bad THEN disk[p] ELSE pages[p]]

\* The failure a flush meets when it cannot write these pages.
WriteFails(bad) == IF bad = {} THEN {} ELSE {"write"}

\* table_flush: a page that was not written stays dirty in the pool.
table_flush(bad) ==
  /\ up /\ DirtyPages # {}
  /\ Outcome(WriteFails(bad))
  /\ disk' = FlushedBut(bad)
  /\ UNCHANGED <<pages, index, index_file, log, next_id, up>>

\* A close that saves the index before it flushes the pages.
mutCloseOrder == <<"index", "pages">>

CloseOrder == <<"pages", "index">>

\* table_close flushes the pages and saves the index, in this order, whatever
\* comes of either: a page that was not written is lost with the pool.  The
\* process can die between the two, or while the index file is rewritten.
table_close(done, bad, saved) ==
  LET Did(part) == \E i \in 1 .. done : CloseOrder[i] = part
      Dies == done < Len(CloseOrder)
  IN  /\ up
      /\ Did("pages") \/ bad = {}
      /\ Did("index") \/ saved
      /\ Outcome(WriteFails(bad) \cup (IF saved THEN {} ELSE {"save"})
                                 \cup (IF Dies THEN {"crash"} ELSE {}))
      /\ disk' = IF Did("pages") THEN FlushedBut(bad) ELSE disk
      /\ IF ~saved \/ (Dies /\ CloseOrder[done + 1] = "index")
         THEN index_file' \in {index_file, Torn}
         ELSE index_file' = IF Did("index") THEN index ELSE index_file
      /\ up' = FALSE
      /\ pages' = <<>> /\ index' = {}
      /\ UNCHANGED <<log, next_id>>

\* The process dies: the pages in memory and the index are gone.
Crash ==
  /\ up /\ Outcome({"crash"})
  /\ up' = FALSE
  /\ pages' = <<>> /\ index' = {}
  /\ UNCHANGED <<disk, index_file, log, next_id>>

\* An opening that counts the live records only.
mutMaxIdOf(file) ==
  LET ids == {r.id : r \in {s \in Records(file) : ~s.is_deleted}}
  IN  CHOOSE m \in ids \cup {0} : \A i \in ids : i <= m

MaxIdOf(file) ==
  LET ids == {r.id : r \in Records(file)}
  IN  CHOOSE m \in ids \cup {0} : \A i \in ids : i <= m

\* table_open: the index as it was saved, the next id from the pages.  A torn
\* index file is refused and the server does not start.
table_open ==
  /\ ~up /\ index_file # Torn
  /\ pages' = disk
  /\ index' = index_file
  /\ next_id' = MaxIdOf(disk) + 1
  /\ up' = TRUE
  /\ UNCHANGED <<disk, index_file, log, faults>>

Outcomes == FaultKinds \cup {"ok"}

Next ==
  \/ \E v \in Values, fail \in Outcomes : table_insert(v, fail)
  \/ \E id \in 1 .. MaxId, v \in Values, fail \in Outcomes : table_update(id, v, fail)
  \/ \E id \in 1 .. MaxId, fail \in Outcomes : table_delete(id, fail)
  \/ \E p \in DOMAIN pages : WriteBack(p)
  \/ \E p \in DOMAIN pages : LosePage(p)
  \/ \E bad \in SUBSET DirtyPages : table_flush(bad)
  \/ \E done \in 0 .. Len(CloseOrder), bad \in SUBSET DirtyPages, saved \in BOOLEAN :
       table_close(done, bad, saved)
  \/ Crash
  \/ table_open

Spec == Init /\ [][Next]_vars
-----------------------------------------------------------------------------
(* Properties                                                              *)

Row == [id : 1 .. MaxId, val : Values, is_deleted : BOOLEAN]

\* The pages hold records, no page more than it has room for; the index holds
\* places; the file on disk has as many pages as the pool believes.
TypeOK ==
  /\ Records(pages) \cup Records(disk) \subseteq Row
  /\ \A p \in DOMAIN pages : Len(pages[p]) <= MaxRecords
  /\ up => Len(disk) = Len(pages)
  /\ \A e \in index : e[1] \in 1 .. MaxId /\ e[2] \in DOMAIN pages /\ e[3] \in 1 .. MaxRecords
  /\ next_id \in 1 .. MaxId + 1
  /\ faults \subseteq FaultKinds /\ Cardinality(faults) <= MaxFaults

Live(file) == {<<r.id, r.val>> : r \in {s \in Records(file) : ~s.is_deleted}}

RTable == INSTANCE RecordTable WITH
  rows <- Live(IF up THEN pages ELSE disk),
  used <- {r.id : r \in Records(IF up THEN pages ELSE disk)}

\* Through failing calls, write-backs, stops and starts a table keeps its rows
\* and hands out each key once, until a page cannot be written or the process
\* dies (the log is never replayed, so what was not written is then lost).
ImplementsRecordTable ==
  RTable!Init /\ [][faults' \subseteq FaultKinds \ {"write", "crash"}
                     => RTable!Next \/ UNCHANGED RTable!vars]_vars

\* The two ways to a row agree, also when some of the pages cannot be fetched:
\* table_find_by_id through the index finds exactly the rows table_scan meets in
\* the other pages, and table_count counts them, until an index entry was not
\* made, a page not written, or the index on disk is older than the pages.
FindAgreesWithScan ==
  up /\ faults \cap {"index", "write", "save", "crash"} = {} =>
    \A skipped \in SUBSET DOMAIN pages :
      /\ \A id \in 1 .. MaxId :
           table_find_by_id(id, skipped) = {r.val : r \in {s \in table_scan(skipped) : s.id = id}}
      /\ table_count(skipped) = Cardinality(table_scan(skipped))

\* An entry of the index, also of one that is older than the pages after a
\* crash, points at the record with its key: find and update never touch
\* another row.
IndexPointsAtItsRow ==
  up => \A e \in index : \E r \in page_get_record(pages, e[2], e[3]) : r.id = e[1]

\* Write-ahead: no record reaches the data file, or even a page, whose image
\* was not in the log before, whichever call failed or was cut short.
LoggedBeforeApplied ==
  \A r \in Records(pages) \cup Records(disk) : \E x \in log : x[2] = r

\* The image in the log is under the key the record has.
LoggedUnderItsKey ==
  \A r \in Records(pages) \cup Records(disk) : <<r.id, r>> \in log

\* A key is in the pages once, also after a crash that took its row back.
KeysAreUnique ==
  up => Cardinality({r.id : r \in Records(pages)}) = Cardinality(Slots(pages))

\* What a crash of table.c between two of its writes never breaks: nothing is
\* stored that was not logged; and until a page could not be written, a key
\* names one row, the index leads to it, and the log has it under that key.  (A
\* record lost at an eviction leaves its index entry and its log record; the
\* next insertion takes its slot.)
CrashesKeepKeysAndLog ==
  /\ TypeOK /\ LoggedBeforeApplied
  /\ "write" \notin faults => IndexPointsAtItsRow /\ LoggedUnderItsKey /\ KeysAreUnique
=============================================================================
