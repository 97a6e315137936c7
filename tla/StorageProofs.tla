--------------------------- MODULE StorageProofs ---------------------------
(***************************************************************************)
(* Theorems about the storage layer.                                       *)
(*                                                                         *)
(* Table: shape and log through failing calls, lost pages and crashes;     *)
(* keys and index as long as every page could be written; the two ways to  *)
(* a row; and that a table implements RecordTable until a page cannot be   *)
(* written or the process dies.                                            *)
(*                                                                         *)
(* BufferPool: the map and the list agree with the frames, pins protect    *)
(* what they pin, and the pool implements PageStore.                       *)
(*                                                                         *)
(* Wal: the replay is the complete records, LSNs grow, and what            *)
(* flushed_lsn covers is on stable storage.                                *)
(***************************************************************************)
EXTENDS Table, BufferPool, Wal, FiniteSetTheorems, FunctionTheorems, SequenceTheorems, TLAPS

\* A file of pages with room for MaxRecords records each.
IsFile(file) ==
  /\ file \in Seq(Seq(Row))
  /\ \A p \in 1 .. Len(file) : Len(file[p]) <= MaxRecords

\* A slot in use names one key.
KeysAreApart(file) ==
  \A p, q \in 1 .. Len(file) : \A s \in 1 .. Len(file[p]), t \in 1 .. Len(file[q]) :
    file[p][s].id = file[q][t].id => p = q /\ s = t

\* A record never leaves its slot: what the old file has the new one has at the
\* same place under the same key.
Grows(old, new) ==
  /\ Len(old) <= Len(new)
  /\ \A p \in 1 .. Len(old) :
       /\ Len(old[p]) <= Len(new[p])
       /\ \A s \in 1 .. Len(old[p]) : old[p][s].id = new[p][s].id

\* The entries of an index are places of a file in use, under their keys.
PointsInto(idx, file) ==
  \A e \in idx : /\ e \in (1 .. MaxId) \X Nat \X Nat
                 /\ e[2] \in 1 .. Len(file)
                 /\ e[3] \in 1 .. Len(file[e[2]])
                 /\ file[e[2]][e[3]].id = e[1]

\* Every live record has its entry.
Indexed(file, idx) ==
  \A p \in 1 .. Len(file) : \A s \in 1 .. Len(file[p]) :
    ~file[p][s].is_deleted => <<file[p][s].id, p, s>> \in idx

\* The pages in memory and on disk.
FilesAreFiles ==
  /\ IsFile(pages) /\ IsFile(disk)
  /\ up \in BOOLEAN
  /\ next_id \in 1 .. MaxId + 1
  /\ IsFiniteSet(faults) /\ faults \subseteq FaultKinds /\ Cardinality(faults) <= MaxFaults

\* The file on disk lags behind the pages but has no other keys.
DiskLagsBehind ==
  /\ up => Len(disk) = Len(pages) /\ Grows(disk, pages)
  /\ ~up => pages = <<>> /\ index = {}

\* Keys are given out once and in order.
KeysAreGivenOnce ==
  /\ KeysAreApart(pages) /\ KeysAreApart(disk)
  /\ up => \A p \in 1 .. Len(pages) : \A s \in 1 .. Len(pages[p]) : pages[p][s].id < next_id

\* The index in memory leads into the pages, the saved one into the file.
IndexesPoint ==
  /\ PointsInto(index, pages)
  /\ index_file # Torn => PointsInto(index_file, disk)

\* Nothing is stored that was not logged.
StoredIsLogged ==
  /\ \A p \in 1 .. Len(pages) : \A s \in 1 .. Len(pages[p]) : <<pages[p][s].id, pages[p][s]>> \in log
  /\ \A p \in 1 .. Len(disk) : \A s \in 1 .. Len(disk[p]) : <<disk[p][s].id, disk[p][s]>> \in log

\* Until an index entry is not made, the index not saved or the process dies,
\* the index is complete; while the table is closed that is the saved one.
IndexIsComplete ==
  faults \cap {"index", "save", "crash"} = {} =>
    IF up THEN Indexed(pages, index) ELSE Indexed(disk, index_file)

\* What holds until a page could not be written.
TableIsSound ==
  /\ FilesAreFiles
  /\ DiskLagsBehind
  /\ KeysAreGivenOnce
  /\ IndexesPoint
  /\ StoredIsLogged
  /\ IndexIsComplete

\* The entries of an index are places of a file, in use or not.
PlacesAreIn(idx, file) ==
  \A e \in idx : /\ e \in (1 .. MaxId) \X Nat \X Nat
                 /\ e[2] \in 1 .. Len(file)
                 /\ e[3] \in 1 .. MaxRecords

\* Every record of a file has its image in the log, under whatever key.
ImagesAreLogged(file) ==
  \A p \in 1 .. Len(file) : \A s \in 1 .. Len(file[p]) : \E x \in log : x[2] = file[p][s]

\* What holds whatever has failed.
TableHasShape ==
  /\ FilesAreFiles
  /\ up => Len(disk) = Len(pages)
  /\ ~up => pages = <<>> /\ index = {}
  /\ PlacesAreIn(index, pages)
  /\ index_file # Torn => PlacesAreIn(index_file, disk)
  /\ ImagesAreLogged(pages) /\ ImagesAreLogged(disk)

TableInv == TableHasShape /\ ("write" \notin faults => TableIsSound)
-----------------------------------------------------------------------------
(* Files as the table changes them                                         *)

(* A finite set of keys of a file has a greatest one, by the well-founded  *)
(* order of inclusion on the keys above each.                              *)
LEMMA FiniteHasGreatest ==
  ASSUME NEW S, S \subseteq Int, IsFiniteSet(S), S # {}
  PROVE  \E m \in S : \A i \in S : i <= m
<1> DEFINE Above(m) == {i \in S : i > m}
           T == {Above(m) : m \in S}
<1>1. T \subseteq FiniteSubsetsOf(S) /\ T # {}
  <2>1. \A m \in S : IsFiniteSet(Above(m)) /\ Above(m) \in SUBSET S
    BY FS_Subset
  <2> QED
    BY <2>1 DEF FiniteSubsetsOf
<1>2. IsWellFoundedOn(StrictSubsetOrdering(S), FiniteSubsetsOf(S))
  BY FS_StrictSubsetOrderingWellFounded
<1>3. \E x \in T : \A y \in T : ~(<<y, x>> \in StrictSubsetOrdering(S))
  <2> HIDE DEF T
  <2> QED
    BY <1>1, <1>2, WFMin
<1>4. PICK m \in S : \A y \in T : ~(<<y, Above(m)>> \in StrictSubsetOrdering(S))
  BY <1>3
<1>5. ASSUME NEW i \in Above(m)
      PROVE  FALSE
  <2>1. i \in S /\ i > m /\ i \in Int /\ m \in Int
    BY <1>5
  <2>2. \A j \in S : j > i => j > m
    BY <2>1
  <2>a. ~(i > i)
    BY <2>1
  <2>b. Above(i) \subseteq Above(m) /\ i \notin Above(i) /\ i \in Above(m)
    BY <2>1, <2>2, <2>a, Zenon
  <2>3. <<Above(i), Above(m)>> \in StrictSubsetOrdering(S)
    BY <2>b DEF StrictSubsetOrdering
  <2> QED
    BY <2>1, <2>3, <1>4
<1> QED
  BY <1>5

(* What a file holds: the records in its slots in use.                     *)
LEMMA RecordsOfFile ==
  ASSUME NEW file \in Seq(Seq(Row))
  PROVE  \A r : r \in Records(file)
                  <=> \E p \in 1 .. Len(file) : \E s \in 1 .. Len(file[p]) : r = file[p][s]
<1>1. DOMAIN file = 1 .. Len(file)
  OBVIOUS
<1>2. \A p \in 1 .. Len(file) : file[p] \in Seq(Row) /\ DOMAIN file[p] = 1 .. Len(file[p])
  OBVIOUS
<1> QED
  <2>1. \A r : r \in Records(file)
                 <=> \E p \in DOMAIN file : r \in {file[p][i] : i \in DOMAIN file[p]}
    BY Zenon DEF Records, ToSet
  <2> QED
    BY <1>1, <1>2, <2>1

\* The new file has the pages of the old one and perhaps empty ones behind them.
Same(old, new) ==
  /\ IsFile(new) /\ Len(old) <= Len(new)
  /\ \A p \in 1 .. Len(old) : new[p] = old[p]
  /\ \A p \in 1 .. Len(new) : p > Len(old) => new[p] = <<>>

\* The new file has the record r, and it alone, in a slot that was not in use.
Added(old, new, p0, s0, r) ==
  /\ IsFile(new) /\ Len(old) <= Len(new)
  /\ p0 \in 1 .. Len(new) /\ s0 \in 1 .. Len(new[p0]) /\ new[p0][s0] = r
  /\ \A p \in 1 .. Len(old) :
       /\ Len(old[p]) <= Len(new[p])
       /\ \A s \in 1 .. Len(old[p]) : new[p][s] = old[p][s] /\ ~(p = p0 /\ s = s0)
  /\ \A p \in 1 .. Len(new) : \A s \in 1 .. Len(new[p]) :
       (p = p0 /\ s = s0) \/ (p \in 1 .. Len(old) /\ s \in 1 .. Len(old[p]))

\* The new file has the record r in a slot that held a record of the same key.
Put(old, new, p0, s0, r) ==
  /\ IsFile(new) /\ Len(new) = Len(old)
  /\ p0 \in 1 .. Len(old) /\ s0 \in 1 .. Len(old[p0]) /\ old[p0][s0].id = r.id
  /\ \A p \in 1 .. Len(old) :
       /\ Len(new[p]) = Len(old[p])
       /\ \A s \in 1 .. Len(old[p]) :
            new[p][s] = IF p = p0 /\ s = s0 THEN r ELSE old[p][s]

\* The new file has the record r in a slot that held a record of some key.
Rewritten(old, new, p0, s0, r) ==
  /\ IsFile(new) /\ Len(new) = Len(old)
  /\ \A p \in 1 .. Len(old) :
       /\ Len(new[p]) = Len(old[p])
       /\ \A s \in 1 .. Len(old[p]) :
            new[p][s] = IF p = p0 /\ s = s0 THEN r ELSE old[p][s]

(* page_alloc puts an empty page behind the others.                        *)
LEMMA EmptyPageAdded ==
  ASSUME NEW file, IsFile(file)
  PROVE  /\ Same(file, Append(file, <<>>))
         /\ Len(Append(file, <<>>)) = Len(file) + 1
<1> DEFINE g == Append(file, <<>>)
<1>1. file \in Seq(Seq(Row)) /\ <<>> \in Seq(Row) /\ Len(file) \in Nat
  BY DEF IsFile
<1>2. /\ g \in Seq(Seq(Row)) /\ Len(g) = Len(file) + 1
      /\ \A p \in 1 .. Len(file) : g[p] = file[p]
      /\ g[Len(file) + 1] = <<>>
  BY <1>1
<1>3. Len(<<>>) = 0 /\ MaxRecords \in Nat
  BY RecordsAssumption
<1> HIDE DEF g
<1>4. \A p \in 1 .. Len(g) : p \in 1 .. Len(file) \/ p = Len(file) + 1
  BY <1>1, <1>2
<1>5. IsFile(g)
  <2>1. \A p \in 1 .. Len(file) : Len(file[p]) <= MaxRecords
    BY DEF IsFile
  <2>2. Len(<<>>) <= MaxRecords
    BY <1>3
  <2>3. \A p \in 1 .. Len(g) : Len(g[p]) <= MaxRecords
    BY <1>2, <1>4, <2>1, <2>2, Zenon
  <2> QED
    BY <1>2, <2>3 DEF IsFile
<1>6. Same(file, g)
  BY <1>1, <1>2, <1>4, <1>5 DEF Same
<1> QED
  BY <1>2, <1>6 DEF g

(* page_insert_record takes the next slot of the last page.                *)
LEMMA RecordAdded ==
  ASSUME NEW file, IsFile(file), Len(file) > 0, NEW r \in Row,
         Len(Last(file)) < MaxRecords
  PROVE  LET g == page_insert_record(file, r)
         IN  /\ Added(file, g, Len(g), Len(Last(g)), r)
             /\ Len(g) = Len(file)
<1> DEFINE L == Len(file)
           g == page_insert_record(file, r)
           n == Len(file[L]) + 1
<1>1. file \in Seq(Seq(Row)) /\ L \in Nat /\ L > 0 /\ L \in 1 .. L /\ file[L] \in Seq(Row)
  BY DEF IsFile
<1>2. n \in Nat /\ n <= MaxRecords /\ n > 0
  BY <1>1, RecordsAssumption DEF Last
<1>3. /\ Append(file[L], r) \in Seq(Row) /\ Len(Append(file[L], r)) = n
      /\ \A s \in 1 .. Len(file[L]) : Append(file[L], r)[s] = file[L][s]
      /\ Append(file[L], r)[n] = r
  BY <1>1
<1>4. /\ g \in Seq(Seq(Row)) /\ Len(g) = L
      /\ g[L] = Append(file[L], r)
      /\ \A p \in 1 .. L : p # L => g[p] = file[p]
  BY <1>1, <1>3 DEF page_insert_record
<1>5. Len(Last(g)) = n /\ Last(g) = g[L]
  BY <1>3, <1>4 DEF Last
<1> HIDE DEF g
<1>6. IsFile(g)
  BY <1>1, <1>2, <1>3, <1>4 DEF IsFile
<1>7. \A s \in 1 .. n : s = n \/ s \in 1 .. Len(file[L])
  BY <1>1, <1>2
<1>8. \A p \in 1 .. L : /\ Len(file[p]) <= Len(g[p])
                        /\ \A s \in 1 .. Len(file[p]) : g[p][s] = file[p][s] /\ ~(p = L /\ s = n)
  <2> TAKE p \in 1 .. L
  <2>1. file[p] \in Seq(Row) /\ Len(file[p]) \in Nat
    BY <1>1
  <2>2. CASE p = L
    BY <2>1, <2>2, <1>2, <1>3, <1>4
  <2>3. CASE p # L
    BY <2>1, <2>3, <1>4
  <2> QED
    BY <2>2, <2>3
<1>9. \A p \in 1 .. L : \A s \in 1 .. Len(g[p]) :
        (p = L /\ s = n) \/ (p \in 1 .. L /\ s \in 1 .. Len(file[p]))
  BY <1>3, <1>4, <1>7
<1>10. n \in 1 .. Len(g[L]) /\ g[L][n] = r
  BY <1>2, <1>3, <1>4
<1>11. Added(file, g, L, n, r)
  <2> HIDE DEF n
  <2> QED
    BY <1>1, <1>4, <1>6, <1>8, <1>9, <1>10 DEF Added
<1> QED
  BY <1>4, <1>5, <1>11 DEF g

(* Writing one slot leaves the others alone.                               *)
LEMMA RecordWritten ==
  ASSUME NEW file, IsFile(file), NEW p0 \in 1 .. Len(file), NEW s0 \in 1 .. Len(file[p0]),
         NEW r \in Row
  PROVE  Rewritten(file, [file EXCEPT ![p0][s0] = r], p0, s0, r)
<1> DEFINE page == [file[p0] EXCEPT ![s0] = r]
           g == [file EXCEPT ![p0] = page]
<1>1. file \in Seq(Seq(Row)) /\ file[p0] \in Seq(Row)
  BY DEF IsFile
<1>2. /\ page \in Seq(Row) /\ Len(page) = Len(file[p0])
      /\ \A s \in 1 .. Len(file[p0]) : page[s] = IF s = s0 THEN r ELSE file[p0][s]
  BY <1>1
<1> HIDE DEF page
<1>3. /\ g \in Seq(Seq(Row)) /\ Len(g) = Len(file)
      /\ \A p \in 1 .. Len(file) : g[p] = IF p = p0 THEN page ELSE file[p]
  BY <1>1, <1>2
<1>4. [file EXCEPT ![p0][s0] = r] = g
  BY DEF page
<1> HIDE DEF g
<1>5. IsFile(g)
  BY <1>2, <1>3 DEF IsFile
<1>6. Rewritten(file, g, p0, s0, r)
  BY <1>1, <1>2, <1>3, <1>5 DEF Rewritten
<1> QED
  BY <1>4, <1>6

(* Over a record of the same key it is a change of that record.            *)
LEMMA RecordPut ==
  ASSUME NEW file, IsFile(file), NEW p0 \in 1 .. Len(file), NEW s0 \in 1 .. Len(file[p0]),
         NEW r \in Row, file[p0][s0].id = r.id
  PROVE  Put(file, [file EXCEPT ![p0][s0] = r], p0, s0, r)
<1>1. ASSUME NEW g, Rewritten(file, g, p0, s0, r)
      PROVE  Put(file, g, p0, s0, r)
  BY <1>1 DEF Put, Rewritten
<1> QED
  BY <1>1, RecordWritten

(* Pages in range have a length.                                           *)
LEMMA PagesHaveLength ==
  ASSUME NEW file, IsFile(file)
  PROVE  /\ Len(file) \in Nat
         /\ \A p \in 1 .. Len(file) : Len(file[p]) \in Nat /\ Len(file[p]) <= MaxRecords
         /\ \A p \in 1 .. Len(file) : \A s \in 1 .. Len(file[p]) : file[p][s] \in Row
<1>1. file \in Seq(Seq(Row))
  BY DEF IsFile
<1>2. \A p \in 1 .. Len(file) : file[p] \in Seq(Row)
  BY <1>1
<1> QED
  BY <1>1, <1>2 DEF IsFile

(* One key, one slot.                                                      *)
LEMMA ApartMeansOnce ==
  ASSUME NEW file, KeysAreApart(file),
         NEW p \in 1 .. Len(file), NEW q \in 1 .. Len(file),
         NEW s \in 1 .. Len(file[p]), NEW t \in 1 .. Len(file[q]),
         file[p][s].id = file[q][t].id
  PROVE  p = q /\ s = t
<1> QED
  BY DEF KeysAreApart

(* Growing is reflexive and transitive.                                    *)
LEMMA GrowsOnAndOn ==
  ASSUME NEW f, IsFile(f)
  PROVE  /\ Grows(f, f)
         /\ \A g, h : IsFile(g) /\ IsFile(h) /\ Grows(f, g) /\ Grows(g, h) => Grows(f, h)
<1>1. Grows(f, f)
  BY PagesHaveLength DEF Grows
<1>2. ASSUME NEW g, NEW h, IsFile(g), IsFile(h), Grows(f, g), Grows(g, h)
      PROVE  Grows(f, h)
  <2>1. /\ Len(f) \in Nat /\ Len(g) \in Nat /\ Len(h) \in Nat
        /\ \A p \in 1 .. Len(f) : Len(f[p]) \in Nat
        /\ \A p \in 1 .. Len(g) : Len(g[p]) \in Nat
        /\ \A p \in 1 .. Len(h) : Len(h[p]) \in Nat
    BY <1>2, PagesHaveLength
  <2>2. Len(f) <= Len(h) /\ \A p \in 1 .. Len(f) : p \in 1 .. Len(g) /\ p \in 1 .. Len(h)
    BY <1>2, <2>1 DEF Grows
  <2>3. ASSUME NEW p \in 1 .. Len(f)
        PROVE  /\ Len(f[p]) <= Len(h[p])
               /\ \A s \in 1 .. Len(f[p]) : f[p][s].id = h[p][s].id
    <3>1. /\ Len(f[p]) <= Len(g[p]) /\ Len(g[p]) <= Len(h[p])
          /\ \A s \in 1 .. Len(f[p]) : f[p][s].id = g[p][s].id
          /\ \A s \in 1 .. Len(g[p]) : g[p][s].id = h[p][s].id
      BY <1>2, <2>2 DEF Grows
    <3> QED
      BY <3>1, <2>1, <2>2
  <2> QED
    BY <2>2, <2>3 DEF Grows
<1> QED
  BY <1>1, <1>2

(* An index that leads into a file leads into a file that has grown from   *)
(* it, and a file has no key twice when the one it grows to has none.      *)
LEMMA GrowsKeeps ==
  ASSUME NEW old, NEW new, IsFile(old), IsFile(new), Grows(old, new)
  PROVE  /\ \A idx : PointsInto(idx, old) => PointsInto(idx, new)
         /\ KeysAreApart(new) => KeysAreApart(old)
<1>1. /\ Len(old) \in Nat /\ Len(new) \in Nat
      /\ \A p \in 1 .. Len(old) : Len(old[p]) \in Nat
      /\ \A p \in 1 .. Len(new) : Len(new[p]) \in Nat
  BY PagesHaveLength
<1>2. \A p \in 1 .. Len(old) : /\ p \in 1 .. Len(new)
                               /\ \A s \in 1 .. Len(old[p]) : s \in 1 .. Len(new[p])
                               /\ \A s \in 1 .. Len(old[p]) : old[p][s].id = new[p][s].id
  BY <1>1 DEF Grows
<1>3. ASSUME NEW idx, PointsInto(idx, old)
      PROVE  PointsInto(idx, new)
  BY <1>2, <1>3 DEF PointsInto
<1>4. ASSUME KeysAreApart(new)
      PROVE  KeysAreApart(old)
  <2> SUFFICES ASSUME NEW p \in 1 .. Len(old), NEW q \in 1 .. Len(old),
                      NEW s \in 1 .. Len(old[p]), NEW t \in 1 .. Len(old[q]),
                      old[p][s].id = old[q][t].id
               PROVE  p = q /\ s = t
    BY DEF KeysAreApart
  <2>1. /\ p \in 1 .. Len(new) /\ s \in 1 .. Len(new[p]) /\ old[p][s].id = new[p][s].id
        /\ q \in 1 .. Len(new) /\ t \in 1 .. Len(new[q]) /\ old[q][t].id = new[q][t].id
    BY <1>2
  <2>2. new[p][s].id = new[q][t].id
    BY <2>1
  <2> QED
    BY <2>1, <2>2, <1>4, ApartMeansOnce
<1> QED
  BY <1>3, <1>4

(* Empty pages at the end change nothing.                                  *)
LEMMA SameKeeps ==
  ASSUME NEW old, NEW new, IsFile(old), Same(old, new)
  PROVE  /\ IsFile(new) /\ Grows(old, new)
         /\ Records(new) = Records(old)
         /\ KeysAreApart(old) => KeysAreApart(new)
         /\ \A p \in 1 .. Len(new) : \A s \in 1 .. Len(new[p]) :
              p \in 1 .. Len(old) /\ s \in 1 .. Len(old[p]) /\ new[p][s] = old[p][s]
         /\ \A idx : Indexed(old, idx) => Indexed(new, idx)
<1>1. /\ IsFile(new) /\ Len(old) \in Nat /\ Len(new) \in Nat /\ Len(old) <= Len(new)
      /\ \A p \in 1 .. Len(old) : Len(old[p]) \in Nat /\ new[p] = old[p] /\ p \in 1 .. Len(new)
      /\ \A p \in 1 .. Len(new) : p > Len(old) => new[p] = <<>>
  BY PagesHaveLength DEF Same
<1>2. Grows(old, new)
  BY <1>1 DEF Grows
<1>3. \A p \in 1 .. Len(new) : \A s \in 1 .. Len(new[p]) :
        p \in 1 .. Len(old) /\ s \in 1 .. Len(old[p]) /\ new[p][s] = old[p][s]
  <2> TAKE p \in 1 .. Len(new)
  <2>1. CASE p > Len(old)
    BY <2>1, <1>1
  <2>2. CASE ~(p > Len(old))
    <3>1. p \in 1 .. Len(old)
      BY <2>2, <1>1
    <3> QED
      BY <3>1, <1>1
  <2> QED
    BY <2>1, <2>2
<1>4. Records(new) = Records(old)
  <2>1. old \in Seq(Seq(Row)) /\ new \in Seq(Seq(Row))
    BY <1>1 DEF IsFile
  <2>a. \A x : x \in Records(old)
                 <=> \E p \in 1 .. Len(old) : \E s \in 1 .. Len(old[p]) : x = old[p][s]
    BY <2>1, RecordsOfFile
  <2>b. \A x : x \in Records(new)
                 <=> \E p \in 1 .. Len(new) : \E s \in 1 .. Len(new[p]) : x = new[p][s]
    BY <2>1, RecordsOfFile
  <2>2. \A r : r \in Records(old) => r \in Records(new)
    BY <2>a, <2>b, <1>1, ZenonT(40)
  <2>3. \A r : r \in Records(new) => r \in Records(old)
    BY <2>a, <2>b, <1>3, ZenonT(40)
  <2> QED
    BY <2>2, <2>3
<1>5. ASSUME KeysAreApart(old)
      PROVE  KeysAreApart(new)
  <2> SUFFICES ASSUME NEW p \in 1 .. Len(new), NEW q \in 1 .. Len(new),
                      NEW s \in 1 .. Len(new[p]), NEW t \in 1 .. Len(new[q]),
                      new[p][s].id = new[q][t].id
               PROVE  p = q /\ s = t
    BY DEF KeysAreApart
  <2>1. /\ p \in 1 .. Len(old) /\ s \in 1 .. Len(old[p]) /\ new[p][s] = old[p][s]
        /\ q \in 1 .. Len(old) /\ t \in 1 .. Len(old[q]) /\ new[q][t] = old[q][t]
    BY <1>3
  <2> QED
    BY <2>1, <1>5 DEF KeysAreApart
<1>6. \A idx : Indexed(old, idx) => Indexed(new, idx)
  BY <1>3 DEF Indexed
<1> QED
  BY <1>1, <1>2, <1>3, <1>4, <1>5, <1>6

(* A record under a new key, in a new slot.                                *)
LEMMA AddedKeeps ==
  ASSUME NEW old, NEW new, NEW p0, NEW s0, NEW r, IsFile(old), Added(old, new, p0, s0, r)
  PROVE  /\ IsFile(new) /\ Grows(old, new)
         /\ Records(new) = Records(old) \cup {r}
         /\ KeysAreApart(old)
              /\ (\A p \in 1 .. Len(old) : \A s \in 1 .. Len(old[p]) : old[p][s].id # r.id)
            => KeysAreApart(new)
         /\ \A p \in 1 .. Len(new) : \A s \in 1 .. Len(new[p]) :
              \/ p = p0 /\ s = s0 /\ new[p][s] = r
              \/ p \in 1 .. Len(old) /\ s \in 1 .. Len(old[p]) /\ new[p][s] = old[p][s]
         /\ \A idx : Indexed(old, idx) => Indexed(new, idx \cup {<<r.id, p0, s0>>})
<1>1. /\ IsFile(new) /\ Len(old) \in Nat /\ Len(new) \in Nat /\ Len(old) <= Len(new)
      /\ p0 \in 1 .. Len(new) /\ s0 \in 1 .. Len(new[p0]) /\ new[p0][s0] = r
      /\ \A p \in 1 .. Len(old) : Len(old[p]) \in Nat
      /\ \A p \in 1 .. Len(new) : Len(new[p]) \in Nat
      /\ \A p \in 1 .. Len(old) : Len(old[p]) <= Len(new[p])
      /\ \A p \in 1 .. Len(old) : \A s \in 1 .. Len(old[p]) : new[p][s] = old[p][s]
  BY PagesHaveLength DEF Added
<1>2. \A p \in 1 .. Len(old) :
        p \in 1 .. Len(new) /\ \A s \in 1 .. Len(old[p]) : s \in 1 .. Len(new[p])
  BY <1>1
<1>3. Grows(old, new)
  BY <1>1 DEF Grows
<1>4. \A p \in 1 .. Len(new) : \A s \in 1 .. Len(new[p]) :
        \/ p = p0 /\ s = s0 /\ new[p][s] = r
        \/ p \in 1 .. Len(old) /\ s \in 1 .. Len(old[p]) /\ new[p][s] = old[p][s]
  BY <1>1, Zenon DEF Added
<1>5. Records(new) = Records(old) \cup {r}
  <2>1. old \in Seq(Seq(Row)) /\ new \in Seq(Seq(Row))
    BY <1>1 DEF IsFile
  <2>a. \A x : x \in Records(old)
                 <=> \E p \in 1 .. Len(old) : \E s \in 1 .. Len(old[p]) : x = old[p][s]
    BY <2>1, RecordsOfFile
  <2>b. \A x : x \in Records(new)
                 <=> \E p \in 1 .. Len(new) : \E s \in 1 .. Len(new[p]) : x = new[p][s]
    BY <2>1, RecordsOfFile
  <2>2. \A x : x \in Records(old) => x \in Records(new)
    BY <2>a, <2>b, <1>1, <1>2, ZenonT(40)
  <2>3. r \in Records(new)
    BY <2>1, <1>1, RecordsOfFile
  <2>4. \A x : x \in Records(new) => x \in Records(old) \/ x = r
    BY <2>a, <2>b, <1>4, ZenonT(40)
  <2> QED
    BY <2>2, <2>3, <2>4
<1>6. ASSUME KeysAreApart(old),
             \A p \in 1 .. Len(old) : \A s \in 1 .. Len(old[p]) : old[p][s].id # r.id
      PROVE  KeysAreApart(new)
  <2> SUFFICES ASSUME NEW p \in 1 .. Len(new), NEW q \in 1 .. Len(new),
                      NEW s \in 1 .. Len(new[p]), NEW t \in 1 .. Len(new[q]),
                      new[p][s].id = new[q][t].id
               PROVE  p = q /\ s = t
    BY DEF KeysAreApart
  <2>1. \/ p = p0 /\ s = s0 /\ new[p][s] = r
        \/ p \in 1 .. Len(old) /\ s \in 1 .. Len(old[p]) /\ new[p][s] = old[p][s]
    BY <1>4
  <2>2. \/ q = p0 /\ t = s0 /\ new[q][t] = r
        \/ q \in 1 .. Len(old) /\ t \in 1 .. Len(old[q]) /\ new[q][t] = old[q][t]
    BY <1>4
  <2>3. ASSUME p \in 1 .. Len(old), s \in 1 .. Len(old[p]), new[p][s] = old[p][s],
               q \in 1 .. Len(old), t \in 1 .. Len(old[q]), new[q][t] = old[q][t]
        PROVE  p = q /\ s = t
    <3>1. old[p][s].id = old[q][t].id
      BY <2>3
    <3> QED
      BY <2>3, <3>1, <1>6, ApartMeansOnce
  <2> QED
    BY <2>1, <2>2, <2>3, <1>6
<1>7. ASSUME NEW idx, Indexed(old, idx)
      PROVE  Indexed(new, idx \cup {<<r.id, p0, s0>>})
  <2> SUFFICES ASSUME NEW p \in 1 .. Len(new), NEW s \in 1 .. Len(new[p]), ~new[p][s].is_deleted
               PROVE  <<new[p][s].id, p, s>> \in idx \cup {<<r.id, p0, s0>>}
    BY DEF Indexed
  <2>1. \/ p = p0 /\ s = s0 /\ new[p][s] = r
        \/ p \in 1 .. Len(old) /\ s \in 1 .. Len(old[p]) /\ new[p][s] = old[p][s]
    BY <1>4
  <2> QED
    BY <2>1, <1>7, Zenon DEF Indexed
<1> QED
  BY <1>1, <1>3, <1>4, <1>5, <1>6, <1>7

(* A record put in the place of one with its key.                          *)
LEMMA PutKeeps ==
  ASSUME NEW old, NEW new, NEW p0, NEW s0, NEW r, IsFile(old), Put(old, new, p0, s0, r)
  PROVE  /\ IsFile(new) /\ Len(new) = Len(old) /\ Grows(old, new) /\ Grows(new, old)
         /\ \A p \in 1 .. Len(new) : \A s \in 1 .. Len(new[p]) :
              /\ p \in 1 .. Len(old) /\ s \in 1 .. Len(old[p])
              /\ new[p][s].id = old[p][s].id
              /\ new[p][s] = IF p = p0 /\ s = s0 THEN r ELSE old[p][s]
<1>1. /\ IsFile(new) /\ Len(new) = Len(old) /\ Len(old) \in Nat
      /\ p0 \in 1 .. Len(old) /\ s0 \in 1 .. Len(old[p0]) /\ old[p0][s0].id = r.id
      /\ \A p \in 1 .. Len(old) : Len(old[p]) \in Nat /\ Len(new[p]) = Len(old[p])
      /\ \A p \in 1 .. Len(old) : \A s \in 1 .. Len(old[p]) :
           new[p][s] = IF p = p0 /\ s = s0 THEN r ELSE old[p][s]
  BY PagesHaveLength DEF Put
<1>2. \A p \in 1 .. Len(old) : \A s \in 1 .. Len(old[p]) : new[p][s].id = old[p][s].id
  BY <1>1
<1>3. Grows(old, new) /\ Grows(new, old)
  BY <1>1, <1>2 DEF Grows
<1> QED
  BY <1>1, <1>2, <1>3

(* The kinds of failure are finitely many.                                 *)
LEMMA KindsAreFinite == IsFiniteSet(FaultKinds)
<1> DEFINE A == {"probe", "alloc", "wal", "fetch"}
           B == {"index", "write", "save", "crash"}
<1>1. IsFiniteSet({"probe"}) /\ IsFiniteSet({"index"})
  BY FS_Singleton
<1>2. IsFiniteSet({"probe"} \cup {"alloc"}) /\ IsFiniteSet({"index"} \cup {"write"})
  BY <1>1, FS_AddElement
<1>3. /\ IsFiniteSet(({"probe"} \cup {"alloc"}) \cup {"wal"})
      /\ IsFiniteSet(({"index"} \cup {"write"}) \cup {"save"})
  BY <1>2, FS_AddElement
<1>4. /\ IsFiniteSet((({"probe"} \cup {"alloc"}) \cup {"wal"}) \cup {"fetch"})
      /\ IsFiniteSet((({"index"} \cup {"write"}) \cup {"save"}) \cup {"crash"})
  BY <1>3, FS_AddElement
<1>5. /\ A = (({"probe"} \cup {"alloc"}) \cup {"wal"}) \cup {"fetch"}
      /\ B = (({"index"} \cup {"write"}) \cup {"save"}) \cup {"crash"}
  OBVIOUS
<1>6. IsFiniteSet(A) /\ IsFiniteSet(B)
  BY <1>4, <1>5
<1>7. FaultKinds = A \cup B
  BY DEF FaultKinds
<1> HIDE DEF A, B
<1> QED
  BY <1>6, <1>7, FS_Union

(* A call that fails adds its kinds to the failures, and no more of them   *)
(* than MaxFaults are told apart.                                          *)
LEMMA OutcomeCounts ==
  ASSUME FilesAreFiles, NEW kinds, Outcome(kinds)
  PROVE  /\ IsFiniteSet(faults') /\ faults' \subseteq FaultKinds /\ Cardinality(faults') <= MaxFaults
         /\ faults' = faults \cup kinds
<1>1. /\ faults' = faults \cup kinds /\ kinds \subseteq FaultKinds
      /\ Cardinality(faults \cup kinds) <= MaxFaults
  BY DEF Outcome
<1>2. faults' \subseteq FaultKinds
  BY <1>1 DEF FilesAreFiles
<1>3. faults' \in SUBSET FaultKinds
  BY <1>2
<1> QED
  BY <1>1, <1>2, <1>3, KindsAreFinite, FS_Subset

(* Both copies of the file get the same new page, or neither.              *)
LEMMA PagesAllocated ==
  ASSUME TableHasShape, up, NEW fail
  PROVE  /\ Same(pages, page_alloc(pages, fail)) /\ Same(disk, page_alloc(disk, fail))
         /\ Len(page_alloc(disk, fail)) = Len(page_alloc(pages, fail))
         /\ Grows(disk, pages) => Grows(page_alloc(disk, fail), page_alloc(pages, fail))
         /\ Len(page_alloc(pages, fail)) > 0
         /\ Len(Last(page_alloc(pages, fail))) < MaxRecords
<1>1. IsFile(pages) /\ IsFile(disk) /\ Len(disk) = Len(pages)
  BY DEF TableHasShape, FilesAreFiles
<1>2. /\ Len(pages) \in Nat /\ \A p \in 1 .. Len(pages) : Len(pages[p]) \in Nat
      /\ MaxRecords \in Nat /\ MaxRecords > 0
  BY <1>1, PagesHaveLength, RecordsAssumption
<1>3. CASE NeedsPage(fail)
  <2> DEFINE g == Append(pages, <<>>)
             d == Append(disk, <<>>)
  <2>1. g = page_alloc(pages, fail) /\ d = page_alloc(disk, fail)
    BY <1>3 DEF page_alloc
  <2>2. Same(pages, g) /\ Len(g) = Len(pages) + 1 /\ Same(disk, d) /\ Len(d) = Len(disk) + 1
    BY <1>1, EmptyPageAdded
  <2>3. g[Len(g)] = <<>> /\ Len(<<>>) = 0
    BY <2>2, <1>2 DEF Same
  <2> HIDE DEF g, d
  <2>4. \A p \in 1 .. Len(d) : /\ p \in 1 .. Len(disk) => /\ d[p] = disk[p] /\ g[p] = pages[p]
                               /\ p \notin 1 .. Len(disk) => /\ d[p] = <<>> /\ g[p] = <<>>
    BY <2>2, <1>1, <1>2 DEF Same
  <2>5. ASSUME Grows(disk, pages)
        PROVE  Grows(d, g)
    <3>1. ASSUME NEW p \in 1 .. Len(d)
          PROVE  /\ Len(d[p]) <= Len(g[p])
                 /\ \A s \in 1 .. Len(d[p]) : d[p][s].id = g[p][s].id
      <4>1. CASE p \in 1 .. Len(disk)
        BY <4>1, <2>4, <2>5, <1>1 DEF Grows
      <4>2. CASE p \notin 1 .. Len(disk)
        BY <4>2, <2>4, <2>3
      <4> QED
        BY <4>1, <4>2
    <3> QED
      BY <3>1, <2>2, <1>1, <1>2 DEF Grows
  <2> QED
    BY <2>1, <2>2, <2>3, <2>5, <1>1, <1>2 DEF Last
<1>4. CASE ~NeedsPage(fail)
  <2>1. pages = page_alloc(pages, fail) /\ disk = page_alloc(disk, fail)
    BY <1>4 DEF page_alloc
  <2>2. pages # <<>> /\ Len(Last(pages)) < MaxRecords
    <3>1. pages # <<>> /\ ~page_is_full(Last(pages))
      BY <1>4 DEF NeedsPage
    <3>2. Len(pages) > 0 /\ Len(pages) \in 1 .. Len(pages)
      BY <3>1, <1>1, <1>2 DEF IsFile
    <3>3. Len(Last(pages)) \in Nat
      BY <3>2, <1>2 DEF Last
    <3> QED
      BY <3>1, <3>3, <1>2 DEF page_is_full
  <2>3. Len(pages) > 0
    BY <2>2, <1>1, <1>2 DEF IsFile
  <2>4. Same(pages, pages) /\ Same(disk, disk)
    BY <1>1, <1>2 DEF Same
  <2> QED
    BY <2>1, <2>2, <2>3, <2>4, <1>1
<1> QED
  BY <1>3, <1>4

(* An empty page and then a record in it.                                  *)
LEMMA SameThenAdded ==
  ASSUME NEW f, NEW g, NEW h, NEW p0, NEW s0, NEW r,
         IsFile(f), Same(f, g), Added(g, h, p0, s0, r)
  PROVE  Added(f, h, p0, s0, r)
<1>1. /\ IsFile(g) /\ IsFile(h) /\ Len(f) \in Nat /\ Len(g) \in Nat /\ Len(h) \in Nat
      /\ Len(f) <= Len(g) /\ Len(g) <= Len(h)
      /\ \A p \in 1 .. Len(f) : g[p] = f[p] /\ p \in 1 .. Len(g)
  BY PagesHaveLength DEF Same, Added
<1>2. \A p \in 1 .. Len(g) : \A s \in 1 .. Len(g[p]) : p \in 1 .. Len(f) /\ s \in 1 .. Len(f[p])
  BY SameKeeps
<1>3. \A p \in 1 .. Len(f) :
        /\ Len(f[p]) <= Len(h[p])
        /\ \A s \in 1 .. Len(f[p]) : h[p][s] = f[p][s] /\ ~(p = p0 /\ s = s0)
  BY <1>1 DEF Added
<1>4. \A p \in 1 .. Len(h) : \A s \in 1 .. Len(h[p]) :
       (p = p0 /\ s = s0) \/ (p \in 1 .. Len(f) /\ s \in 1 .. Len(f[p]))
  BY <1>2 DEF Added
<1> QED
  BY <1>1, <1>3, <1>4 DEF Added

(* A table that is sound has the shape.                                    *)
LEMMA SoundHasShape ==
  ASSUME TableIsSound
  PROVE  TableHasShape
<1>1. IsFile(pages) /\ IsFile(disk)
  BY DEF TableIsSound, FilesAreFiles
<1>2. ASSUME NEW idx, NEW file, IsFile(file), PointsInto(idx, file)
      PROVE  PlacesAreIn(idx, file)
  <2> SUFFICES ASSUME NEW e \in idx
               PROVE  /\ e \in (1 .. MaxId) \X Nat \X Nat
                      /\ e[2] \in 1 .. Len(file)
                      /\ e[3] \in 1 .. MaxRecords
    BY DEF PlacesAreIn
  <2>1. /\ e \in (1 .. MaxId) \X Nat \X Nat
        /\ e[2] \in 1 .. Len(file)
        /\ e[3] \in 1 .. Len(file[e[2]])
    BY <1>2 DEF PointsInto
  <2>2. Len(file[e[2]]) \in Nat /\ Len(file[e[2]]) <= MaxRecords /\ MaxRecords \in Nat
    BY <2>1, <1>2, PagesHaveLength, RecordsAssumption
  <2> QED
    BY <2>1, <2>2
<1>3. PlacesAreIn(index, pages) /\ (index_file # Torn => PlacesAreIn(index_file, disk))
  BY <1>1, <1>2 DEF TableIsSound, IndexesPoint
<1>4. ASSUME NEW file,
             \A p \in 1 .. Len(file) : \A s \in 1 .. Len(file[p]) : <<file[p][s].id, file[p][s]>> \in log
      PROVE  ImagesAreLogged(file)
  <2> SUFFICES ASSUME NEW p \in 1 .. Len(file), NEW s \in 1 .. Len(file[p])
               PROVE  \E x \in log : x[2] = file[p][s]
    BY DEF ImagesAreLogged
  <2>1. <<file[p][s].id, file[p][s]>> \in log
    BY <1>4
  <2>2. <<file[p][s].id, file[p][s]>>[2] = file[p][s]
    OBVIOUS
  <2> QED
    BY <2>1, <2>2
<1>5. ImagesAreLogged(pages) /\ ImagesAreLogged(disk)
  BY <1>4 DEF TableIsSound, StoredIsLogged
<1> QED
  BY <1>3, <1>5 DEF TableIsSound, TableHasShape, DiskLagsBehind
-----------------------------------------------------------------------------
(* The actions                                                             *)

(* What table_insert does to the pages: nothing but an empty page, or one  *)
(* record under the next key, which is in the log by then.                 *)
LEMMA InsertChangesPages ==
  ASSUME TableHasShape, NEW v \in Values, NEW fail \in Outcomes, table_insert(v, fail)
  PROVE  /\ up /\ up' /\ next_id' = next_id + 1 /\ next_id \in 1 .. MaxId
         /\ Record(next_id, v) \in Row
         /\ Same(disk, disk') /\ Len(disk') = Len(pages')
         /\ Grows(disk, pages) => Grows(disk', pages')
         /\ \/ Same(pages, pages') /\ index' = index /\ log \subseteq log'
            \/ \E p0, s0 : /\ Added(pages, pages', p0, s0, Record(next_id, v))
                           /\ index' = IF fail = "index" \/ btree_search(next_id) # {}
                                       THEN index ELSE index \cup {<<next_id, p0, s0>>}
                           /\ log' = log \cup {<<next_id, Record(next_id, v)>>}
<1> DEFINE r == Record(next_id, v)
           grown == page_alloc(pages, fail)
           filled == page_insert_record(grown, r)
           p0 == Len(filled)
           s0 == Len(Last(filled))
           at == <<next_id, p0, s0>>
<1>1. /\ up /\ up' = up /\ next_id' = next_id + 1 /\ next_id <= MaxId
      /\ fail \in {"ok", "probe", "alloc", "wal", "fetch", "index"}
      /\ disk' = IF fail = "alloc" THEN disk ELSE page_alloc(disk, fail)
      /\ log' = IF fail \in {"alloc", "wal"} THEN log ELSE log \cup {<<next_id, r>>}
      /\ pages' = CASE fail = "alloc" -> pages
                    [] fail \in {"wal", "fetch"} -> grown
                    [] OTHER -> filled
      /\ index' = IF fail \in {"ok", "probe"} /\ btree_search(next_id) = {}
                  THEN index \cup {at} ELSE index
  BY DEF table_insert
<1>2. next_id \in 1 .. MaxId
  <2>1. next_id \in 1 .. MaxId + 1
    BY DEF TableHasShape, FilesAreFiles
  <2> QED
    BY <2>1, <1>1, BoundsAssumption
<1>3. r \in Row
  BY <1>2 DEF Record, Row
<1>4. /\ Same(pages, grown) /\ Same(disk, page_alloc(disk, fail))
      /\ Len(page_alloc(disk, fail)) = Len(grown)
      /\ Grows(disk, pages) => Grows(page_alloc(disk, fail), grown)
      /\ Len(grown) > 0 /\ Len(Last(grown)) < MaxRecords
  BY <1>1, PagesAllocated
<1>5. IsFile(pages) /\ IsFile(disk) /\ Len(disk) = Len(pages)
  BY <1>1 DEF TableHasShape, FilesAreFiles
<1>6. IsFile(grown) /\ IsFile(page_alloc(disk, fail))
  BY <1>4 DEF Same
<1> HIDE DEF r, grown
<1>7. Added(grown, filled, p0, s0, r) /\ Len(filled) = Len(grown)
  BY <1>3, <1>4, <1>6, RecordAdded
<1> HIDE DEF filled
<1>8. Added(pages, filled, p0, s0, r)
  BY <1>4, <1>5, <1>7, SameThenAdded
<1>9. IsFile(filled) /\ Grows(grown, filled)
  BY <1>6, <1>7, AddedKeeps
<1>10. Grows(disk, pages) => Grows(page_alloc(disk, fail), filled)
  BY <1>4, <1>6, <1>9, GrowsOnAndOn
<1>11. Same(pages, pages) /\ Same(disk, disk)
  BY <1>5, PagesHaveLength DEF Same
<1> HIDE DEF p0, s0
<1>12. CASE fail = "alloc"
  <2>1. pages' = pages /\ disk' = disk /\ index' = index /\ log' = log
    BY <1>1, <1>12
  <2> QED
    BY <2>1, <1>1, <1>2, <1>3, <1>5, <1>11 DEF r
<1>13. CASE fail \in {"wal", "fetch"}
  <2>1. pages' = grown /\ disk' = page_alloc(disk, fail) /\ index' = index /\ log \subseteq log'
    BY <1>1, <1>13
  <2> QED
    BY <2>1, <1>1, <1>2, <1>3, <1>4 DEF r
<1>14. CASE fail \in {"ok", "probe", "index"}
  <2>1. /\ pages' = filled /\ disk' = page_alloc(disk, fail)
        /\ log' = log \cup {<<next_id, r>>}
        /\ index' = IF fail = "index" \/ btree_search(next_id) # {}
                    THEN index ELSE index \cup {at}
    BY <1>1, <1>14
  <2>2. /\ Added(pages, pages', p0, s0, r)
        /\ index' = IF fail = "index" \/ btree_search(next_id) # {}
                    THEN index ELSE index \cup {<<next_id, p0, s0>>}
    BY <2>1, <1>8
  <2>3. /\ Len(disk') = Len(pages') /\ Same(disk, disk')
        /\ Grows(disk, pages) => Grows(disk', pages')
    BY <2>1, <1>4, <1>7, <1>10
  <2> QED
    BY <2>1, <2>2, <2>3, <1>1, <1>2, <1>3 DEF r
<1> QED
  BY <1>1, <1>12, <1>13, <1>14

(* table_insert, whichever of its calls fails.                             *)
LEMMA InsertKeepsInv ==
  ASSUME TableIsSound, NEW v \in Values, NEW fail \in Outcomes, table_insert(v, fail)
  PROVE  TableIsSound'
<1> DEFINE r == Record(next_id, v)
<1>0. TableHasShape
  BY SoundHasShape
<1>1. /\ up /\ up' /\ next_id' = next_id + 1 /\ next_id \in 1 .. MaxId
      /\ r \in Row /\ r.id = next_id
      /\ Same(disk, disk') /\ Len(disk') = Len(pages') /\ Grows(disk', pages')
  <2>1. up /\ Grows(disk, pages)
    BY <1>0, InsertChangesPages DEF TableIsSound, DiskLagsBehind
  <2> QED
    BY <2>1, <1>0, InsertChangesPages DEF Record
<1>2. /\ IsFile(pages) /\ IsFile(disk) /\ up \in BOOLEAN
      /\ KeysAreApart(pages) /\ KeysAreApart(disk)
      /\ \A p \in 1 .. Len(pages) : \A s \in 1 .. Len(pages[p]) : pages[p][s].id < next_id
      /\ PointsInto(index, pages)
      /\ StoredIsLogged
  BY <1>1 DEF TableIsSound, FilesAreFiles, KeysAreGivenOnce, IndexesPoint
<1>3. /\ Outcome({fail} \ {"ok"}) /\ UNCHANGED <<index_file, up>>
  BY DEF table_insert
<1>4. /\ IsFiniteSet(faults') /\ faults' \subseteq FaultKinds /\ Cardinality(faults') <= MaxFaults
      /\ faults \subseteq faults'
      /\ fail # "ok" => fail \in faults'
  <2>1. /\ IsFiniteSet(faults') /\ faults' \subseteq FaultKinds /\ Cardinality(faults') <= MaxFaults
        /\ faults' = faults \cup ({fail} \ {"ok"})
    BY <1>3, OutcomeCounts DEF TableIsSound
  <2> QED
    BY <2>1
<1>5. /\ IsFile(disk') /\ Grows(disk, disk') /\ KeysAreApart(disk')
      /\ \A p \in 1 .. Len(disk') : \A s \in 1 .. Len(disk'[p]) :
           p \in 1 .. Len(disk) /\ s \in 1 .. Len(disk[p]) /\ disk'[p][s] = disk[p][s]
  BY <1>1, <1>2, SameKeeps
<1>6. index_file' # Torn => PointsInto(index_file', disk')
  <2>1. index_file # Torn => PointsInto(index_file, disk)
    BY DEF TableIsSound, IndexesPoint
  <2>2. index_file # Torn => PointsInto(index_file, disk')
    BY <2>1, <1>2, <1>5, GrowsKeeps
  <2>3. index_file' = index_file
    BY <1>3
  <2> QED
    BY <2>2, <2>3
<1>7. next_id' \in 1 .. MaxId + 1 /\ next_id \in Nat /\ \A k \in Int : k < next_id => k < next_id'
  BY <1>1, BoundsAssumption
<1>8. ASSUME Same(pages, pages'), index' = index, log \subseteq log'
      PROVE  /\ IsFile(pages') /\ KeysAreApart(pages') /\ PointsInto(index', pages')
             /\ \A p \in 1 .. Len(pages') : \A s \in 1 .. Len(pages'[p]) :
                  pages'[p][s].id < next_id' /\ <<pages'[p][s].id, pages'[p][s]>> \in log'
             /\ Indexed(pages, index) => Indexed(pages', index')
             /\ log \subseteq log'
  <2>1. /\ IsFile(pages') /\ Grows(pages, pages') /\ KeysAreApart(pages')
        /\ \A p \in 1 .. Len(pages') : \A s \in 1 .. Len(pages'[p]) :
             p \in 1 .. Len(pages) /\ s \in 1 .. Len(pages[p]) /\ pages'[p][s] = pages[p][s]
        /\ \A idx : Indexed(pages, idx) => Indexed(pages', idx)
    BY <1>2, <1>8, SameKeeps
  <2>2. PointsInto(index', pages')
    BY <2>1, <1>2, <1>8, GrowsKeeps
  <2>3. \A p \in 1 .. Len(pages) : \A s \in 1 .. Len(pages[p]) :
          pages[p][s].id \in Int /\ <<pages[p][s].id, pages[p][s]>> \in log'
    <3>1. \A p \in 1 .. Len(pages) : \A s \in 1 .. Len(pages[p]) : pages[p][s].id \in Int
      BY <1>2, PagesHaveLength DEF Row
    <3>2. \A p \in 1 .. Len(pages) : \A s \in 1 .. Len(pages[p]) :
            <<pages[p][s].id, pages[p][s]>> \in log
      BY <1>2 DEF StoredIsLogged
    <3> QED BY <1>8, <3>1, <3>2
  <2> QED
    BY <2>1, <2>2, <2>3, <1>2, <1>7, <1>8
<1>9. ASSUME NEW p0, NEW s0, Added(pages, pages', p0, s0, r),
             index' = IF fail = "index" \/ btree_search(next_id) # {}
                      THEN index ELSE index \cup {<<next_id, p0, s0>>},
             log' = log \cup {<<next_id, r>>}
      PROVE  /\ IsFile(pages') /\ KeysAreApart(pages') /\ PointsInto(index', pages')
             /\ \A p \in 1 .. Len(pages') : \A s \in 1 .. Len(pages'[p]) :
                  pages'[p][s].id < next_id' /\ <<pages'[p][s].id, pages'[p][s]>> \in log'
             /\ fail # "index" /\ Indexed(pages, index) => Indexed(pages', index')
             /\ log \subseteq log'
  <2>1. \A p \in 1 .. Len(pages) : \A s \in 1 .. Len(pages[p]) :
          pages[p][s].id \in Int /\ <<pages[p][s].id, pages[p][s]>> \in log'
    <3>1. \A p \in 1 .. Len(pages) : \A s \in 1 .. Len(pages[p]) : pages[p][s].id \in Int
      BY <1>2, PagesHaveLength DEF Row
    <3>2. \A p \in 1 .. Len(pages) : \A s \in 1 .. Len(pages[p]) :
            <<pages[p][s].id, pages[p][s]>> \in log
      BY <1>2 DEF StoredIsLogged
    <3> QED BY <1>9, <3>1, <3>2
  <2>2. \A p \in 1 .. Len(pages) : \A s \in 1 .. Len(pages[p]) : pages[p][s].id # r.id
    BY <2>1, <1>1, <1>2, <1>7
  <2>3. /\ IsFile(pages') /\ Grows(pages, pages') /\ KeysAreApart(pages')
        /\ \A p \in 1 .. Len(pages') : \A s \in 1 .. Len(pages'[p]) :
             \/ p = p0 /\ s = s0 /\ pages'[p][s] = r
             \/ p \in 1 .. Len(pages) /\ s \in 1 .. Len(pages[p]) /\ pages'[p][s] = pages[p][s]
        /\ \A idx : Indexed(pages, idx) => Indexed(pages', idx \cup {<<r.id, p0, s0>>})
    <3> HIDE DEF r
    <3> QED
      BY <2>2, <1>2, <1>9, AddedKeeps
  <2>4. PointsInto(index', pages')
    <3>1. PointsInto(index, pages')
      BY <2>3, <1>2, GrowsKeeps
    <3>2. p0 \in 1 .. Len(pages') /\ s0 \in 1 .. Len(pages'[p0]) /\ pages'[p0][s0] = r
      BY <1>9 DEF Added
    <3>3. p0 \in Nat /\ s0 \in Nat
      BY <3>2, <2>3, PagesHaveLength
    <3>4. /\ <<next_id, p0, s0>> \in (1 .. MaxId) \X Nat \X Nat
          /\ <<next_id, p0, s0>>[1] = next_id
          /\ <<next_id, p0, s0>>[2] = p0 /\ <<next_id, p0, s0>>[3] = s0
      BY <3>3, <1>1
    <3>5. \A e \in index' : e \in index \/ e = <<next_id, p0, s0>>
      BY <1>9
    <3> QED
      BY <3>1, <3>2, <3>4, <3>5, <1>1 DEF PointsInto
  <2>5. next_id < next_id'
    BY <1>1, <1>7
  <2>6. <<next_id, r>> \in log' /\ log \subseteq log'
    BY <1>9
  <2>7. ASSUME fail # "index", Indexed(pages, index)
        PROVE  Indexed(pages', index')
    <3>1. ASSUME NEW e \in index
          PROVE  e[1] # next_id
      <4>1. /\ e[2] \in 1 .. Len(pages) /\ e[3] \in 1 .. Len(pages[e[2]])
            /\ pages[e[2]][e[3]].id = e[1]
        BY <1>2 DEF PointsInto
      <4>2. pages[e[2]][e[3]].id # next_id
        BY <4>1, <2>2, <1>1
      <4> QED
        BY <4>1, <4>2
    <3>2. btree_search(next_id) = {}
      BY <3>1 DEF btree_search
    <3>3. index' = index \cup {<<r.id, p0, s0>>}
      BY <3>2, <2>7, <1>1, <1>9
    <3> QED
      BY <3>3, <2>3, <2>7
  <2>8. \A p \in 1 .. Len(pages') : \A s \in 1 .. Len(pages'[p]) :
          pages'[p][s].id < next_id' /\ <<pages'[p][s].id, pages'[p][s]>> \in log'
    BY <2>1, <2>3, <2>5, <2>6, <1>1, <1>2, <1>7
  <2> QED
    BY <2>3, <2>4, <2>6, <2>7, <2>8
<1>10. /\ IsFile(pages') /\ KeysAreApart(pages') /\ PointsInto(index', pages')
       /\ \A p \in 1 .. Len(pages') : \A s \in 1 .. Len(pages'[p]) :
            pages'[p][s].id < next_id' /\ <<pages'[p][s].id, pages'[p][s]>> \in log'
       /\ fail # "index" /\ Indexed(pages, index) => Indexed(pages', index')
       /\ log \subseteq log'
  BY <1>0, <1>8, <1>9, InsertChangesPages
<1>11. FilesAreFiles'
  BY <1>1, <1>2, <1>3, <1>4, <1>5, <1>7, <1>10 DEF FilesAreFiles
<1>12. DiskLagsBehind'
  BY <1>1 DEF DiskLagsBehind
<1>13. KeysAreGivenOnce'
  BY <1>5, <1>10 DEF KeysAreGivenOnce
<1>14. IndexesPoint'
  BY <1>6, <1>10 DEF IndexesPoint
<1>15. StoredIsLogged'
  <2>1. \A p \in 1 .. Len(disk') : \A s \in 1 .. Len(disk'[p]) :
          <<disk'[p][s].id, disk'[p][s]>> \in log
    BY <1>2, <1>5 DEF StoredIsLogged
  <2> QED
    BY <2>1, <1>10 DEF StoredIsLogged
<1>16. IndexIsComplete'
  <2> SUFFICES ASSUME faults' \cap {"index", "save", "crash"} = {}
               PROVE  Indexed(pages', index')
    BY <1>1 DEF IndexIsComplete
  <2>1. fail # "index" /\ faults \cap {"index", "save", "crash"} = {}
    BY <1>4
  <2>2. Indexed(pages, index)
    BY <2>1, <1>1 DEF TableIsSound, IndexIsComplete
  <2> QED
    BY <2>1, <2>2, <1>10
<1> QED
  BY <1>11, <1>12, <1>13, <1>14, <1>15, <1>16 DEF TableIsSound

(* A call that fails before it has changed anything.                       *)
LEMMA FailureKeepsInv ==
  ASSUME TableIsSound, up, UNCHANGED <<pages, disk, index, index_file, log, next_id, up>>,
         NEW kinds, Outcome(kinds)
  PROVE  TableIsSound'
<1>1. /\ IsFiniteSet(faults') /\ faults' \subseteq FaultKinds /\ Cardinality(faults') <= MaxFaults
      /\ faults' = faults \cup kinds
  BY OutcomeCounts DEF TableIsSound
<1>2. FilesAreFiles'
  BY <1>1 DEF TableIsSound, FilesAreFiles
<1>3. DiskLagsBehind' /\ KeysAreGivenOnce' /\ IndexesPoint' /\ StoredIsLogged'
  BY DEF TableIsSound, DiskLagsBehind, KeysAreGivenOnce, IndexesPoint, StoredIsLogged
<1>4. IndexIsComplete'
  BY <1>1 DEF TableIsSound, IndexIsComplete
<1> QED
  BY <1>2, <1>3, <1>4 DEF TableIsSound

(* A record that is overwritten, as table_update does, or marked deleted   *)
(* and taken out of the index, as table_delete does.                       *)
LEMMA OverwriteKeepsInv ==
  ASSUME TableIsSound, up, NEW e \in index, NEW r \in Row, r.id = e[1],
         Put(pages, pages', e[2], e[3], r),
         log' = log \cup {<<e[1], r>>},
         index' = index \/ (index' = index \ {e} /\ r.is_deleted),
         UNCHANGED <<disk, index_file, next_id, up, faults>>
  PROVE  TableIsSound'
<1>1. /\ IsFile(pages) /\ IsFile(disk) /\ Len(disk) = Len(pages) /\ Grows(disk, pages)
      /\ KeysAreApart(pages) /\ PointsInto(index, pages) /\ StoredIsLogged
      /\ \A p \in 1 .. Len(pages) : \A s \in 1 .. Len(pages[p]) : pages[p][s].id < next_id
  BY DEF TableIsSound, FilesAreFiles, DiskLagsBehind, KeysAreGivenOnce, IndexesPoint
<1>2. /\ IsFile(pages') /\ Len(pages') = Len(pages) /\ Grows(pages, pages') /\ Grows(pages', pages)
      /\ \A p \in 1 .. Len(pages') : \A s \in 1 .. Len(pages'[p]) :
           /\ p \in 1 .. Len(pages) /\ s \in 1 .. Len(pages[p])
           /\ pages'[p][s].id = pages[p][s].id
           /\ pages'[p][s] = IF p = e[2] /\ s = e[3] THEN r ELSE pages[p][s]
  BY <1>1, PutKeeps
<1>3. FilesAreFiles'
  BY <1>2 DEF TableIsSound, FilesAreFiles
<1>4. DiskLagsBehind'
  <2>1. Grows(disk, pages')
    BY <1>1, <1>2, GrowsOnAndOn
  <2> QED
    BY <2>1, <1>1, <1>2 DEF DiskLagsBehind
<1>5. KeysAreGivenOnce'
  <2>1. KeysAreApart(pages')
    BY <1>1, <1>2, GrowsKeeps
  <2> QED
    BY <2>1, <1>1, <1>2 DEF TableIsSound, KeysAreGivenOnce
<1>6. IndexesPoint'
  <2>1. PointsInto(index, pages')
    BY <1>1, <1>2, GrowsKeeps
  <2>2. PointsInto(index', pages')
    BY <2>1 DEF PointsInto
  <2> QED
    BY <2>2 DEF TableIsSound, IndexesPoint
<1>7. StoredIsLogged'
  <2>1. ASSUME NEW p \in 1 .. Len(pages'), NEW s \in 1 .. Len(pages'[p])
        PROVE  <<pages'[p][s].id, pages'[p][s]>> \in log'
    <3>1. CASE p = e[2] /\ s = e[3]
      BY <3>1, <1>2
    <3>2. CASE ~(p = e[2] /\ s = e[3])
      BY <3>2, <1>1, <1>2 DEF StoredIsLogged
    <3> QED
      BY <3>1, <3>2
  <2>2. \A p \in 1 .. Len(disk) : \A s \in 1 .. Len(disk[p]) : <<disk[p][s].id, disk[p][s]>> \in log'
    BY <1>1 DEF StoredIsLogged
  <2> QED
    BY <2>1, <2>2 DEF StoredIsLogged
<1>8. IndexIsComplete'
  <2> SUFFICES ASSUME faults \cap {"index", "save", "crash"} = {}
               PROVE  Indexed(pages', index')
    BY DEF IndexIsComplete
  <2>1. Indexed(pages, index)
    BY DEF TableIsSound, IndexIsComplete
  <2> SUFFICES ASSUME NEW p \in 1 .. Len(pages'), NEW s \in 1 .. Len(pages'[p]),
                      ~pages'[p][s].is_deleted
               PROVE  <<pages'[p][s].id, p, s>> \in index'
    BY DEF Indexed
  <2>2. /\ p \in 1 .. Len(pages) /\ s \in 1 .. Len(pages[p])
        /\ pages'[p][s].id = pages[p][s].id
        /\ pages'[p][s] = IF p = e[2] /\ s = e[3] THEN r ELSE pages[p][s]
    BY <1>2
  <2>3. CASE p = e[2] /\ s = e[3]
    <3>1. index' = index
      BY <2>2, <2>3
    <3>2. e \in (1 .. MaxId) \X Nat \X Nat
      BY <1>1 DEF PointsInto
    <3>3. e = <<e[1], e[2], e[3]>>
      BY <3>2
    <3>4. pages'[p][s].id = e[1]
      BY <2>2, <2>3
    <3> QED
      BY <3>1, <3>3, <3>4, <2>3
  <2>4. CASE ~(p = e[2] /\ s = e[3])
    <3>1. ~pages[p][s].is_deleted
      BY <2>2, <2>4
    <3>2. <<pages[p][s].id, p, s>> \in index
      BY <3>1, <2>1, <2>2 DEF Indexed
    <3>3. <<pages[p][s].id, p, s>> # e
      BY <2>4
    <3> QED
      BY <3>2, <3>3, <2>2
  <2> QED
    BY <2>3, <2>4
<1> QED
  BY <1>3, <1>4, <1>5, <1>6, <1>7, <1>8 DEF TableIsSound

(* What the index finds is a record under its key.                         *)
LEMMA FoundIsThere ==
  ASSUME TableIsSound, NEW id, NEW e, Found(id, e)
  PROVE  /\ e \in index /\ e[1] = id /\ id \in 1 .. MaxId
         /\ e[2] \in 1 .. Len(pages) /\ e[3] \in 1 .. Len(pages[e[2]])
         /\ pages[e[2]][e[3]] \in Row /\ pages[e[2]][e[3]].id = id
         /\ ~pages[e[2]][e[3]].is_deleted
<1>1. IsFile(pages) /\ PointsInto(index, pages)
  BY DEF TableIsSound, FilesAreFiles, IndexesPoint
<1>2. e \in index /\ e[1] = id
  BY DEF Found, btree_search
<1>3. /\ id \in 1 .. MaxId
      /\ e[2] \in 1 .. Len(pages) /\ e[3] \in 1 .. Len(pages[e[2]])
      /\ pages[e[2]][e[3]].id = id
  <2>1. e \in (1 .. MaxId) \X Nat \X Nat
    BY <1>1, <1>2 DEF PointsInto
  <2> QED
    BY <2>1, <1>1, <1>2 DEF PointsInto
<1>4. pages[e[2]][e[3]] \in Row
  BY <1>1, <1>3, PagesHaveLength
<1>5. page_get_record(pages, e[2], e[3]) \subseteq {pages[e[2]][e[3]]}
  BY DEF page_get_record
<1>6. ~pages[e[2]][e[3]].is_deleted
  BY <1>5 DEF Found
<1> QED
  BY <1>2, <1>3, <1>4, <1>6

(* table_update overwrites the record of its key.                          *)
LEMMA UpdateChangesPages ==
  ASSUME TableIsSound, NEW id, NEW v \in Values, NEW fail, table_update(id, v, fail)
  PROVE  /\ up /\ UNCHANGED <<disk, index, index_file, next_id, up>> /\ Outcome({fail} \ {"ok"})
         /\ \E e \in index :
              /\ Found(id, e)
              /\ Record(id, v) \in Row
              /\ \/ UNCHANGED <<log, pages>>
                 \/ /\ fail = "ok" /\ log' = log \cup {<<id, Record(id, v)>>}
                    /\ Put(pages, pages', e[2], e[3], Record(id, v))
<1>1. PICK e \in index :
        /\ up /\ Found(id, e)
        /\ Outcome({fail} \ {"ok"})
        /\ IF fail = "ok"
           THEN /\ log' = log \cup {<<id, Record(id, v)>>}
                /\ pages' = [pages EXCEPT ![e[2]][e[3]] = Record(id, v)]
           ELSE UNCHANGED <<log, pages>>
        /\ UNCHANGED <<disk, index, index_file, next_id, up>>
  BY DEF table_update
<1>2. /\ id \in 1 .. MaxId /\ e[2] \in 1 .. Len(pages) /\ e[3] \in 1 .. Len(pages[e[2]])
      /\ pages[e[2]][e[3]].id = id
  BY <1>1, FoundIsThere
<1>3. Record(id, v) \in Row /\ Record(id, v).id = id
  BY <1>2 DEF Record, Row
<1>4. Put(pages, [pages EXCEPT ![e[2]][e[3]] = Record(id, v)], e[2], e[3], Record(id, v))
  BY <1>2, <1>3, RecordPut DEF TableIsSound, FilesAreFiles
<1>5. CASE fail = "ok"
  <2>1. /\ log' = log \cup {<<id, Record(id, v)>>}
        /\ pages' = [pages EXCEPT ![e[2]][e[3]] = Record(id, v)]
    BY <1>1, <1>5
  <2>2. Put(pages, pages', e[2], e[3], Record(id, v))
    BY <2>1, <1>4
  <2> QED
    BY <2>1, <2>2, <1>1, <1>3, <1>5
<1>6. CASE fail # "ok"
  BY <1>1, <1>3, <1>6
<1> QED
  BY <1>5, <1>6

(* table_update                                                            *)
LEMMA UpdateKeepsInv ==
  ASSUME TableIsSound, NEW id, NEW v \in Values, NEW fail, table_update(id, v, fail)
  PROVE  TableIsSound'
<1>1. up /\ UNCHANGED <<disk, index, index_file, next_id, up>> /\ Outcome({fail} \ {"ok"})
  BY UpdateChangesPages
<1>2. PICK e \in index :
        /\ Found(id, e)
        /\ Record(id, v) \in Row
        /\ \/ UNCHANGED <<log, pages>>
           \/ /\ fail = "ok" /\ log' = log \cup {<<id, Record(id, v)>>}
              /\ Put(pages, pages', e[2], e[3], Record(id, v))
  BY UpdateChangesPages
<1>3. CASE UNCHANGED <<log, pages>>
  BY <1>1, <1>3, FailureKeepsInv
<1>4. CASE /\ fail = "ok" /\ log' = log \cup {<<id, Record(id, v)>>}
           /\ Put(pages, pages', e[2], e[3], Record(id, v))
  <2>1. e[1] = id /\ Record(id, v).id = id
    BY <1>2, FoundIsThere DEF Record
  <2>2. UNCHANGED faults
    BY <1>1, <1>4 DEF Outcome
  <2> QED
    BY <2>1, <2>2, <1>1, <1>2, <1>4, OverwriteKeepsInv
<1> QED
  BY <1>2, <1>3, <1>4

(* table_delete marks the record of its key and takes its entry out of the *)
(* index.                                                                  *)
LEMMA DeleteChangesPages ==
  ASSUME TableIsSound, NEW id, NEW fail, table_delete(id, fail)
  PROVE  /\ up /\ UNCHANGED <<disk, index_file, next_id, up>> /\ Outcome({fail} \ {"ok"})
         /\ \E e \in index : \E r \in Row :
              /\ Found(id, e)
              /\ r.id = id /\ r.is_deleted
              /\ \/ UNCHANGED <<log, pages, index>>
                 \/ /\ fail = "ok" /\ log' = log \cup {<<id, r>>}
                    /\ Put(pages, pages', e[2], e[3], r)
                    /\ index' = index \ {e}
<1>1. PICK e \in index :
        /\ up /\ Found(id, e)
        /\ Outcome({fail} \ {"ok"})
        /\ IF fail = "ok"
           THEN /\ log' = log \cup {<<id, DeletedPages(e)[e[2]][e[3]]>>}
                /\ pages' = DeletedPages(e)
                /\ index' = index \ {e}
           ELSE UNCHANGED <<log, pages, index>>
        /\ UNCHANGED <<disk, index_file, next_id, up>>
  BY DEF table_delete
<1>2. /\ id \in 1 .. MaxId /\ e[2] \in 1 .. Len(pages) /\ e[3] \in 1 .. Len(pages[e[2]])
      /\ pages[e[2]][e[3]].id = id /\ pages[e[2]][e[3]] \in Row
  BY <1>1, FoundIsThere
<1> DEFINE r == [pages[e[2]][e[3]] EXCEPT !.is_deleted = TRUE]
<1>3. r \in Row /\ r.id = id /\ r.is_deleted
  BY <1>2 DEF Row
<1>4. Put(pages, [pages EXCEPT ![e[2]][e[3]] = r], e[2], e[3], r)
  <2> HIDE DEF r
  <2> QED
    BY <1>2, <1>3, RecordPut DEF TableIsSound, FilesAreFiles
<1>5. DeletedPages(e) = [pages EXCEPT ![e[2]][e[3]] = r]
  BY DEF DeletedPages
<1>6. DeletedPages(e)[e[2]][e[3]] = r
  <2> HIDE DEF r
  <2> QED
    BY <1>2, <1>4, <1>5 DEF Put
<1> HIDE DEF r
<1>7. CASE fail = "ok"
  <2>1. log' = log \cup {<<id, r>>} /\ index' = index \ {e} /\ Put(pages, pages', e[2], e[3], r)
    BY <1>1, <1>4, <1>5, <1>6, <1>7
  <2> QED
    BY <2>1, <1>1, <1>3, <1>7
<1>8. CASE fail # "ok"
  BY <1>1, <1>3, <1>8
<1> QED
  BY <1>7, <1>8

(* table_delete                                                            *)
LEMMA DeleteKeepsInv ==
  ASSUME TableIsSound, NEW id, NEW fail, table_delete(id, fail)
  PROVE  TableIsSound'
<1>1. up /\ UNCHANGED <<disk, index_file, next_id, up>> /\ Outcome({fail} \ {"ok"})
  BY DeleteChangesPages
<1>2. PICK e \in index, r \in Row :
        /\ Found(id, e)
        /\ r.id = id /\ r.is_deleted
        /\ \/ UNCHANGED <<log, pages, index>>
           \/ /\ fail = "ok" /\ log' = log \cup {<<id, r>>}
              /\ Put(pages, pages', e[2], e[3], r)
              /\ index' = index \ {e}
  BY DeleteChangesPages
<1>3. CASE UNCHANGED <<log, pages, index>>
  BY <1>1, <1>3, FailureKeepsInv
<1>4. CASE /\ fail = "ok" /\ log' = log \cup {<<id, r>>}
           /\ Put(pages, pages', e[2], e[3], r)
           /\ index' = index \ {e}
  <2>1. e[1] = id
    BY <1>2, FoundIsThere
  <2>2. UNCHANGED faults
    BY <1>1, <1>4 DEF Outcome
  <2> QED
    BY <2>1, <2>2, <1>1, <1>2, <1>4, OverwriteKeepsInv
<1> QED
  BY <1>2, <1>3, <1>4

(* The disk catches up, page by page or all at once.                       *)
LEMMA CatchUpKeepsInv ==
  ASSUME TableIsSound, up, IsFile(disk'), Len(disk') = Len(pages),
         \A p \in 1 .. Len(pages) : disk'[p] = disk[p] \/ disk'[p] = pages[p],
         UNCHANGED <<pages, index, index_file, log, next_id, up, faults>>
  PROVE  TableIsSound'
<1>1. /\ IsFile(pages) /\ IsFile(disk) /\ Len(disk) = Len(pages) /\ Grows(disk, pages)
      /\ KeysAreApart(pages) /\ StoredIsLogged
  BY DEF TableIsSound, FilesAreFiles, DiskLagsBehind, KeysAreGivenOnce
<1>2. /\ Len(pages) \in Nat
      /\ \A p \in 1 .. Len(pages) : Len(pages[p]) \in Nat /\ Len(disk[p]) \in Nat
  BY <1>1, PagesHaveLength
<1>3. Grows(disk, disk') /\ Grows(disk', pages)
  <2>1. \A p \in 1 .. Len(pages) :
          /\ Len(disk[p]) <= Len(pages[p])
          /\ \A s \in 1 .. Len(disk[p]) : disk[p][s].id = pages[p][s].id
    BY <1>1 DEF Grows
  <2>2. ASSUME NEW p \in 1 .. Len(pages)
        PROVE  /\ Len(disk[p]) <= Len(disk'[p]) /\ Len(disk'[p]) <= Len(pages[p])
               /\ \A s \in 1 .. Len(disk[p]) : disk[p][s].id = disk'[p][s].id
               /\ \A s \in 1 .. Len(disk'[p]) : disk'[p][s].id = pages[p][s].id
    <3>0. /\ Len(disk[p]) <= Len(pages[p]) /\ Len(disk[p]) <= Len(disk[p]) /\ Len(pages[p]) <= Len(pages[p])
          /\ \A s \in 1 .. Len(disk[p]) : disk[p][s].id = pages[p][s].id
      BY <2>1, <1>2
    <3>1. CASE disk'[p] = disk[p]
      BY <3>0, <3>1, Zenon
    <3>2. CASE disk'[p] = pages[p]
      BY <3>0, <3>2, Zenon
    <3> QED
      BY <3>1, <3>2
  <2> QED
    BY <2>2, <1>1, <1>2 DEF Grows
<1>4. FilesAreFiles'
  BY DEF TableIsSound, FilesAreFiles
<1>5. DiskLagsBehind'
  BY <1>3 DEF DiskLagsBehind
<1>6. KeysAreGivenOnce'
  <2>1. KeysAreApart(disk')
    BY <1>1, <1>3, GrowsKeeps
  <2> QED
    BY <2>1 DEF TableIsSound, KeysAreGivenOnce
<1>7. IndexesPoint'
  <2>1. index_file # Torn => PointsInto(index_file, disk')
    BY <1>1, <1>3, GrowsKeeps DEF TableIsSound, IndexesPoint
  <2> QED
    BY <2>1 DEF TableIsSound, IndexesPoint
<1>8. StoredIsLogged'
  <2>1. \A p \in 1 .. Len(pages) : \A s \in 1 .. Len(disk'[p]) : <<disk'[p][s].id, disk'[p][s]>> \in log
    BY <1>1 DEF StoredIsLogged
  <2> QED
    BY <2>1, <1>1 DEF StoredIsLogged
<1>9. IndexIsComplete'
  BY DEF TableIsSound, IndexIsComplete
<1> QED
  BY <1>4, <1>5, <1>6, <1>7, <1>8, <1>9 DEF TableIsSound

(* The buffer pool writes a page back.                                     *)
LEMMA WriteBackKeepsInv ==
  ASSUME TableIsSound, NEW p \in DOMAIN pages, WriteBack(p)
  PROVE  TableIsSound'
<1>1. /\ IsFile(pages) /\ IsFile(disk) /\ Len(disk) = Len(pages) /\ up
  BY DEF TableIsSound, FilesAreFiles, DiskLagsBehind, WriteBack
<1>2. pages \in Seq(Seq(Row)) /\ disk \in Seq(Seq(Row))
  BY <1>1 DEF IsFile
<1>3. p \in 1 .. Len(disk) /\ pages[p] \in Seq(Row) /\ Len(pages[p]) <= MaxRecords
  <2>1. p \in 1 .. Len(pages)
    BY <1>2
  <2> QED
    BY <2>1, <1>1, <1>2 DEF IsFile
<1>4. disk' = [disk EXCEPT ![p] = pages[p]]
  BY DEF WriteBack
<1>5. /\ disk' \in Seq(Seq(Row)) /\ Len(disk') = Len(disk)
      /\ \A q \in 1 .. Len(disk) : disk'[q] = IF q = p THEN pages[p] ELSE disk[q]
  BY <1>2, <1>3, <1>4
<1>6. IsFile(disk')
  BY <1>1, <1>3, <1>5 DEF IsFile
<1>7. \A q \in 1 .. Len(pages) : disk'[q] = disk[q] \/ disk'[q] = pages[q]
  BY <1>1, <1>5
<1>8. UNCHANGED <<pages, index, index_file, log, next_id, up, faults>>
  BY DEF WriteBack
<1> QED
  BY <1>1, <1>5, <1>6, <1>7, <1>8, CatchUpKeepsInv

(* What buffer_pool_flush_all leaves on disk is a file whose pages are the *)
(* ones in memory or the ones that were there, none of these when no write *)
(* failed.                                                                 *)
LEMMA FlushedIsAFile ==
  ASSUME TableHasShape, up, NEW bad
  PROVE  /\ IsFile(FlushedBut(bad)) /\ Len(FlushedBut(bad)) = Len(pages)
         /\ \A p \in 1 .. Len(pages) : FlushedBut(bad)[p] = disk[p] \/ FlushedBut(bad)[p] = pages[p]
         /\ bad = {} => FlushedBut(bad) = pages
<1>1. IsFile(pages) /\ IsFile(disk) /\ Len(disk) = Len(pages)
  BY DEF TableHasShape, FilesAreFiles
<1>2. pages \in Seq(Seq(Row)) /\ disk \in Seq(Seq(Row)) /\ DOMAIN pages = 1 .. Len(pages)
  BY <1>1 DEF IsFile
<1>3. /\ Len(pages) \in Nat
      /\ \A p \in 1 .. Len(pages) : pages[p] \in Seq(Row) /\ disk[p] \in Seq(Row)
      /\ \A p \in 1 .. Len(pages) : Len(pages[p]) <= MaxRecords /\ Len(disk[p]) <= MaxRecords
  BY <1>1, <1>2 DEF IsFile
<1> DEFINE g == FlushedBut(bad)
<1>4. g = [p \in 1 .. Len(pages) |-> IF p \in bad THEN disk[p] ELSE pages[p]]
  BY <1>2 DEF FlushedBut
<1>5. \A p \in 1 .. Len(pages) : g[p] = IF p \in bad THEN disk[p] ELSE pages[p]
  BY <1>4
<1>6. g \in [1 .. Len(pages) -> Seq(Row)]
  BY <1>3, <1>4
<1>7. g \in Seq(Seq(Row)) /\ Len(g) = Len(pages)
  BY <1>3, <1>6
<1>8. ASSUME bad = {}
      PROVE  g = pages
  <2>1. \A p \in 1 .. Len(pages) : g[p] = pages[p]
    BY <1>5, <1>8
  <2>2. pages \in [1 .. Len(pages) -> Seq(Row)]
    BY <1>2
  <2> QED
    BY <2>1, <2>2, <1>6
<1> HIDE DEF g
<1>9. IsFile(g)
  BY <1>3, <1>5, <1>7 DEF IsFile
<1> QED
  BY <1>5, <1>7, <1>8, <1>9 DEF g

(* table_flush that writes every page.                                     *)
LEMMA FlushKeepsInv ==
  ASSUME TableIsSound, NEW bad, table_flush(bad), "write" \notin faults'
  PROVE  TableIsSound'
<1>1. /\ up /\ Outcome(WriteFails(bad)) /\ disk' = FlushedBut(bad)
      /\ UNCHANGED <<pages, index, index_file, log, next_id, up>>
  BY DEF table_flush
<1>2. bad = {} /\ UNCHANGED faults
  BY <1>1 DEF Outcome, WriteFails
<1>3. disk' = pages
  BY <1>1, <1>2, SoundHasShape, FlushedIsAFile
<1>4. IsFile(pages)
  BY DEF TableIsSound, FilesAreFiles
<1>5. /\ IsFile(disk') /\ Len(disk') = Len(pages)
      /\ \A q \in 1 .. Len(pages) : disk'[q] = disk[q] \/ disk'[q] = pages[q]
  BY <1>3, <1>4
<1> QED
  BY <1>1, <1>2, <1>5, CatchUpKeepsInv

(* The table is closed, in good order or by the death of the process: what *)
(* is left is a file and an index that leads into it, complete if nobody   *)
(* died and the index was saved.                                           *)
LEMMA DownKeepsInv ==
  ASSUME TableIsSound, up, ~up', up' \in BOOLEAN, pages' = <<>>, index' = {}, UNCHANGED <<log, next_id>>,
         disk' = disk \/ disk' = pages,
         \/ index_file' = Torn
         \/ index_file' = index_file
         \/ index_file' = index /\ disk' = pages,
         NEW kinds, Outcome(kinds),
         kinds \cap {"save", "crash"} # {} \/ (index_file' = index /\ disk' = pages)
  PROVE  TableIsSound'
<1>1. /\ IsFile(pages) /\ IsFile(disk) /\ Len(disk) = Len(pages) /\ Grows(disk, pages)
      /\ KeysAreApart(pages) /\ KeysAreApart(disk) /\ StoredIsLogged
      /\ PointsInto(index, pages) /\ (index_file # Torn => PointsInto(index_file, disk))
      /\ FilesAreFiles
  BY DEF TableIsSound, FilesAreFiles, DiskLagsBehind, KeysAreGivenOnce, IndexesPoint
<1>2. /\ IsFiniteSet(faults') /\ faults' \subseteq FaultKinds /\ Cardinality(faults') <= MaxFaults
      /\ faults' = faults \cup kinds
  BY <1>1, OutcomeCounts
<1>3. <<>> \in Seq(Seq(Row)) /\ Len(<<>>) = 0 /\ \A p : ~(p \in 1 .. 0)
  OBVIOUS
<1>4. IsFile(disk') /\ KeysAreApart(disk')
  BY <1>1
<1>5. IsFile(pages') /\ KeysAreApart(pages')
  BY <1>3 DEF IsFile, KeysAreApart
<1>6. FilesAreFiles'
  BY <1>1, <1>2, <1>4, <1>5 DEF FilesAreFiles
<1>7. DiskLagsBehind'
  BY DEF DiskLagsBehind
<1>8. KeysAreGivenOnce'
  BY <1>4, <1>5 DEF KeysAreGivenOnce
<1>9. IndexesPoint'
  <2>1. index_file # Torn => PointsInto(index_file, disk')
    BY <1>1, GrowsKeeps
  <2>2. index_file' # Torn => PointsInto(index_file', disk')
    BY <2>1, <1>1
  <2>3. PointsInto(index', pages')
    BY DEF PointsInto
  <2> QED
    BY <2>2, <2>3 DEF IndexesPoint
<1>10. StoredIsLogged'
  <2>1. \A p \in 1 .. Len(disk') : \A s \in 1 .. Len(disk'[p]) : <<disk'[p][s].id, disk'[p][s]>> \in log
    BY <1>1 DEF StoredIsLogged
  <2>2. \A p \in 1 .. Len(pages') : FALSE
    BY <1>3
  <2> QED
    BY <2>1, <2>2 DEF StoredIsLogged
<1>11. IndexIsComplete'
  <2> SUFFICES ASSUME faults' \cap {"index", "save", "crash"} = {}
               PROVE  Indexed(disk', index_file')
    BY DEF IndexIsComplete
  <2>1. kinds \cap {"save", "crash"} = {} /\ faults \cap {"index", "save", "crash"} = {}
    BY <1>2
  <2>2. index_file' = index /\ disk' = pages
    BY <2>1
  <2>3. Indexed(pages, index)
    BY <2>1 DEF TableIsSound, IndexIsComplete
  <2> QED
    BY <2>2, <2>3
<1> QED
  BY <1>6, <1>7, <1>8, <1>9, <1>10, <1>11 DEF TableIsSound

(* table_close, cut short or not: the pages are written before the index,  *)
(* and a failure of either is among the kinds.                             *)
LEMMA CloseIsDown ==
  ASSUME NEW done \in 0 .. Len(CloseOrder), NEW bad, NEW saved \in BOOLEAN,
         table_close(done, bad, saved)
  PROVE  /\ up /\ ~up' /\ up' \in BOOLEAN /\ pages' = <<>> /\ index' = {} /\ UNCHANGED <<log, next_id>>
         /\ disk' = disk \/ disk' = FlushedBut(bad)
         /\ \/ index_file' = Torn
            \/ index_file' = index_file
            \/ index_file' = index /\ disk' = FlushedBut(bad)
         /\ \E kinds : /\ Outcome(kinds)
                       /\ bad # {} => "write" \in kinds
                       /\ \/ kinds \cap {"save", "crash"} # {}
                          \/ index_file' = index /\ disk' = FlushedBut(bad)
<1> DEFINE kinds == WriteFails(bad) \cup (IF saved THEN {} ELSE {"save"})
                                    \cup (IF done < Len(CloseOrder) THEN {"crash"} ELSE {})
<1>1. Len(CloseOrder) = 2 /\ CloseOrder[1] = "pages" /\ CloseOrder[2] = "index"
  BY DEF CloseOrder
<1>2. /\ up /\ up' = FALSE /\ pages' = <<>> /\ index' = {} /\ UNCHANGED <<log, next_id>>
      /\ (\E i \in 1 .. done : CloseOrder[i] = "index") \/ saved
      /\ Outcome(kinds)
      /\ disk' = IF \E i \in 1 .. done : CloseOrder[i] = "pages" THEN FlushedBut(bad) ELSE disk
      /\ IF ~saved \/ (done < Len(CloseOrder) /\ CloseOrder[done + 1] = "index")
         THEN index_file' \in {index_file, Torn}
         ELSE index_file' = IF \E i \in 1 .. done : CloseOrder[i] = "index" THEN index ELSE index_file
  BY DEF table_close
<1>3. done = 0 \/ done = 1 \/ done = 2
  BY <1>1
<1>4. bad # {} => "write" \in kinds
  BY DEF WriteFails
<1>5. ~saved => "save" \in kinds
  OBVIOUS
<1>6. done < 2 => "crash" \in kinds
  BY <1>1
<1> HIDE DEF kinds
<1>7. CASE done = 0
  <2>1. /\ ~(\E i \in 1 .. done : CloseOrder[i] = "pages")
        /\ ~(\E i \in 1 .. done : CloseOrder[i] = "index")
        /\ CloseOrder[done + 1] = "pages" /\ done < 2
    BY <1>1, <1>7
  <2>2. disk' = disk /\ index_file' = index_file
    BY <2>1, <1>2
  <2>3. kinds \cap {"save", "crash"} # {}
    BY <2>1, <1>6
  <2> QED
    BY <2>2, <2>3, <1>2, <1>4, Zenon
<1>8. CASE done = 1
  <2>1. /\ \E i \in 1 .. done : CloseOrder[i] = "pages"
        /\ done < 2 /\ done < Len(CloseOrder)
        /\ CloseOrder[done + 1] = "index"
    BY <1>1, <1>8
  <2>2. disk' = FlushedBut(bad) /\ index_file' \in {index_file, Torn}
    BY <2>1, <1>2
  <2>3. kinds \cap {"save", "crash"} # {}
    BY <2>1, <1>6
  <2> QED
    BY <2>2, <2>3, <1>2, <1>4, Zenon
<1>9. CASE done = 2
  <2>1. /\ \E i \in 1 .. done : CloseOrder[i] = "pages"
        /\ \E i \in 1 .. done : CloseOrder[i] = "index"
        /\ ~(done < Len(CloseOrder))
    BY <1>1, <1>9
  <2>2. disk' = FlushedBut(bad)
    BY <2>1, <1>2
  <2>3. CASE saved
    <3>1. index_file' = index
      BY <2>1, <2>3, <1>2
    <3> QED
      BY <3>1, <2>2, <1>2, <1>4, Zenon
  <2>4. CASE ~saved
    <3>1. index_file' \in {index_file, Torn} /\ kinds \cap {"save", "crash"} # {}
      BY <2>4, <1>2, <1>5
    <3> QED
      BY <3>1, <2>2, <1>2, <1>4, Zenon
  <2> QED
    BY <2>3, <2>4
<1> QED
  BY <1>3, <1>7, <1>8, <1>9

(* table_close that writes every page.                                     *)
LEMMA CloseKeepsInv ==
  ASSUME TableIsSound, NEW done \in 0 .. Len(CloseOrder), NEW bad, NEW saved \in BOOLEAN,
         table_close(done, bad, saved), "write" \notin faults'
  PROVE  TableIsSound'
<1>1. /\ up /\ ~up' /\ up' \in BOOLEAN /\ pages' = <<>> /\ index' = {} /\ UNCHANGED <<log, next_id>>
      /\ disk' = disk \/ disk' = FlushedBut(bad)
      /\ \/ index_file' = Torn
         \/ index_file' = index_file
         \/ index_file' = index /\ disk' = FlushedBut(bad)
  BY CloseIsDown
<1>2. PICK kinds : /\ Outcome(kinds)
                   /\ bad # {} => "write" \in kinds
                   /\ \/ kinds \cap {"save", "crash"} # {}
                      \/ index_file' = index /\ disk' = FlushedBut(bad)
  BY CloseIsDown
<1>3. bad = {}
  BY <1>2 DEF Outcome
<1>4. FlushedBut(bad) = pages
  BY <1>1, <1>3, SoundHasShape, FlushedIsAFile
<1> QED
  BY <1>1, <1>2, <1>4, DownKeepsInv

(* The next key after a start is above every key in the file.              *)
LEMMA MaxIdIsGreatest ==
  ASSUME IsFile(disk)
  PROVE  /\ MaxIdOf(disk) \in 0 .. MaxId
         /\ \A p \in 1 .. Len(disk) : \A s \in 1 .. Len(disk[p]) : disk[p][s].id <= MaxIdOf(disk)
<1> DEFINE ids == {r.id : r \in Records(disk)}
<1>1. disk \in Seq(Seq(Row))
  BY DEF IsFile
<1>2. \A r : r \in Records(disk)
               <=> \E p \in 1 .. Len(disk) : \E s \in 1 .. Len(disk[p]) : r = disk[p][s]
  BY <1>1, RecordsOfFile
<1>3. \A r \in Records(disk) : r.id \in 1 .. MaxId
  BY <1>2, PagesHaveLength DEF Row
<1>4. ids \subseteq 1 .. MaxId
  BY <1>3
<1>5. \A p \in 1 .. Len(disk) : \A s \in 1 .. Len(disk[p]) : disk[p][s].id \in ids
  BY <1>2
<1>6. MaxIdOf(disk) = CHOOSE m \in ids \cup {0} : \A i \in ids : i <= m
  BY DEF MaxIdOf
<1> HIDE DEF ids
<1>7. \E m \in ids \cup {0} : \A i \in ids : i <= m
  <2>1. CASE ids = {}
    BY <2>1
  <2>2. CASE ids # {}
    <3>1. IsFiniteSet(1 .. MaxId)
      BY BoundsAssumption, FS_Interval
    <3>a. ids \in SUBSET (1 .. MaxId) /\ ids \subseteq Int
      BY <1>4, BoundsAssumption
    <3>2. IsFiniteSet(ids) /\ ids \subseteq Int
      BY <3>1, <3>a, FS_Subset
    <3> QED
      BY <3>2, <2>2, FiniteHasGreatest
  <2> QED
    BY <2>1, <2>2
<1>8. MaxIdOf(disk) \in ids \cup {0} /\ \A i \in ids : i <= MaxIdOf(disk)
  BY <1>6, <1>7
<1>9. MaxIdOf(disk) \in 0 .. MaxId
  <2>1. \A m \in 1 .. MaxId : m \in 0 .. MaxId
    BY BoundsAssumption
  <2>2. 0 \in 0 .. MaxId
    BY BoundsAssumption
  <2> QED
    BY <2>1, <2>2, <1>4, <1>8, Zenon
<1> QED
  BY <1>5, <1>8, <1>9

(* table_open                                                              *)
LEMMA OpenKeepsInv ==
  ASSUME TableIsSound, table_open
  PROVE  TableIsSound'
<1>1. /\ ~up /\ index_file # Torn /\ pages' = disk /\ index' = index_file
      /\ next_id' = MaxIdOf(disk) + 1 /\ up' = TRUE
      /\ UNCHANGED <<disk, index_file, log, faults>>
  BY DEF table_open
<1>2. /\ IsFile(disk) /\ KeysAreApart(disk) /\ PointsInto(index_file, disk) /\ StoredIsLogged
  BY <1>1 DEF TableIsSound, FilesAreFiles, KeysAreGivenOnce, IndexesPoint
<1>3. /\ MaxIdOf(disk) \in 0 .. MaxId
      /\ \A p \in 1 .. Len(disk) : \A s \in 1 .. Len(disk[p]) : disk[p][s].id <= MaxIdOf(disk)
  BY <1>2, MaxIdIsGreatest
<1>4. FilesAreFiles'
  <2>1. next_id' \in 1 .. MaxId + 1
    BY <1>1, <1>3, BoundsAssumption
  <2> QED
    BY <2>1, <1>1, <1>2 DEF TableIsSound, FilesAreFiles
<1>5. DiskLagsBehind'
  <2>1. Grows(disk, disk)
    BY <1>2, GrowsOnAndOn
  <2> QED
    BY <2>1, <1>1 DEF DiskLagsBehind
<1>6. KeysAreGivenOnce'
  <2>1. \A p \in 1 .. Len(disk) : \A s \in 1 .. Len(disk[p]) : disk[p][s].id \in Int
    BY <1>2, PagesHaveLength DEF Row
  <2>2. \A p \in 1 .. Len(disk) : \A s \in 1 .. Len(disk[p]) : disk[p][s].id < next_id'
    <3>1. \A k \in Int : k <= MaxIdOf(disk) => k < MaxIdOf(disk) + 1
      BY <1>3, BoundsAssumption
    <3> QED
      BY <3>1, <2>1, <1>1, <1>3, Zenon
  <2> QED
    BY <2>2, <1>1, <1>2 DEF KeysAreGivenOnce
<1>7. IndexesPoint'
  BY <1>1, <1>2 DEF IndexesPoint
<1>8. StoredIsLogged'
  BY <1>1, <1>2 DEF StoredIsLogged
<1>9. IndexIsComplete'
  BY <1>1 DEF TableIsSound, IndexIsComplete
<1> QED
  BY <1>4, <1>5, <1>6, <1>7, <1>8, <1>9 DEF TableIsSound

(* A fresh table is sound.                                                 *)
LEMMA InitTableInv ==
  ASSUME Init
  PROVE  TableIsSound
<1>1. /\ pages = <<>> /\ disk = <<>> /\ index = {} /\ index_file = {}
      /\ log = {} /\ next_id = 1 /\ up = TRUE /\ faults = {}
  BY DEF Init
<1>2. <<>> \in Seq(Seq(Row)) /\ Len(<<>>) = 0 /\ \A p : ~(p \in 1 .. 0)
  OBVIOUS
<1>3. IsFile(pages) /\ IsFile(disk) /\ KeysAreApart(pages) /\ Grows(disk, pages)
  BY <1>1, <1>2 DEF IsFile, KeysAreApart, Grows
<1>4. IsFiniteSet(faults) /\ Cardinality(faults) <= MaxFaults /\ next_id \in 1 .. MaxId + 1
  BY <1>1, FS_EmptySet, BoundsAssumption
<1>5. FilesAreFiles
  BY <1>1, <1>3, <1>4 DEF FilesAreFiles
<1>6. DiskLagsBehind
  BY <1>1, <1>3 DEF DiskLagsBehind
<1>7. KeysAreGivenOnce
  BY <1>1, <1>2, <1>3 DEF KeysAreGivenOnce
<1>8. IndexesPoint
  BY <1>1 DEF IndexesPoint, PointsInto
<1>9. StoredIsLogged
  BY <1>1, <1>2 DEF StoredIsLogged
<1>10. IndexIsComplete
  BY <1>1, <1>2 DEF IndexIsComplete, Indexed
<1> QED
  BY <1>5, <1>6, <1>7, <1>8, <1>9, <1>10 DEF TableIsSound

(* Until a page could not be written, every step keeps the table sound.    *)
LEMMA NextIsSound ==
  ASSUME TableIsSound, [Next]_vars, "write" \notin faults'
  PROVE  TableIsSound'
<1>1. CASE UNCHANGED vars
  BY <1>1 DEF vars, TableIsSound, FilesAreFiles, DiskLagsBehind, KeysAreGivenOnce, IndexesPoint,
     StoredIsLogged, IndexIsComplete
<1>2. ASSUME NEW v \in Values, NEW fail \in Outcomes, table_insert(v, fail)
      PROVE  TableIsSound'
  BY <1>2, InsertKeepsInv
<1>3. ASSUME NEW id \in 1 .. MaxId, NEW v \in Values, NEW fail \in Outcomes, table_update(id, v, fail)
      PROVE  TableIsSound'
  BY <1>3, UpdateKeepsInv
<1>4. ASSUME NEW id \in 1 .. MaxId, NEW fail \in Outcomes, table_delete(id, fail)
      PROVE  TableIsSound'
  BY <1>4, DeleteKeepsInv
<1>5. ASSUME NEW p \in DOMAIN pages, WriteBack(p)
      PROVE  TableIsSound'
  BY <1>5, WriteBackKeepsInv
<1>6. ASSUME NEW p \in DOMAIN pages, LosePage(p)
      PROVE  FALSE
  BY <1>6 DEF LosePage, Outcome
<1>7. ASSUME NEW bad, table_flush(bad)
      PROVE  TableIsSound'
  BY <1>7, FlushKeepsInv
<1>8. ASSUME NEW done \in 0 .. Len(CloseOrder), NEW bad, NEW saved \in BOOLEAN,
             table_close(done, bad, saved)
      PROVE  TableIsSound'
  BY <1>8, CloseKeepsInv
<1>9. CASE Crash
  <2>1. /\ up /\ ~up' /\ up' \in BOOLEAN /\ pages' = <<>> /\ index' = {} /\ UNCHANGED <<log, next_id>>
        /\ disk' = disk /\ index_file' = index_file /\ Outcome({"crash"})
    BY <1>9 DEF Crash
  <2>2. {"crash"} \cap {"save", "crash"} # {}
    OBVIOUS
  <2> QED
    BY <2>1, <2>2, DownKeepsInv
<1>10. CASE table_open
  BY <1>10, OpenKeepsInv
<1> QED
  BY <1>1, <1>2, <1>3, <1>4, <1>5, <1>6, <1>7, <1>8, <1>9, <1>10 DEF Next
-----------------------------------------------------------------------------
(* The shape of the table, whatever fails                                  *)

(* A file of pages that were in memory or on disk.                         *)
LEMMA MixedFile ==
  ASSUME TableHasShape, up, NEW g, g \in Seq(Seq(Row)), Len(g) = Len(pages),
         \A p \in 1 .. Len(pages) : g[p] = disk[p] \/ g[p] = pages[p]
  PROVE  IsFile(g) /\ ImagesAreLogged(g)
<1>1. /\ IsFile(pages) /\ IsFile(disk) /\ Len(disk) = Len(pages)
      /\ ImagesAreLogged(pages) /\ ImagesAreLogged(disk)
  BY DEF TableHasShape, FilesAreFiles
<1>2. \A p \in 1 .. Len(pages) : Len(pages[p]) <= MaxRecords /\ Len(disk[p]) <= MaxRecords
  BY <1>1 DEF IsFile
<1>3. IsFile(g)
  BY <1>2 DEF IsFile
<1>4. ASSUME NEW p \in 1 .. Len(g), NEW s \in 1 .. Len(g[p])
      PROVE  \E x \in log : x[2] = g[p][s]
  <2>1. CASE g[p] = disk[p]
    BY <2>1, <1>1 DEF ImagesAreLogged
  <2>2. CASE g[p] = pages[p]
    BY <2>2, <1>1 DEF ImagesAreLogged
  <2> QED
    BY <2>1, <2>2
<1> QED
  BY <1>3, <1>4 DEF ImagesAreLogged

(* A place of a file is a place of one with at least as many pages.        *)
LEMMA PlacesStay ==
  ASSUME NEW idx, NEW old, NEW new, IsFile(old), IsFile(new), Len(old) <= Len(new),
         PlacesAreIn(idx, old)
  PROVE  PlacesAreIn(idx, new)
<1>1. Len(old) \in Nat /\ Len(new) \in Nat
  BY PagesHaveLength
<1> QED
  BY <1>1 DEF PlacesAreIn

(* table_insert                                                            *)
LEMMA InsertKeepsShape ==
  ASSUME TableHasShape, NEW v \in Values, NEW fail \in Outcomes, table_insert(v, fail)
  PROVE  TableHasShape'
<1> DEFINE r == Record(next_id, v)
<1>1. /\ up /\ up' /\ next_id' = next_id + 1 /\ next_id \in 1 .. MaxId
      /\ r \in Row
      /\ Same(disk, disk') /\ Len(disk') = Len(pages')
  BY InsertChangesPages
<1>2. /\ IsFile(pages) /\ IsFile(disk) /\ up \in BOOLEAN
      /\ PlacesAreIn(index, pages) /\ (index_file # Torn => PlacesAreIn(index_file, disk))
      /\ ImagesAreLogged(pages) /\ ImagesAreLogged(disk) /\ FilesAreFiles
  BY DEF TableHasShape, FilesAreFiles
<1>3. Outcome({fail} \ {"ok"}) /\ UNCHANGED <<index_file, up>>
  BY DEF table_insert
<1>4. /\ IsFiniteSet(faults') /\ faults' \subseteq FaultKinds /\ Cardinality(faults') <= MaxFaults
  BY <1>2, <1>3, OutcomeCounts
<1>5. /\ IsFile(disk') /\ Len(disk) <= Len(disk')
      /\ \A p \in 1 .. Len(disk') : \A s \in 1 .. Len(disk'[p]) :
           p \in 1 .. Len(disk) /\ s \in 1 .. Len(disk[p]) /\ disk'[p][s] = disk[p][s]
  BY <1>1, <1>2, SameKeeps DEF Same
<1>6. next_id' \in 1 .. MaxId + 1
  BY <1>1, BoundsAssumption
<1>7. ASSUME Same(pages, pages'), index' = index, log \subseteq log'
      PROVE  /\ IsFile(pages') /\ PlacesAreIn(index', pages') /\ log \subseteq log'
             /\ \A p \in 1 .. Len(pages') : \A s \in 1 .. Len(pages'[p]) :
                  \E x \in log' : x[2] = pages'[p][s]
  <2>1. /\ IsFile(pages') /\ Len(pages) <= Len(pages')
        /\ \A p \in 1 .. Len(pages') : \A s \in 1 .. Len(pages'[p]) :
             p \in 1 .. Len(pages) /\ s \in 1 .. Len(pages[p]) /\ pages'[p][s] = pages[p][s]
    BY <1>2, <1>7, SameKeeps DEF Same
  <2>2. PlacesAreIn(index', pages')
    BY <2>1, <1>2, <1>7, PlacesStay
  <2>3. \A p \in 1 .. Len(pages) : \A s \in 1 .. Len(pages[p]) : \E x \in log' : x[2] = pages[p][s]
    BY <1>2, <1>7 DEF ImagesAreLogged
  <2>4. ASSUME NEW p \in 1 .. Len(pages'), NEW s \in 1 .. Len(pages'[p])
        PROVE  \E x \in log' : x[2] = pages'[p][s]
    <3>1. p \in 1 .. Len(pages) /\ s \in 1 .. Len(pages[p]) /\ pages'[p][s] = pages[p][s]
      BY <2>1
    <3> QED
      BY <3>1, <2>3
  <2> QED
    BY <2>1, <2>2, <2>4, <1>7
<1>8. ASSUME NEW p0, NEW s0, Added(pages, pages', p0, s0, r),
             index' = index \/ index' = index \cup {<<next_id, p0, s0>>},
             log' = log \cup {<<next_id, r>>}
      PROVE  /\ IsFile(pages') /\ PlacesAreIn(index', pages') /\ log \subseteq log'
             /\ \A p \in 1 .. Len(pages') : \A s \in 1 .. Len(pages'[p]) :
                  \E x \in log' : x[2] = pages'[p][s]
  <2> HIDE DEF r
  <2>1. /\ IsFile(pages') /\ Len(pages) <= Len(pages')
        /\ p0 \in 1 .. Len(pages') /\ s0 \in 1 .. Len(pages'[p0])
    BY <1>8 DEF Added
  <2>2. \A p \in 1 .. Len(pages') : \A s \in 1 .. Len(pages'[p]) :
          \/ pages'[p][s] = r
          \/ p \in 1 .. Len(pages) /\ s \in 1 .. Len(pages[p]) /\ pages'[p][s] = pages[p][s]
    BY <1>2, <1>8, AddedKeeps
  <2>3. PlacesAreIn(index, pages')
    BY <2>1, <1>2, PlacesStay
  <2>4. p0 \in Nat /\ s0 \in Nat /\ s0 \in 1 .. MaxRecords
    <3>1. Len(pages'[p0]) \in Nat /\ Len(pages'[p0]) <= MaxRecords /\ Len(pages') \in Nat
      BY <2>1, PagesHaveLength
    <3> QED
      BY <3>1, <2>1, RecordsAssumption
  <2>5. /\ <<next_id, p0, s0>> \in (1 .. MaxId) \X Nat \X Nat
        /\ <<next_id, p0, s0>>[2] = p0 /\ <<next_id, p0, s0>>[3] = s0
    BY <2>4, <1>1
  <2>6. \A e \in index' : e \in index \/ e = <<next_id, p0, s0>>
    BY <1>8
  <2>7. PlacesAreIn(index', pages')
    BY <2>1, <2>3, <2>4, <2>5, <2>6, Zenon DEF PlacesAreIn
  <2>8. <<next_id, r>> \in log' /\ <<next_id, r>>[2] = r /\ log \subseteq log'
    BY <1>8
  <2>9. \A p \in 1 .. Len(pages) : \A s \in 1 .. Len(pages[p]) : \E x \in log' : x[2] = pages[p][s]
    BY <2>8, <1>2 DEF ImagesAreLogged
  <2>10. ASSUME NEW p \in 1 .. Len(pages'), NEW s \in 1 .. Len(pages'[p])
         PROVE  \E x \in log' : x[2] = pages'[p][s]
    <3>1. CASE pages'[p][s] = r
      BY <3>1, <2>8
    <3>2. CASE p \in 1 .. Len(pages) /\ s \in 1 .. Len(pages[p]) /\ pages'[p][s] = pages[p][s]
      BY <3>2, <2>9
    <3> QED
      BY <3>1, <3>2, <2>2
  <2> QED
    BY <2>1, <2>7, <2>8, <2>10
<1>9. /\ IsFile(pages') /\ PlacesAreIn(index', pages') /\ log \subseteq log'
      /\ \A p \in 1 .. Len(pages') : \A s \in 1 .. Len(pages'[p]) :
           \E x \in log' : x[2] = pages'[p][s]
  <2>1. \/ Same(pages, pages') /\ index' = index /\ log \subseteq log'
        \/ \E p0, s0 : /\ Added(pages, pages', p0, s0, Record(next_id, v))
                       /\ index' = IF fail = "index" \/ btree_search(next_id) # {}
                                   THEN index ELSE index \cup {<<next_id, p0, s0>>}
                       /\ log' = log \cup {<<next_id, Record(next_id, v)>>}
    BY InsertChangesPages
  <2> QED
    BY <2>1, <1>7, <1>8
<1>10. ImagesAreLogged(pages)' /\ ImagesAreLogged(disk)'
  <2>1. \A p \in 1 .. Len(disk) : \A s \in 1 .. Len(disk[p]) : \E x \in log' : x[2] = disk[p][s]
    BY <1>2, <1>9 DEF ImagesAreLogged
  <2>2. ASSUME NEW p \in 1 .. Len(disk'), NEW s \in 1 .. Len(disk'[p])
        PROVE  \E x \in log' : x[2] = disk'[p][s]
    <3>1. p \in 1 .. Len(disk) /\ s \in 1 .. Len(disk[p]) /\ disk'[p][s] = disk[p][s]
      BY <1>5
    <3> QED
      BY <3>1, <2>1
  <2> QED
    BY <2>2, <1>9 DEF ImagesAreLogged
<1>11. index_file' # Torn => PlacesAreIn(index_file', disk')
  BY <1>2, <1>3, <1>5, PlacesStay
<1>12. FilesAreFiles'
  BY <1>1, <1>2, <1>3, <1>4, <1>5, <1>6, <1>9 DEF FilesAreFiles
<1> QED
  BY <1>1, <1>9, <1>10, <1>11, <1>12 DEF TableHasShape

(* What the index finds is a slot in use.                                  *)
LEMMA FoundIsInUse ==
  ASSUME TableHasShape, NEW id, NEW e, Found(id, e)
  PROVE  /\ e \in index /\ id \in 1 .. MaxId
         /\ e[2] \in 1 .. Len(pages) /\ e[3] \in 1 .. Len(pages[e[2]])
         /\ pages[e[2]][e[3]] \in Row
<1>1. IsFile(pages) /\ PlacesAreIn(index, pages)
  BY DEF TableHasShape, FilesAreFiles
<1>2. e \in index /\ e[1] = id
  BY DEF Found, btree_search
<1>3. e \in (1 .. MaxId) \X Nat \X Nat /\ e[2] \in 1 .. Len(pages) /\ e[3] \in 1 .. MaxRecords
  BY <1>1, <1>2 DEF PlacesAreIn
<1>4. id \in 1 .. MaxId /\ e[3] \in Nat /\ e[3] >= 1
  BY <1>2, <1>3, RecordsAssumption
<1>5. e[3] <= Len(pages[e[2]])
  BY DEF Found, page_get_record
<1>6. Len(pages[e[2]]) \in Nat
  BY <1>1, <1>3, PagesHaveLength
<1>7. e[3] \in 1 .. Len(pages[e[2]])
  BY <1>4, <1>5, <1>6
<1> QED
  BY <1>1, <1>2, <1>3, <1>4, <1>7, PagesHaveLength

(* A slot in use is overwritten by a logged image, whatever key it had.    *)
LEMMA OverwriteKeepsShape ==
  ASSUME TableHasShape, up, NEW id, NEW r \in Row,
         NEW p0 \in 1 .. Len(pages), NEW s0 \in 1 .. Len(pages[p0]),
         Rewritten(pages, pages', p0, s0, r),
         log' = log \cup {<<id, r>>},
         index' \subseteq index,
         UNCHANGED <<disk, index_file, next_id, up, faults>>
  PROVE  TableHasShape'
<1>1. /\ IsFile(pages) /\ IsFile(disk) /\ Len(disk) = Len(pages) /\ Len(pages) \in Nat
      /\ PlacesAreIn(index, pages) /\ ImagesAreLogged(pages) /\ ImagesAreLogged(disk)
  BY PagesHaveLength DEF TableHasShape, FilesAreFiles
<1>2. /\ IsFile(pages') /\ Len(pages') = Len(pages)
      /\ \A p \in 1 .. Len(pages) :
           /\ Len(pages'[p]) = Len(pages[p])
           /\ \A s \in 1 .. Len(pages[p]) :
                pages'[p][s] = IF p = p0 /\ s = s0 THEN r ELSE pages[p][s]
  BY DEF Rewritten
<1>3. <<id, r>> \in log' /\ <<id, r>>[2] = r /\ log \subseteq log'
  OBVIOUS
<1>4. /\ \A p \in 1 .. Len(pages) : \A s \in 1 .. Len(pages[p]) : \E x \in log' : x[2] = pages[p][s]
      /\ \A p \in 1 .. Len(disk) : \A s \in 1 .. Len(disk[p]) : \E x \in log' : x[2] = disk[p][s]
  BY <1>1, <1>3 DEF ImagesAreLogged
<1>5. \A p \in 1 .. Len(pages) : \A s \in 1 .. Len(pages[p]) : \E x \in log' : x[2] = pages'[p][s]
  <2> TAKE p \in 1 .. Len(pages)
  <2> TAKE s \in 1 .. Len(pages[p])
  <2>1. CASE p = p0 /\ s = s0
    BY <2>1, <1>2, <1>3
  <2>2. CASE ~(p = p0 /\ s = s0)
    BY <2>2, <1>2, <1>4
  <2> QED
    BY <2>1, <2>2
<1>6. ImagesAreLogged(pages)' /\ ImagesAreLogged(disk)'
  BY <1>2, <1>4, <1>5 DEF ImagesAreLogged
<1>7. PlacesAreIn(index', pages')
  BY <1>1, <1>2 DEF PlacesAreIn
<1>8. FilesAreFiles' /\ (index_file' # Torn => PlacesAreIn(index_file', disk'))
  BY <1>2 DEF TableHasShape, FilesAreFiles, PlacesAreIn
<1> QED
  BY <1>1, <1>2, <1>6, <1>7, <1>8 DEF TableHasShape

(* A call that fails before it has changed anything.                       *)
LEMMA FailureKeepsShape ==
  ASSUME TableHasShape, UNCHANGED <<pages, disk, index, index_file, log, next_id, up>>,
         NEW kinds, Outcome(kinds)
  PROVE  TableHasShape'
<1>1. /\ IsFiniteSet(faults') /\ faults' \subseteq FaultKinds /\ Cardinality(faults') <= MaxFaults
  BY OutcomeCounts DEF TableHasShape
<1>2. FilesAreFiles'
  BY <1>1 DEF TableHasShape, FilesAreFiles
<1> QED
  BY <1>2 DEF TableHasShape, PlacesAreIn, ImagesAreLogged

(* table_update                                                            *)
LEMMA UpdateKeepsShape ==
  ASSUME TableHasShape, NEW id, NEW v \in Values, NEW fail, table_update(id, v, fail)
  PROVE  TableHasShape'
<1>1. PICK e \in index :
        /\ up /\ Found(id, e)
        /\ Outcome({fail} \ {"ok"})
        /\ IF fail = "ok"
           THEN /\ log' = log \cup {<<id, Record(id, v)>>}
                /\ pages' = [pages EXCEPT ![e[2]][e[3]] = Record(id, v)]
           ELSE UNCHANGED <<log, pages>>
        /\ UNCHANGED <<disk, index, index_file, next_id, up>>
  BY DEF table_update
<1>2. id \in 1 .. MaxId /\ e[2] \in 1 .. Len(pages) /\ e[3] \in 1 .. Len(pages[e[2]])
  BY <1>1, FoundIsInUse
<1>3. Record(id, v) \in Row /\ IsFile(pages)
  BY <1>2 DEF Record, Row, TableHasShape, FilesAreFiles
<1>4. CASE fail = "ok"
  <2>1. UNCHANGED faults
    BY <1>1, <1>4 DEF Outcome
  <2>2. index' \subseteq index
    BY <1>1
  <2>3. Rewritten(pages, [pages EXCEPT ![e[2]][e[3]] = Record(id, v)], e[2], e[3], Record(id, v))
    BY <1>2, <1>3, RecordWritten
  <2>4. /\ up /\ UNCHANGED <<disk, index_file, next_id, up>> /\ log' = log \cup {<<id, Record(id, v)>>}
        /\ Rewritten(pages, pages', e[2], e[3], Record(id, v))
    BY <2>3, <1>1, <1>4
  <2> QED
    BY <2>1, <2>2, <2>4, <1>2, <1>3, OverwriteKeepsShape
<1>5. CASE fail # "ok"
  BY <1>1, <1>5, FailureKeepsShape
<1> QED
  BY <1>4, <1>5

(* table_delete                                                            *)
LEMMA DeleteKeepsShape ==
  ASSUME TableHasShape, NEW id, NEW fail, table_delete(id, fail)
  PROVE  TableHasShape'
<1>1. PICK e \in index :
        /\ up /\ Found(id, e)
        /\ Outcome({fail} \ {"ok"})
        /\ IF fail = "ok"
           THEN /\ log' = log \cup {<<id, DeletedPages(e)[e[2]][e[3]]>>}
                /\ pages' = DeletedPages(e)
                /\ index' = index \ {e}
           ELSE UNCHANGED <<log, pages, index>>
        /\ UNCHANGED <<disk, index_file, next_id, up>>
  BY DEF table_delete
<1>2. /\ e[2] \in 1 .. Len(pages) /\ e[3] \in 1 .. Len(pages[e[2]])
      /\ pages[e[2]][e[3]] \in Row
  BY <1>1, FoundIsInUse
<1> DEFINE r == [pages[e[2]][e[3]] EXCEPT !.is_deleted = TRUE]
<1>3. r \in Row
  BY <1>2 DEF Row
<1>4. DeletedPages(e) = [pages EXCEPT ![e[2]][e[3]] = r]
  BY DEF DeletedPages
<1> HIDE DEF r
<1>5. Rewritten(pages, DeletedPages(e), e[2], e[3], r)
  <2>1. IsFile(pages)
    BY DEF TableHasShape, FilesAreFiles
  <2>2. Rewritten(pages, [pages EXCEPT ![e[2]][e[3]] = r], e[2], e[3], r)
    BY <2>1, <1>2, <1>3, RecordWritten
  <2> QED
    BY <2>2, <1>4
<1>6. CASE fail = "ok"
  <2>1. UNCHANGED faults
    BY <1>1, <1>6 DEF Outcome
  <2>2. DeletedPages(e)[e[2]][e[3]] = r
    BY <1>2, <1>5 DEF Rewritten
  <2>3. /\ up /\ UNCHANGED <<disk, index_file, next_id, up>>
        /\ index' \subseteq index /\ log' = log \cup {<<id, r>>}
        /\ Rewritten(pages, pages', e[2], e[3], r)
    BY <2>2, <1>1, <1>5, <1>6
  <2> QED
    BY <2>1, <2>3, <1>2, <1>3, OverwriteKeepsShape
<1>7. CASE fail # "ok"
  BY <1>1, <1>7, FailureKeepsShape
<1> QED
  BY <1>6, <1>7

(* One page of one copy of the file is replaced by the other copy's.       *)
LEMMA PageReplaced ==
  ASSUME NEW f, NEW g, NEW p \in 1 .. Len(f), IsFile(f), IsFile(g), Len(g) = Len(f)
  PROVE  LET h == [f EXCEPT ![p] = g[p]]
         IN  /\ h \in Seq(Seq(Row)) /\ Len(h) = Len(f)
             /\ \A q \in 1 .. Len(f) : h[q] = f[q] \/ h[q] = g[q]
<1>1. f \in Seq(Seq(Row)) /\ g \in Seq(Seq(Row))
  BY DEF IsFile
<1>2. g[p] \in Seq(Row)
  BY <1>1
<1> QED
  BY <1>1, <1>2

(* The pages move between memory and disk, page by page.                   *)
LEMMA MoveKeepsShape ==
  ASSUME TableHasShape, up, UNCHANGED <<index, index_file, log, next_id, up>>,
         IsFile(pages'), IsFile(disk'), Len(pages') = Len(pages), Len(disk') = Len(disk),
         ImagesAreLogged(pages'), ImagesAreLogged(disk'),
         NEW kinds, Outcome(kinds)
  PROVE  TableHasShape'
<1>1. /\ IsFiniteSet(faults') /\ faults' \subseteq FaultKinds /\ Cardinality(faults') <= MaxFaults
  BY OutcomeCounts DEF TableHasShape
<1>2. FilesAreFiles'
  BY <1>1 DEF TableHasShape, FilesAreFiles
<1>3. PlacesAreIn(index', pages') /\ (index_file' # Torn => PlacesAreIn(index_file', disk'))
  BY DEF TableHasShape, PlacesAreIn
<1>4. ImagesAreLogged(pages)' /\ ImagesAreLogged(disk)'
  BY DEF ImagesAreLogged
<1> QED
  BY <1>2, <1>3, <1>4 DEF TableHasShape

(* The buffer pool writes a page back, or loses it.                        *)
LEMMA EvictionKeepsShape ==
  ASSUME TableHasShape, NEW p \in DOMAIN pages, WriteBack(p) \/ LosePage(p)
  PROVE  TableHasShape'
<1>1. up /\ IsFile(pages) /\ IsFile(disk) /\ Len(disk) = Len(pages)
  BY DEF TableHasShape, FilesAreFiles, WriteBack, LosePage
<1>2. p \in 1 .. Len(pages) /\ p \in 1 .. Len(disk)
  BY <1>1 DEF IsFile
<1>3. ImagesAreLogged(pages) /\ ImagesAreLogged(disk) /\ pages \in Seq(Seq(Row)) /\ disk \in Seq(Seq(Row))
  BY <1>1 DEF TableHasShape, IsFile
<1>4. CASE WriteBack(p)
  <2>1. /\ disk' = [disk EXCEPT ![p] = pages[p]]
        /\ UNCHANGED <<pages, index, index_file, log, next_id, up, faults>>
    BY <1>4 DEF WriteBack
  <2>2. /\ disk' \in Seq(Seq(Row)) /\ Len(disk') = Len(pages)
        /\ \A q \in 1 .. Len(pages) : disk'[q] = disk[q] \/ disk'[q] = pages[q]
    BY <2>1, <1>1, <1>2, PageReplaced
  <2>3. IsFile(disk') /\ ImagesAreLogged(disk')
    BY <2>2, <1>1, MixedFile
  <2>4. Outcome({})
    BY <2>1 DEF Outcome, TableHasShape, FilesAreFiles
  <2>5. IsFile(pages') /\ ImagesAreLogged(pages') /\ Len(pages') = Len(pages) /\ Len(disk') = Len(disk)
    BY <2>1, <2>2, <1>1, <1>3
  <2> QED
    BY <2>1, <2>3, <2>4, <2>5, <1>1, MoveKeepsShape
<1>5. CASE LosePage(p)
  <2>1. /\ pages' = [pages EXCEPT ![p] = disk[p]] /\ Outcome({"write"})
        /\ UNCHANGED <<disk, index, index_file, log, next_id, up>>
    BY <1>5 DEF LosePage
  <2>2. /\ pages' \in Seq(Seq(Row)) /\ Len(pages') = Len(pages)
        /\ \A q \in 1 .. Len(pages) : pages'[q] = disk[q] \/ pages'[q] = pages[q]
    BY <2>1, <1>1, <1>2, PageReplaced
  <2>3. IsFile(pages') /\ ImagesAreLogged(pages')
    BY <2>2, <1>1, MixedFile
  <2>4. IsFile(disk') /\ ImagesAreLogged(disk') /\ Len(disk') = Len(disk)
    BY <2>1, <1>1, <1>3
  <2> QED
    BY <2>1, <2>2, <2>3, <2>4, <1>1, MoveKeepsShape
<1> QED
  BY <1>4, <1>5

(* What a flush leaves on disk, whichever writes failed.                   *)
LEMMA FlushedHasShape ==
  ASSUME TableHasShape, up, NEW bad
  PROVE  /\ IsFile(FlushedBut(bad)) /\ ImagesAreLogged(FlushedBut(bad))
         /\ Len(FlushedBut(bad)) = Len(pages)
<1>1. /\ IsFile(FlushedBut(bad)) /\ Len(FlushedBut(bad)) = Len(pages)
      /\ \A p \in 1 .. Len(pages) : FlushedBut(bad)[p] = disk[p] \/ FlushedBut(bad)[p] = pages[p]
  BY FlushedIsAFile
<1>2. FlushedBut(bad) \in Seq(Seq(Row))
  BY <1>1 DEF IsFile
<1> QED
  BY <1>1, <1>2, MixedFile

(* table_flush                                                             *)
LEMMA FlushKeepsShape ==
  ASSUME TableHasShape, NEW bad, table_flush(bad)
  PROVE  TableHasShape'
<1>1. /\ up /\ Outcome(WriteFails(bad)) /\ disk' = FlushedBut(bad)
      /\ UNCHANGED <<pages, index, index_file, log, next_id, up>>
  BY DEF table_flush
<1>2. IsFile(disk') /\ ImagesAreLogged(disk') /\ Len(disk') = Len(pages)
  BY <1>1, FlushedHasShape
<1>3. /\ IsFile(pages') /\ ImagesAreLogged(pages') /\ Len(pages') = Len(pages)
      /\ Len(disk') = Len(disk)
  BY <1>1, <1>2 DEF TableHasShape, FilesAreFiles
<1> QED
  BY <1>1, <1>2, <1>3, MoveKeepsShape

(* The table is closed or the process dies.                                *)
LEMMA DownKeepsShape ==
  ASSUME TableHasShape, up, ~up', up' \in BOOLEAN, pages' = <<>>, index' = {}, UNCHANGED <<log, next_id>>,
         NEW bad, disk' = disk \/ disk' = FlushedBut(bad),
         index_file' = Torn \/ index_file' = index_file \/ index_file' = index,
         NEW kinds, Outcome(kinds)
  PROVE  TableHasShape'
<1>1. /\ IsFiniteSet(faults') /\ faults' \subseteq FaultKinds /\ Cardinality(faults') <= MaxFaults
  BY OutcomeCounts DEF TableHasShape
<1>2. /\ IsFile(disk) /\ ImagesAreLogged(disk) /\ Len(disk) = Len(pages)
      /\ PlacesAreIn(index, pages) /\ (index_file # Torn => PlacesAreIn(index_file, disk))
  BY DEF TableHasShape, FilesAreFiles
<1>3. /\ IsFile(FlushedBut(bad)) /\ ImagesAreLogged(FlushedBut(bad))
      /\ Len(FlushedBut(bad)) = Len(pages)
  BY FlushedHasShape
<1>4. IsFile(disk') /\ Len(disk') = Len(pages) /\ ImagesAreLogged(disk')
  BY <1>2, <1>3
<1>5. <<>> \in Seq(Seq(Row)) /\ Len(<<>>) = 0 /\ \A p : ~(p \in 1 .. 0)
  OBVIOUS
<1>6. IsFile(pages') /\ ImagesAreLogged(pages') /\ PlacesAreIn(index', pages')
  BY <1>5 DEF IsFile, ImagesAreLogged, PlacesAreIn
<1>7. index_file' # Torn => PlacesAreIn(index_file', disk')
  BY <1>2, <1>4 DEF PlacesAreIn
<1>8. ImagesAreLogged(pages)' /\ ImagesAreLogged(disk)'
  BY <1>4, <1>6 DEF ImagesAreLogged
<1>9. FilesAreFiles'
  BY <1>1, <1>4, <1>6 DEF TableHasShape, FilesAreFiles
<1> QED
  BY <1>6, <1>7, <1>8, <1>9 DEF TableHasShape

(* table_open                                                              *)
LEMMA OpenKeepsShape ==
  ASSUME TableHasShape, table_open
  PROVE  TableHasShape'
<1>1. /\ ~up /\ index_file # Torn /\ pages' = disk /\ index' = index_file
      /\ next_id' = MaxIdOf(disk) + 1 /\ up' = TRUE
      /\ UNCHANGED <<disk, index_file, log, faults>>
  BY DEF table_open
<1>2. IsFile(disk) /\ PlacesAreIn(index_file, disk) /\ ImagesAreLogged(disk)
  BY <1>1 DEF TableHasShape, FilesAreFiles
<1>3. MaxIdOf(disk) \in 0 .. MaxId
  BY <1>2, MaxIdIsGreatest
<1>4. next_id' \in 1 .. MaxId + 1
  BY <1>1, <1>3, BoundsAssumption
<1>5. FilesAreFiles'
  BY <1>1, <1>2, <1>4 DEF TableHasShape, FilesAreFiles
<1>6. ImagesAreLogged(pages)' /\ ImagesAreLogged(disk)'
  BY <1>1, <1>2 DEF ImagesAreLogged
<1> QED
  BY <1>1, <1>2, <1>5, <1>6 DEF TableHasShape

(* Every step keeps the shape.                                             *)
LEMMA NextHasShape ==
  ASSUME TableHasShape, [Next]_vars
  PROVE  TableHasShape'
<1>1. CASE UNCHANGED vars
  <2>1. UNCHANGED <<pages, disk, index, index_file, log, next_id, up>> /\ Outcome({})
    BY <1>1 DEF vars, Outcome, TableHasShape, FilesAreFiles
  <2> QED
    BY <2>1, FailureKeepsShape
<1>2. ASSUME NEW v \in Values, NEW fail \in Outcomes, table_insert(v, fail)
      PROVE  TableHasShape'
  BY <1>2, InsertKeepsShape
<1>3. ASSUME NEW id \in 1 .. MaxId, NEW v \in Values, NEW fail \in Outcomes, table_update(id, v, fail)
      PROVE  TableHasShape'
  BY <1>3, UpdateKeepsShape
<1>4. ASSUME NEW id \in 1 .. MaxId, NEW fail \in Outcomes, table_delete(id, fail)
      PROVE  TableHasShape'
  BY <1>4, DeleteKeepsShape
<1>5. ASSUME NEW p \in DOMAIN pages, WriteBack(p) \/ LosePage(p)
      PROVE  TableHasShape'
  BY <1>5, EvictionKeepsShape
<1>6. ASSUME NEW bad, table_flush(bad)
      PROVE  TableHasShape'
  BY <1>6, FlushKeepsShape
<1>7. ASSUME NEW done \in 0 .. Len(CloseOrder), NEW bad, NEW saved \in BOOLEAN,
             table_close(done, bad, saved)
      PROVE  TableHasShape'
  <2>1. /\ up /\ ~up' /\ up' \in BOOLEAN /\ pages' = <<>> /\ index' = {} /\ UNCHANGED <<log, next_id>>
        /\ disk' = disk \/ disk' = FlushedBut(bad)
        /\ index_file' = Torn \/ index_file' = index_file \/ index_file' = index
        /\ \E kinds : Outcome(kinds)
    BY <1>7, CloseIsDown
  <2> QED
    BY <2>1, DownKeepsShape
<1>8. CASE Crash
  <2>1. /\ up /\ ~up' /\ up' \in BOOLEAN /\ pages' = <<>> /\ index' = {} /\ UNCHANGED <<log, next_id>>
        /\ disk' = disk /\ index_file' = index_file /\ Outcome({"crash"})
    BY <1>8 DEF Crash
  <2> QED
    BY <2>1, DownKeepsShape
<1>9. CASE table_open
  BY <1>9, OpenKeepsShape
<1> QED
  BY <1>1, <1>2, <1>3, <1>4, <1>5, <1>6, <1>7, <1>8, <1>9 DEF Next

(* What failed is never forgotten.                                         *)
LEMMA FaultsStay ==
  ASSUME [Next]_vars
  PROVE  faults \subseteq faults'
<1> QED
  BY DEF Next, vars, table_insert, table_update, table_delete, WriteBack, LosePage, table_flush,
     table_close, Crash, table_open, Outcome

(* The invariant: a table whose pages were all written so far was sound    *)
(* before the step.                                                        *)
LEMMA NextTableInv ==
  ASSUME TableInv, [Next]_vars
  PROVE  TableInv'
<1>1. TableHasShape'
  BY NextHasShape DEF TableInv
<1>2. ASSUME "write" \notin faults'
      PROVE  TableIsSound'
  <2>1. TableIsSound
    BY <1>2, FaultsStay DEF TableInv
  <2> QED
    BY <2>1, <1>2, NextIsSound
<1> QED
  BY <1>1, <1>2 DEF TableInv

(* The inductive invariant of table.c over its pages, its index and its    *)
(* log, through failing calls, stops, crashes and starts: its shape        *)
(* whatever fails, and keys, index and log until a page could not be       *)
(* written.                                                                *)
THEOREM TableInvHolds == Spec => []TableInv
<1>1. Init => TableInv
  BY InitTableInv, SoundHasShape DEF TableInv
<1> QED
  BY <1>1, NextTableInv, PTL DEF Spec
-----------------------------------------------------------------------------
(* Keys, index and log                                                     *)

(* A set of slots and the set of what is in them have one size, when no    *)
(* two of the slots hold the same.                                         *)
LEMMA SlotsCount ==
  ASSUME NEW file, IsFile(file), NEW S \in SUBSET Slots(file), NEW T, NEW f \in [S -> T],
         \A t \in T : \E x \in S : f[x] = t,
         \A x, y \in S : f[x] = f[y] => x = y
  PROVE  Cardinality(T) = Cardinality(S)
<1>1. IsFiniteSet(S)
  <2>1. IsFiniteSet(1 .. Len(file)) /\ IsFiniteSet(1 .. MaxRecords)
    BY PagesHaveLength, RecordsAssumption, FS_Interval
  <2>2. IsFiniteSet((1 .. Len(file)) \X (1 .. MaxRecords))
    BY <2>1, FS_Product
  <2>3. S \in SUBSET ((1 .. Len(file)) \X (1 .. MaxRecords))
    BY DEF Slots
  <2> QED
    BY <2>2, <2>3, FS_Subset
<1>2. f \in Bijection(S, T)
  BY DEF Bijection, Injection, Surjection, IsInjective
<1>3. ExistsBijection(S, T)
  BY <1>2 DEF ExistsBijection
<1> QED
  BY <1>1, <1>3, FS_Bijection

(* The slots of a file are the places its records are at.                  *)
LEMMA SlotsOfFile ==
  ASSUME NEW file, IsFile(file)
  PROVE  /\ \A x \in Slots(file) : /\ x[1] \in 1 .. Len(file) /\ x[2] \in 1 .. Len(file[x[1]])
                                   /\ x = <<x[1], x[2]>>
         /\ \A p \in 1 .. Len(file) : \A s \in 1 .. Len(file[p]) :
              /\ <<p, s>> \in Slots(file) /\ <<p, s>>[1] = p /\ <<p, s>>[2] = s
<1>1. /\ \A p \in 1 .. Len(file) : Len(file[p]) \in Nat /\ Len(file[p]) <= MaxRecords
      /\ Len(file) \in Nat /\ MaxRecords \in Nat
  BY PagesHaveLength, RecordsAssumption
<1>2. ASSUME NEW x \in Slots(file)
      PROVE  /\ x[1] \in 1 .. Len(file) /\ x[2] \in 1 .. Len(file[x[1]])
             /\ x = <<x[1], x[2]>>
  <2>1. x \in (1 .. Len(file)) \X (1 .. MaxRecords) /\ x[2] <= Len(file[x[1]])
    BY <1>2 DEF Slots
  <2>2. x = <<x[1], x[2]>> /\ x[1] \in 1 .. Len(file) /\ x[2] \in 1 .. MaxRecords
    BY <2>1
  <2> QED
    BY <2>1, <2>2, <1>1
<1>3. ASSUME NEW p \in 1 .. Len(file), NEW s \in 1 .. Len(file[p])
      PROVE  <<p, s>> \in Slots(file) /\ <<p, s>>[1] = p /\ <<p, s>>[2] = s
  <2>1. s \in 1 .. MaxRecords /\ s <= Len(file[p])
    BY <1>1
  <2>2. <<p, s>>[1] = p /\ <<p, s>>[2] = s
    OBVIOUS
  <2> QED
    BY <2>1, <2>2 DEF Slots
<1> QED
  BY <1>2, <1>3

(* A key is in the pages once.                                             *)
LEMMA KeysAreCounted ==
  ASSUME NEW file, IsFile(file), KeysAreApart(file)
  PROVE  Cardinality({r.id : r \in Records(file)}) = Cardinality(Slots(file))
<1> DEFINE T == {r.id : r \in Records(file)}
           Key == [x \in Slots(file) |-> file[x[1]][x[2]].id]
<1>1. file \in Seq(Seq(Row))
  BY DEF IsFile
<1>2. \A r : r \in Records(file)
               <=> \E p \in 1 .. Len(file) : \E s \in 1 .. Len(file[p]) : r = file[p][s]
  BY <1>1, RecordsOfFile
<1>3. /\ \A x \in Slots(file) : /\ x[1] \in 1 .. Len(file) /\ x[2] \in 1 .. Len(file[x[1]])
                                /\ x = <<x[1], x[2]>>
      /\ \A p \in 1 .. Len(file) : \A s \in 1 .. Len(file[p]) :
           <<p, s>> \in Slots(file) /\ <<p, s>>[1] = p /\ <<p, s>>[2] = s
  BY SlotsOfFile
<1>4. Key \in [Slots(file) -> T]
  BY <1>2, <1>3
<1>5. \A t \in T : \E x \in Slots(file) : Key[x] = t
  <2> TAKE t \in T
  <2>1. PICK r \in Records(file) : t = r.id
    OBVIOUS
  <2>2. PICK p \in 1 .. Len(file) : \E s \in 1 .. Len(file[p]) : r = file[p][s]
    BY <1>2
  <2>3. PICK s \in 1 .. Len(file[p]) : r = file[p][s]
    BY <2>2
  <2>4. <<p, s>> \in Slots(file) /\ Key[<<p, s>>] = file[p][s].id
    BY <1>3
  <2> QED
    BY <2>1, <2>3, <2>4
<1>6. \A x, y \in Slots(file) : Key[x] = Key[y] => x = y
  <2> SUFFICES ASSUME NEW x \in Slots(file), NEW y \in Slots(file), Key[x] = Key[y]
               PROVE  x = y
    OBVIOUS
  <2>1. file[x[1]][x[2]].id = file[y[1]][y[2]].id
    OBVIOUS
  <2>2. x[1] = y[1] /\ x[2] = y[2]
    BY <2>1, <1>3, ApartMeansOnce
  <2> QED
    BY <2>2, <1>3
<1> HIDE DEF T, Key
<1>7. Slots(file) \in SUBSET Slots(file)
  OBVIOUS
<1>8. Cardinality(T) = Cardinality(Slots(file))
  BY <1>4, <1>5, <1>6, <1>7, SlotsCount
<1> QED
  BY <1>8 DEF T

(* The shape is the type, and nothing is stored that was not logged.       *)
LEMMA ShapeKeepsTypeAndLog ==
  ASSUME TableHasShape
  PROVE  TypeOK /\ LoggedBeforeApplied
<1>1. /\ IsFile(pages) /\ IsFile(disk) /\ PlacesAreIn(index, pages)
      /\ pages \in Seq(Seq(Row)) /\ disk \in Seq(Seq(Row))
      /\ ImagesAreLogged(pages) /\ ImagesAreLogged(disk)
  BY DEF TableHasShape, FilesAreFiles, IsFile
<1>2. ASSUME NEW file, IsFile(file), file \in Seq(Seq(Row)), ImagesAreLogged(file), NEW r \in Records(file)
      PROVE  r \in Row /\ \E x \in log : x[2] = r
  <2>1. PICK p \in 1 .. Len(file) : \E s \in 1 .. Len(file[p]) : r = file[p][s]
    BY <1>2, RecordsOfFile
  <2>2. PICK s \in 1 .. Len(file[p]) : r = file[p][s]
    BY <2>1
  <2> QED
    BY <2>2, <1>2, PagesHaveLength DEF ImagesAreLogged
<1>3. \A p \in DOMAIN pages : Len(pages[p]) <= MaxRecords
  BY <1>1, PagesHaveLength
<1>4. \A e \in index : e[1] \in 1 .. MaxId /\ e[2] \in DOMAIN pages /\ e[3] \in 1 .. MaxRecords
  <2> TAKE e \in index
  <2>1. e \in (1 .. MaxId) \X Nat \X Nat /\ e[2] \in 1 .. Len(pages) /\ e[3] \in 1 .. MaxRecords
    BY <1>1 DEF PlacesAreIn
  <2> QED
    BY <2>1, <1>1
<1>5. Records(pages) \cup Records(disk) \subseteq Row /\ LoggedBeforeApplied
  BY <1>1, <1>2 DEF LoggedBeforeApplied
<1> QED
  BY <1>3, <1>4, <1>5 DEF TypeOK, TableHasShape, FilesAreFiles

(* Keys, index and log of a sound table.                                   *)
LEMMA SoundKeepsKeysAndLog ==
  ASSUME TableIsSound
  PROVE  IndexPointsAtItsRow /\ LoggedUnderItsKey /\ KeysAreUnique
<1>1. /\ IsFile(pages) /\ IsFile(disk) /\ KeysAreApart(pages) /\ PointsInto(index, pages)
      /\ pages \in Seq(Seq(Row)) /\ disk \in Seq(Seq(Row)) /\ StoredIsLogged
  BY DEF TableIsSound, FilesAreFiles, KeysAreGivenOnce, IndexesPoint, IsFile
<1>2. Len(pages) \in Nat /\ \A p \in 1 .. Len(pages) : Len(pages[p]) \in Nat
  BY <1>1, PagesHaveLength
<1>3. IndexPointsAtItsRow
  <2> SUFFICES ASSUME NEW e \in index
               PROVE  \E r \in page_get_record(pages, e[2], e[3]) : r.id = e[1]
    BY DEF IndexPointsAtItsRow
  <2>1. /\ e[2] \in 1 .. Len(pages) /\ e[3] \in 1 .. Len(pages[e[2]])
        /\ pages[e[2]][e[3]].id = e[1]
    BY <1>1 DEF PointsInto
  <2>2. e[2] <= Len(pages) /\ e[3] <= Len(pages[e[2]])
    BY <2>1, <1>2
  <2>3. page_get_record(pages, e[2], e[3]) = {pages[e[2]][e[3]]}
    BY <2>2 DEF page_get_record, page_get_count
  <2> QED
    BY <2>1, <2>3
<1>4. ASSUME NEW file, file \in Seq(Seq(Row)), NEW r \in Records(file),
             \A p \in 1 .. Len(file) : \A s \in 1 .. Len(file[p]) : <<file[p][s].id, file[p][s]>> \in log
      PROVE  <<r.id, r>> \in log
  <2>1. PICK p \in 1 .. Len(file) : \E s \in 1 .. Len(file[p]) : r = file[p][s]
    BY <1>4, RecordsOfFile
  <2> QED
    BY <2>1, <1>4
<1>5. LoggedUnderItsKey
  <2>1. ASSUME NEW r \in Records(pages) PROVE <<r.id, r>> \in log
    <3>1. \A p \in 1 .. Len(pages) : \A s \in 1 .. Len(pages[p]) :
            <<pages[p][s].id, pages[p][s]>> \in log
      BY <1>1 DEF StoredIsLogged
    <3> QED
      BY <1>1, <1>4, <3>1
  <2>2. ASSUME NEW r \in Records(disk) PROVE <<r.id, r>> \in log
    <3>1. \A p \in 1 .. Len(disk) : \A s \in 1 .. Len(disk[p]) :
            <<disk[p][s].id, disk[p][s]>> \in log
      BY <1>1 DEF StoredIsLogged
    <3> QED
      BY <1>1, <1>4, <3>1
  <2> QED
    BY <2>1, <2>2, Zenon DEF LoggedUnderItsKey
<1>6. KeysAreUnique
  BY <1>1, KeysAreCounted DEF KeysAreUnique
<1> QED
  BY <1>3, <1>5, <1>6

(* What a crash of table.c between two of its writes never breaks: nothing *)
(* is stored that was not logged; and until a page could not be written, a *)
(* key names one row, the index leads to it and the log has it under that  *)
(* key (table_insert, table_close, table_open, _find_victim).              *)
THEOREM CrashesKeepKeysAndLogHolds == Spec => []CrashesKeepKeysAndLog
<1>1. TableInv => CrashesKeepKeysAndLog
  BY ShapeKeepsTypeAndLog, SoundKeepsKeysAndLog DEF TableInv, CrashesKeepKeysAndLog
<1> QED
  BY <1>1, TableInvHolds, PTL
-----------------------------------------------------------------------------
(* The two ways to a row                                                   *)

(* What table_scan meets: the live records in the pages it can fetch.      *)
LEMMA ScanOfFile ==
  ASSUME pages \in Seq(Seq(Row)), NEW skipped
  PROVE  \A r : r \in table_scan(skipped)
                  <=> /\ ~r.is_deleted
                      /\ \E p \in 1 .. Len(pages) : \E s \in 1 .. Len(pages[p]) :
                           p \notin skipped /\ r = pages[p][s]
<1>1. DOMAIN pages = 1 .. Len(pages)
  OBVIOUS
<1>2. \A p \in 1 .. Len(pages) : pages[p] \in Seq(Row) /\ DOMAIN pages[p] = 1 .. Len(pages[p])
  OBVIOUS
<1>3. \A r : r \in table_scan(skipped)
               <=> /\ ~r.is_deleted
                   /\ \E p \in DOMAIN pages \ skipped : r \in {pages[p][i] : i \in DOMAIN pages[p]}
  BY Zenon DEF table_scan, ToSet
<1> QED
  BY <1>1, <1>2, <1>3

(* While the index is complete and leads only to its rows, looking a key   *)
(* up and scanning find the same.                                          *)
LEMMA FindIsScan ==
  ASSUME TableIsSound, Indexed(pages, index), NEW id, NEW skipped
  PROVE  table_find_by_id(id, skipped) = {r.val : r \in {s \in table_scan(skipped) : s.id = id}}
<1>1. /\ IsFile(pages) /\ PointsInto(index, pages) /\ pages \in Seq(Seq(Row))
  BY DEF TableIsSound, FilesAreFiles, IndexesPoint, IsFile
<1>2. \A r : r \in table_scan(skipped)
               <=> /\ ~r.is_deleted
                   /\ \E p \in 1 .. Len(pages) : \E s \in 1 .. Len(pages[p]) :
                        p \notin skipped /\ r = pages[p][s]
  BY <1>1, ScanOfFile
<1>3. /\ Len(pages) \in Nat
      /\ \A p \in 1 .. Len(pages) : Len(pages[p]) \in Nat
  BY <1>1, PagesHaveLength
<1> DEFINE Hits == {s \in UNION {page_get_record(pages, e[2], e[3]) : e \in Reached(id, skipped)} :
                      ~s.is_deleted}
           Met == {s \in table_scan(skipped) : s.id = id}
<1>4. ASSUME NEW r \in Hits
      PROVE  r \in Met
  <2>1. PICK e \in Reached(id, skipped) : r \in page_get_record(pages, e[2], e[3]) /\ ~r.is_deleted
    OBVIOUS
  <2>2. e \in index /\ e[1] = id /\ e[2] \notin skipped
    BY DEF btree_search, Reached
  <2>3. /\ e[2] \in 1 .. Len(pages) /\ e[3] \in 1 .. Len(pages[e[2]])
        /\ pages[e[2]][e[3]].id = id
    BY <2>2, <1>1 DEF PointsInto
  <2>4. r = pages[e[2]][e[3]]
    BY <2>1 DEF page_get_record
  <2>5. r \in table_scan(skipped)
    BY <2>1, <2>2, <2>3, <2>4, <1>2
  <2> QED
    BY <2>3, <2>4, <2>5
<1>5. ASSUME NEW r \in Met
      PROVE  r \in Hits
  <2>1. ~r.is_deleted /\ r.id = id
    BY <1>2
  <2>2. PICK p \in 1 .. Len(pages) : \E s \in 1 .. Len(pages[p]) : p \notin skipped /\ r = pages[p][s]
    BY <1>2
  <2>3. PICK s \in 1 .. Len(pages[p]) : p \notin skipped /\ r = pages[p][s]
    BY <2>2
  <2>4. <<id, p, s>> \in index
    BY <2>1, <2>3 DEF Indexed
  <2>5. <<id, p, s>>[1] = id /\ <<id, p, s>>[2] = p /\ <<id, p, s>>[3] = s
    OBVIOUS
  <2>6. <<id, p, s>> \in Reached(id, skipped)
    BY <2>3, <2>4, <2>5 DEF btree_search, Reached
  <2>7. p <= Len(pages) /\ s <= Len(pages[p])
    BY <1>3
  <2>8. r \in page_get_record(pages, p, s)
    BY <2>3, <2>7 DEF page_get_record, page_get_count
  <2>9. \E e \in Reached(id, skipped) : r \in page_get_record(pages, e[2], e[3])
    BY <2>5, <2>6, <2>8
  <2> QED
    BY <2>1, <2>9
<1>6. Hits = Met
  BY <1>4, <1>5
<1>7. table_find_by_id(id, skipped) = {r.val : r \in Hits}
  BY DEF table_find_by_id
<1> HIDE DEF Hits
<1> QED
  BY <1>6, <1>7

(* The live slots are counted once each.                                   *)
LEMMA CountIsScan ==
  ASSUME TableIsSound, NEW skipped
  PROVE  table_count(skipped) = Cardinality(table_scan(skipped))
<1> DEFINE S == {x \in Slots(pages) : x[1] \notin skipped /\ ~pages[x[1]][x[2]].is_deleted}
           At == [x \in S |-> pages[x[1]][x[2]]]
<1>1. /\ IsFile(pages) /\ KeysAreApart(pages) /\ pages \in Seq(Seq(Row))
  BY DEF TableIsSound, FilesAreFiles, KeysAreGivenOnce, IsFile
<1>2. \A r : r \in table_scan(skipped)
               <=> /\ ~r.is_deleted
                   /\ \E p \in 1 .. Len(pages) : \E s \in 1 .. Len(pages[p]) :
                        p \notin skipped /\ r = pages[p][s]
  BY <1>1, ScanOfFile
<1>3. /\ \A x \in Slots(pages) : /\ x[1] \in 1 .. Len(pages) /\ x[2] \in 1 .. Len(pages[x[1]])
                                 /\ x = <<x[1], x[2]>>
      /\ \A p \in 1 .. Len(pages) : \A s \in 1 .. Len(pages[p]) :
           <<p, s>> \in Slots(pages) /\ <<p, s>>[1] = p /\ <<p, s>>[2] = s
  BY <1>1, SlotsOfFile
<1>4. At \in [S -> table_scan(skipped)]
  <2>1. \A x \in S : pages[x[1]][x[2]] \in table_scan(skipped)
    BY <1>2, <1>3
  <2> QED
    BY <2>1
<1>5. \A r \in table_scan(skipped) : \E x \in S : At[x] = r
  <2> TAKE r \in table_scan(skipped)
  <2>1. ~r.is_deleted
    BY <1>2
  <2>2. PICK p \in 1 .. Len(pages) : \E s \in 1 .. Len(pages[p]) : p \notin skipped /\ r = pages[p][s]
    BY <1>2
  <2>3. PICK s \in 1 .. Len(pages[p]) : p \notin skipped /\ r = pages[p][s]
    BY <2>2
  <2>4. <<p, s>> \in Slots(pages) /\ <<p, s>>[1] = p /\ <<p, s>>[2] = s
    BY <1>3
  <2>5. <<p, s>> \in S /\ At[<<p, s>>] = r
    BY <2>1, <2>3, <2>4
  <2> QED
    BY <2>5
<1>6. \A x, y \in S : At[x] = At[y] => x = y
  <2> SUFFICES ASSUME NEW x \in S, NEW y \in S, At[x] = At[y]
               PROVE  x = y
    OBVIOUS
  <2>1. pages[x[1]][x[2]].id = pages[y[1]][y[2]].id
    OBVIOUS
  <2>2. x[1] = y[1] /\ x[2] = y[2]
    BY <2>1, <1>1, <1>3, ApartMeansOnce
  <2> QED
    BY <2>2, <1>3
<1>7. S \in SUBSET Slots(pages) /\ table_count(skipped) = Cardinality(S)
  BY DEF table_count
<1> HIDE DEF S, At
<1> QED
  BY <1>1, <1>4, <1>5, <1>6, <1>7, SlotsCount

(* Until an index entry was not made, a page not written, the index not    *)
(* saved or the process died, table_find_by_id finds exactly the rows that *)
(* table_scan meets and table_count counts them, whichever pages cannot be *)
(* fetched.                                                                *)
THEOREM FindAgreesWithScanHolds == Spec => []FindAgreesWithScan
<1>1. TableInv => FindAgreesWithScan
  <2> SUFFICES ASSUME TableInv, up, faults \cap {"index", "write", "save", "crash"} = {},
                      NEW skipped
               PROVE  /\ \A id \in 1 .. MaxId :
                           table_find_by_id(id, skipped)
                             = {r.val : r \in {s \in table_scan(skipped) : s.id = id}}
                      /\ table_count(skipped) = Cardinality(table_scan(skipped))
    BY DEF FindAgreesWithScan
  <2>1. TableIsSound
    BY DEF TableInv
  <2>2. Indexed(pages, index)
    BY <2>1 DEF TableIsSound, IndexIsComplete
  <2> QED
    BY <2>1, <2>2, FindIsScan, CountIsScan
<1> QED
  BY <1>1, TableInvHolds, PTL
-----------------------------------------------------------------------------
(* The table as a map with keys that are given out once                    *)

\* The file a reader would be shown, and the keys in it.
View == IF up THEN pages ELSE disk
Keys(file) == {r.id : r \in Records(file)}

(* The live rows and the keys of a file, slot by slot.                     *)
LEMMA LiveRows ==
  ASSUME NEW file, IsFile(file)
  PROVE  /\ \A y : y \in Live(file)
              <=> \E p \in 1 .. Len(file) : \E s \in 1 .. Len(file[p]) :
                    ~file[p][s].is_deleted /\ y = <<file[p][s].id, file[p][s].val>>
         /\ \A k : k \in Keys(file)
              <=> \E p \in 1 .. Len(file) : \E s \in 1 .. Len(file[p]) : k = file[p][s].id
<1>1. file \in Seq(Seq(Row))
  BY DEF IsFile
<1>2. \A r : r \in Records(file)
               <=> \E p \in 1 .. Len(file) : \E s \in 1 .. Len(file[p]) : r = file[p][s]
  BY <1>1, RecordsOfFile
<1>3. \A y : y \in Live(file) <=> \E r \in Records(file) : ~r.is_deleted /\ y = <<r.id, r.val>>
  BY DEF Live
<1>4. \A k : k \in Keys(file) <=> \E r \in Records(file) : k = r.id
  BY DEF Keys
<1>5. \A p \in 1 .. Len(file) : \A s \in 1 .. Len(file[p]) : file[p][s] \in Records(file)
  BY <1>2
<1>6. ASSUME NEW r \in Records(file)
      PROVE  \E p \in 1 .. Len(file) : \E s \in 1 .. Len(file[p]) : r = file[p][s]
  BY <1>2
<1>7. ASSUME NEW y
      PROVE  y \in Live(file)
               <=> \E p \in 1 .. Len(file) : \E s \in 1 .. Len(file[p]) :
                     ~file[p][s].is_deleted /\ y = <<file[p][s].id, file[p][s].val>>
  <2>1. ASSUME y \in Live(file)
        PROVE  \E p \in 1 .. Len(file) : \E s \in 1 .. Len(file[p]) :
                 ~file[p][s].is_deleted /\ y = <<file[p][s].id, file[p][s].val>>
    <3>1. PICK r \in Records(file) : ~r.is_deleted /\ y = <<r.id, r.val>>
      BY <2>1, <1>3
    <3>2. PICK p \in 1 .. Len(file) : \E s \in 1 .. Len(file[p]) : r = file[p][s]
      BY <1>6
    <3> QED
      BY <3>1, <3>2
  <2>2. ASSUME NEW p \in 1 .. Len(file), NEW s \in 1 .. Len(file[p]),
               ~file[p][s].is_deleted, y = <<file[p][s].id, file[p][s].val>>
        PROVE  y \in Live(file)
    BY <2>2, <1>3, <1>5
  <2> QED
    BY <2>1, <2>2
<1>8. ASSUME NEW k
      PROVE  k \in Keys(file)
               <=> \E p \in 1 .. Len(file) : \E s \in 1 .. Len(file[p]) : k = file[p][s].id
  <2>1. ASSUME k \in Keys(file)
        PROVE  \E p \in 1 .. Len(file) : \E s \in 1 .. Len(file[p]) : k = file[p][s].id
    <3>1. PICK r \in Records(file) : k = r.id
      BY <2>1, <1>4
    <3>2. PICK p \in 1 .. Len(file) : \E s \in 1 .. Len(file[p]) : r = file[p][s]
      BY <1>6
    <3> QED
      BY <3>1, <3>2
  <2>2. ASSUME NEW p \in 1 .. Len(file), NEW s \in 1 .. Len(file[p]), k = file[p][s].id
        PROVE  k \in Keys(file)
    BY <2>2, <1>4, <1>5
  <2> QED
    BY <2>1, <2>2
<1> QED
  BY <1>7, <1>8

(* One more record is one more row, under a key that was not there.        *)
LEMMA AddedRow ==
  ASSUME NEW old, NEW new, NEW p0, NEW s0, NEW id, NEW v, IsFile(old),
         Added(old, new, p0, s0, Record(id, v))
  PROVE  /\ Live(new) = Live(old) \cup {<<id, v>>}
         /\ Keys(new) = Keys(old) \cup {id}
<1>1. Records(new) = Records(old) \cup {Record(id, v)}
  BY AddedKeeps
<1>2. Record(id, v).id = id /\ Record(id, v).val = v /\ ~Record(id, v).is_deleted
  BY DEF Record
<1> HIDE DEF Record
<1>3. \A y : y \in Live(new) <=> \E r \in Records(new) : ~r.is_deleted /\ y = <<r.id, r.val>>
  BY DEF Live
<1>4. \A y : y \in Live(old) <=> \E r \in Records(old) : ~r.is_deleted /\ y = <<r.id, r.val>>
  BY DEF Live
<1>5. \A y : y \in Live(new) <=> y \in Live(old) \/ y = <<id, v>>
  BY <1>1, <1>2, <1>3, <1>4
<1>6. Keys(new) = Keys(old) \cup {id}
  BY <1>1, <1>2 DEF Keys
<1> QED
  BY <1>5, <1>6

(* A record put in the place of a live one changes the row of its key and  *)
(* no other.                                                               *)
LEMMA PutRow ==
  ASSUME NEW old, NEW new, NEW p0, NEW s0, NEW r, IsFile(old), KeysAreApart(old),
         Put(old, new, p0, s0, r), ~old[p0][s0].is_deleted
  PROVE  /\ Keys(new) = Keys(old)
         /\ \E y \in Live(old) : y[1] = r.id
         /\ \A y \in Live(old) : y[1] # r.id => y \in Live(new)
         /\ \A y \in Live(new) : \/ y \in Live(old) /\ y[1] # r.id
                                 \/ ~r.is_deleted /\ y = <<r.id, r.val>>
         /\ ~r.is_deleted => <<r.id, r.val>> \in Live(new)
<1>1. /\ IsFile(new) /\ Len(new) = Len(old)
      /\ p0 \in 1 .. Len(old) /\ s0 \in 1 .. Len(old[p0]) /\ old[p0][s0].id = r.id
      /\ \A p \in 1 .. Len(old) : Len(new[p]) = Len(old[p])
      /\ \A p \in 1 .. Len(old) : \A s \in 1 .. Len(old[p]) :
           new[p][s] = IF p = p0 /\ s = s0 THEN r ELSE old[p][s]
  BY DEF Put
<1>2. \A p \in 1 .. Len(old) : \A s \in 1 .. Len(old[p]) :
        /\ new[p][s].id = old[p][s].id
        /\ old[p][s].id = r.id => p = p0 /\ s = s0
  BY <1>1, ApartMeansOnce
<1>3. /\ \A y : y \in Live(old)
            <=> \E p \in 1 .. Len(old) : \E s \in 1 .. Len(old[p]) :
                  ~old[p][s].is_deleted /\ y = <<old[p][s].id, old[p][s].val>>
      /\ \A k : k \in Keys(old)
            <=> \E p \in 1 .. Len(old) : \E s \in 1 .. Len(old[p]) : k = old[p][s].id
  BY LiveRows
<1>4. /\ \A y : y \in Live(new)
            <=> \E p \in 1 .. Len(new) : \E s \in 1 .. Len(new[p]) :
                  ~new[p][s].is_deleted /\ y = <<new[p][s].id, new[p][s].val>>
      /\ \A k : k \in Keys(new)
            <=> \E p \in 1 .. Len(new) : \E s \in 1 .. Len(new[p]) : k = new[p][s].id
  BY <1>1, LiveRows
<1>5. Keys(new) = Keys(old)
  <2>1. ASSUME NEW k \in Keys(new)
        PROVE  k \in Keys(old)
    <3>1. PICK p \in 1 .. Len(new) : \E s \in 1 .. Len(new[p]) : k = new[p][s].id
      BY <1>4
    <3>2. PICK s \in 1 .. Len(new[p]) : k = new[p][s].id
      BY <3>1
    <3>3. p \in 1 .. Len(old) /\ s \in 1 .. Len(old[p]) /\ k = old[p][s].id
      BY <3>2, <1>1, <1>2
    <3> QED
      BY <3>3, <1>3
  <2>2. ASSUME NEW k \in Keys(old)
        PROVE  k \in Keys(new)
    <3>1. PICK p \in 1 .. Len(old) : \E s \in 1 .. Len(old[p]) : k = old[p][s].id
      BY <1>3
    <3>2. PICK s \in 1 .. Len(old[p]) : k = old[p][s].id
      BY <3>1
    <3>3. p \in 1 .. Len(new) /\ s \in 1 .. Len(new[p]) /\ k = new[p][s].id
      BY <3>2, <1>1, <1>2
    <3> QED
      BY <3>3, <1>4
  <2> QED
    BY <2>1, <2>2
<1>6. \E y \in Live(old) : y[1] = r.id
  <2>1. <<old[p0][s0].id, old[p0][s0].val>> \in Live(old)
    BY <1>1, <1>3
  <2> QED
    BY <2>1, <1>1
<1>7. ASSUME NEW y \in Live(old), y[1] # r.id
      PROVE  y \in Live(new)
  <2>1. PICK p \in 1 .. Len(old) : \E s \in 1 .. Len(old[p]) :
               ~old[p][s].is_deleted /\ y = <<old[p][s].id, old[p][s].val>>
    BY <1>3
  <2>2. PICK s \in 1 .. Len(old[p]) : ~old[p][s].is_deleted /\ y = <<old[p][s].id, old[p][s].val>>
    BY <2>1
  <2>3. y[1] = old[p][s].id
    BY <2>2
  <2>4. ~(p = p0 /\ s = s0)
    BY <2>3, <1>1, <1>7
  <2>5. new[p][s] = old[p][s] /\ p \in 1 .. Len(new) /\ s \in 1 .. Len(new[p])
    BY <2>4, <1>1
  <2> QED
    BY <2>2, <2>5, <1>4
<1>8. ASSUME NEW y \in Live(new)
      PROVE  \/ y \in Live(old) /\ y[1] # r.id
             \/ ~r.is_deleted /\ y = <<r.id, r.val>>
  <2>1. PICK p \in 1 .. Len(new) : \E s \in 1 .. Len(new[p]) :
               ~new[p][s].is_deleted /\ y = <<new[p][s].id, new[p][s].val>>
    BY <1>4
  <2>2. PICK s \in 1 .. Len(new[p]) : ~new[p][s].is_deleted /\ y = <<new[p][s].id, new[p][s].val>>
    BY <2>1
  <2>3. p \in 1 .. Len(old) /\ s \in 1 .. Len(old[p])
    BY <1>1
  <2>4. CASE p = p0 /\ s = s0
    BY <2>2, <2>3, <2>4, <1>1
  <2>5. CASE ~(p = p0 /\ s = s0)
    <3>1. new[p][s] = old[p][s] /\ old[p][s].id # r.id
      BY <2>3, <2>5, <1>1, <1>2
    <3>2. y \in Live(old)
      BY <3>1, <2>2, <2>3, <1>3
    <3>3. y[1] = old[p][s].id
      BY <3>1, <2>2
    <3> QED
      BY <3>1, <3>2, <3>3
  <2> QED
    BY <2>4, <2>5
<1>9. ASSUME ~r.is_deleted
      PROVE  <<r.id, r.val>> \in Live(new)
  <2>1. new[p0][s0] = r /\ p0 \in 1 .. Len(new) /\ s0 \in 1 .. Len(new[p0])
    BY <1>1
  <2> QED
    BY <2>1, <1>4, <1>9
<1> QED
  BY <1>5, <1>6, <1>7, <1>8, <1>9

(* The rows and the keys of the abstract table are those of the view.      *)
LEMMA ViewIsTheTable ==
  /\ RTable!Init <=> Live(View) = {} /\ Keys(View) = {}
  /\ UNCHANGED <<Live(View), Keys(View)>> => UNCHANGED RTable!vars
  /\ \A id, v : /\ id \notin Keys(View)
                /\ Live(View)' = Live(View) \cup {<<id, v>>}
                /\ Keys(View)' = Keys(View) \cup {id}
                => RTable!Insert(id, v)
  /\ \A id, v : /\ \E y \in Live(View) : y[1] = id
                /\ Live(View)' = {IF y[1] = id THEN <<id, v>> ELSE y : y \in Live(View)}
                /\ UNCHANGED Keys(View)
                => RTable!Update(id, v)
  /\ \A id : /\ \E y \in Live(View) : y[1] = id
             /\ Live(View)' = {y \in Live(View) : y[1] # id}
             /\ UNCHANGED Keys(View)
             => RTable!Delete(id)
<1> QED
  BY DEF RTable!Init, RTable!vars, RTable!Insert, RTable!Update, RTable!Delete, View, Keys

(* A step of RecordTable from one of its actions.                          *)
LEMMA StepOfTheTable ==
  ASSUME NEW id, NEW v \in Values,
         \/ RTable!Insert(id, v)
         \/ RTable!Update(id, v) /\ id \in Keys(View)
         \/ RTable!Delete(id) /\ id \in Keys(View)
  PROVE  RTable!Next
<1>1. CASE RTable!Insert(id, v)
  BY <1>1 DEF RTable!Next, RTable!Insert
<1>2. CASE RTable!Update(id, v) /\ id \in Keys(View)
  BY <1>2 DEF RTable!Next, View, Keys
<1>3. CASE RTable!Delete(id) /\ id \in Keys(View)
  BY <1>3 DEF RTable!Next, View, Keys
<1> QED
  BY <1>1, <1>2, <1>3

(* table_insert adds its row, or nothing when it fails before.             *)
LEMMA InsertIsAStep ==
  ASSUME TableIsSound, NEW v \in Values, NEW fail \in Outcomes, table_insert(v, fail)
  PROVE  RTable!Next \/ UNCHANGED RTable!vars
<1>1. /\ up /\ up' /\ next_id \in 1 .. MaxId
      /\ \/ Same(pages, pages')
         \/ \E p0, s0 : Added(pages, pages', p0, s0, Record(next_id, v))
  BY SoundHasShape, InsertChangesPages
<1>2. View = pages /\ View' = pages'
  BY <1>1 DEF View
<1>3. IsFile(pages)
  BY DEF TableIsSound, FilesAreFiles
<1>4. CASE Same(pages, pages')
  <2>1. Records(pages') = Records(pages)
    BY <1>3, <1>4, SameKeeps
  <2>2. Live(View)' = Live(View) /\ Keys(View)' = Keys(View)
    BY <2>1, <1>2 DEF Live, Keys
  <2> QED
    BY <2>2, ViewIsTheTable
<1>5. ASSUME NEW p0, NEW s0, Added(pages, pages', p0, s0, Record(next_id, v))
      PROVE  RTable!Next
  <2>1. Live(pages') = Live(pages) \cup {<<next_id, v>>} /\ Keys(pages') = Keys(pages) \cup {next_id}
    BY <1>3, <1>5, AddedRow
  <2>2. next_id \notin Keys(pages)
    <3>1. \A p \in 1 .. Len(pages) : \A s \in 1 .. Len(pages[p]) : pages[p][s].id < next_id
      BY <1>1 DEF TableIsSound, KeysAreGivenOnce
    <3>2. \A p \in 1 .. Len(pages) : \A s \in 1 .. Len(pages[p]) : pages[p][s].id # next_id
      BY <3>1, <1>1
    <3> QED
      BY <3>2, <1>3, LiveRows
  <2>3. Live(View)' = Live(View) \cup {<<next_id, v>>} /\ Keys(View)' = Keys(View) \cup {next_id}
    BY <2>1, <1>2
  <2>4. RTable!Insert(next_id, v)
    BY <2>2, <2>3, <1>2, ViewIsTheTable
  <2> QED
    BY <2>4, StepOfTheTable
<1> QED
  BY <1>1, <1>4, <1>5

(* table_update changes the row of its key.                                *)
LEMMA UpdateIsAStep ==
  ASSUME TableIsSound, NEW id, NEW v \in Values, NEW fail, table_update(id, v, fail)
  PROVE  RTable!Next \/ UNCHANGED RTable!vars
<1>1. up /\ up' = up
  BY UpdateChangesPages
<1>2. PICK e \in index :
        /\ Found(id, e)
        /\ Record(id, v) \in Row
        /\ \/ UNCHANGED <<log, pages>>
           \/ /\ fail = "ok" /\ log' = log \cup {<<id, Record(id, v)>>}
              /\ Put(pages, pages', e[2], e[3], Record(id, v))
  BY UpdateChangesPages
<1>3. View = pages /\ View' = pages'
  BY <1>1 DEF View
<1>4. IsFile(pages) /\ KeysAreApart(pages)
  BY DEF TableIsSound, FilesAreFiles, KeysAreGivenOnce
<1>5. CASE pages' = pages
  <2>1. Live(View)' = Live(View) /\ Keys(View)' = Keys(View)
    BY <1>3, <1>5
  <2> QED
    BY <2>1, ViewIsTheTable
<1>6. CASE Put(pages, pages', e[2], e[3], Record(id, v))
  <2>1. /\ e[2] \in 1 .. Len(pages) /\ e[3] \in 1 .. Len(pages[e[2]])
        /\ pages[e[2]][e[3]].id = id /\ ~pages[e[2]][e[3]].is_deleted
    BY <1>2, FoundIsThere
  <2>2. Record(id, v).id = id /\ Record(id, v).val = v /\ ~Record(id, v).is_deleted
    BY DEF Record
  <2>a. PICK r : r = Record(id, v)
    OBVIOUS
  <2>b. /\ Keys(pages') = Keys(pages)
        /\ \E y \in Live(pages) : y[1] = r.id
        /\ \A y \in Live(pages) : y[1] # r.id => y \in Live(pages')
        /\ \A y \in Live(pages') : \/ y \in Live(pages) /\ y[1] # r.id
                                   \/ ~r.is_deleted /\ y = <<r.id, r.val>>
        /\ ~r.is_deleted => <<r.id, r.val>> \in Live(pages')
    <3>1. Put(pages, pages', e[2], e[3], r)
      BY <1>6, <2>a
    <3> QED
      BY <3>1, <2>1, <1>4, PutRow
  <2>3. /\ Keys(pages') = Keys(pages)
        /\ \E y \in Live(pages) : y[1] = id
        /\ \A y \in Live(pages) : y[1] # id => y \in Live(pages')
        /\ \A y \in Live(pages') : (y \in Live(pages) /\ y[1] # id) \/ y = <<id, v>>
        /\ <<id, v>> \in Live(pages')
    BY <2>b, <2>a, <2>2
  <2>4. Live(pages') = {IF y[1] = id THEN <<id, v>> ELSE y : y \in Live(pages)}
    BY <2>3
  <2>5. id \in Keys(View)
    BY <2>1, <1>3, <1>4, LiveRows
  <2>6. Live(View)' = {IF y[1] = id THEN <<id, v>> ELSE y : y \in Live(View)} /\ UNCHANGED Keys(View)
    BY <2>3, <2>4, <1>3
  <2>7. RTable!Update(id, v)
    BY <2>3, <2>6, <1>3, ViewIsTheTable
  <2> QED
    BY <2>5, <2>7, StepOfTheTable
<1> QED
  BY <1>2, <1>5, <1>6

(* table_delete takes the row of its key away and keeps the key.           *)
LEMMA DeleteIsAStep ==
  ASSUME TableIsSound, NEW id, NEW fail, table_delete(id, fail)
  PROVE  RTable!Next \/ UNCHANGED RTable!vars
<1>1. up /\ up' = up
  BY DeleteChangesPages
<1>2. PICK e \in index, r \in Row :
        /\ Found(id, e)
        /\ r.id = id /\ r.is_deleted
        /\ \/ UNCHANGED <<log, pages, index>>
           \/ /\ fail = "ok" /\ log' = log \cup {<<id, r>>}
              /\ Put(pages, pages', e[2], e[3], r)
              /\ index' = index \ {e}
  BY DeleteChangesPages
<1>3. View = pages /\ View' = pages'
  BY <1>1 DEF View
<1>4. IsFile(pages) /\ KeysAreApart(pages)
  BY DEF TableIsSound, FilesAreFiles, KeysAreGivenOnce
<1>5. CASE pages' = pages
  <2>1. Live(View)' = Live(View) /\ Keys(View)' = Keys(View)
    BY <1>3, <1>5
  <2> QED
    BY <2>1, ViewIsTheTable
<1>6. CASE Put(pages, pages', e[2], e[3], r)
  <2>1. /\ e[2] \in 1 .. Len(pages) /\ e[3] \in 1 .. Len(pages[e[2]])
        /\ pages[e[2]][e[3]].id = id /\ ~pages[e[2]][e[3]].is_deleted
    BY <1>2, FoundIsThere
  <2>a. /\ Keys(pages') = Keys(pages)
        /\ \E y \in Live(pages) : y[1] = r.id
        /\ \A y \in Live(pages) : y[1] # r.id => y \in Live(pages')
        /\ \A y \in Live(pages') : \/ y \in Live(pages) /\ y[1] # r.id
                                   \/ ~r.is_deleted /\ y = <<r.id, r.val>>
        /\ ~r.is_deleted => <<r.id, r.val>> \in Live(pages')
    BY <2>1, <1>4, <1>6, PutRow
  <2>2. /\ Keys(pages') = Keys(pages)
        /\ \E y \in Live(pages) : y[1] = id
        /\ \A y \in Live(pages) : y[1] # id => y \in Live(pages')
        /\ \A y \in Live(pages') : y \in Live(pages) /\ y[1] # id
    BY <2>a, <1>2
  <2>3. Live(pages') = {y \in Live(pages) : y[1] # id}
    BY <2>2
  <2>4. id \in Keys(View)
    BY <2>1, <1>3, <1>4, LiveRows
  <2>5. Live(View)' = {y \in Live(View) : y[1] # id} /\ UNCHANGED Keys(View)
    BY <2>2, <2>3, <1>3
  <2>6. RTable!Delete(id)
    BY <2>2, <2>5, <1>3, ViewIsTheTable
  <2>7. r.val \in Values
    BY DEF Row
  <2> QED
    BY <2>4, <2>6, <2>7, StepOfTheTable
<1> QED
  BY <1>2, <1>5, <1>6

(* While pages are written and the process lives, every step of the table  *)
(* is a step of RecordTable or leaves it alone.                            *)
LEMMA NextIsAStep ==
  ASSUME TableIsSound, [Next]_vars, "write" \notin faults', "crash" \notin faults'
  PROVE  RTable!Next \/ UNCHANGED RTable!vars
<1>1. ASSUME View' = View
      PROVE  UNCHANGED RTable!vars
  <2>1. Live(View)' = Live(View) /\ Keys(View)' = Keys(View)
    BY <1>1
  <2> QED
    BY <2>1, ViewIsTheTable
<1>2. CASE UNCHANGED vars
  BY <1>1, <1>2 DEF vars, View
<1>3. ASSUME NEW v \in Values, NEW fail \in Outcomes, table_insert(v, fail)
      PROVE  RTable!Next \/ UNCHANGED RTable!vars
  BY <1>3, InsertIsAStep
<1>4. ASSUME NEW id \in 1 .. MaxId, NEW v \in Values, NEW fail \in Outcomes, table_update(id, v, fail)
      PROVE  RTable!Next \/ UNCHANGED RTable!vars
  BY <1>4, UpdateIsAStep
<1>5. ASSUME NEW id \in 1 .. MaxId, NEW fail \in Outcomes, table_delete(id, fail)
      PROVE  RTable!Next \/ UNCHANGED RTable!vars
  BY <1>5, DeleteIsAStep
<1>6. ASSUME NEW p \in DOMAIN pages, WriteBack(p)
      PROVE  UNCHANGED RTable!vars
  BY <1>1, <1>6 DEF WriteBack, View
<1>7. ASSUME NEW p \in DOMAIN pages, LosePage(p)
      PROVE  FALSE
  BY <1>7 DEF LosePage, Outcome
<1>8. ASSUME NEW bad, table_flush(bad)
      PROVE  UNCHANGED RTable!vars
  BY <1>1, <1>8 DEF table_flush, View
<1>9. ASSUME NEW done \in 0 .. Len(CloseOrder), NEW bad, NEW saved \in BOOLEAN,
             table_close(done, bad, saved)
      PROVE  UNCHANGED RTable!vars
  <2>1. /\ up /\ ~up' /\ (disk' = disk \/ disk' = FlushedBut(bad))
        /\ \E kinds : Outcome(kinds) /\ (bad # {} => "write" \in kinds)
    BY <1>9, CloseIsDown
  <2>2. bad = {}
    BY <2>1 DEF Outcome
  <2>3. FlushedBut(bad) = pages
    BY <2>1, <2>2, SoundHasShape, FlushedIsAFile
  <2>4. \E i \in 1 .. done : CloseOrder[i] = "pages"
    <3>1. done = 2
      BY <1>9 DEF table_close, Outcome, CloseOrder
    <3> QED
      BY <3>1 DEF CloseOrder
  <2>5. disk' = pages
    BY <2>3, <2>4, <1>9 DEF table_close
  <2> QED
    BY <2>1, <2>5, <1>1 DEF View
<1>10. CASE Crash
  BY <1>10 DEF Crash, Outcome
<1>11. CASE table_open
  BY <1>1, <1>11 DEF table_open, View
<1> QED
  BY <1>2, <1>3, <1>4, <1>5, <1>6, <1>7, <1>8, <1>9, <1>10, <1>11 DEF Next

(* A table keeps its rows and gives out each key once, through failing     *)
(* calls, write-backs, stops and starts, until a page cannot be written or *)
(* the process dies.                                                       *)
THEOREM TableIsARecordTable == Spec => ImplementsRecordTable
<1>1. Init => RTable!Init
  <2> SUFFICES ASSUME Init
               PROVE  RTable!Init
    OBVIOUS
  <2>1. View = <<>>
    BY DEF Init, View
  <2>2. Records(View) = {}
    BY <2>1 DEF Records
  <2>3. Live(View) = {} /\ Keys(View) = {}
    BY <2>2 DEF Live, Keys
  <2> QED
    BY <2>3, ViewIsTheTable
<1>2. ASSUME TableInv, [Next]_vars
      PROVE  [faults' \subseteq FaultKinds \ {"write", "crash"}
                => RTable!Next \/ UNCHANGED RTable!vars]_vars
  <2>1. ASSUME faults' \subseteq FaultKinds \ {"write", "crash"}
        PROVE  RTable!Next \/ UNCHANGED RTable!vars
    <3>1. "write" \notin faults' /\ "crash" \notin faults'
      BY <2>1
    <3>2. TableIsSound
      BY <3>1, <1>2, FaultsStay DEF TableInv
    <3> QED
      BY <3>1, <3>2, <1>2, NextIsAStep
  <2> QED
    BY <2>1
<1> QED
  BY <1>1, <1>2, TableInvHolds, PTL DEF Spec, ImplementsRecordTable
-----------------------------------------------------------------------------
(* The buffer pool                                                         *)

(* A set of natural numbers that is not empty has a least one, which Least *)
(* chooses.                                                                *)
LEMMA LeastIsLeast ==
  ASSUME NEW S, S \subseteq Nat, S # {}
  PROVE  Least(S) \in S /\ Least(S) \in Nat /\ \A j \in S : Least(S) <= j
<1>1. PICK x \in S : x \in Nat
  OBVIOUS
<1> DEFINE below == {i \in 0 .. x : x - i \in S}
<1>2. below \subseteq Int /\ IsFiniteSet(below) /\ 0 \in below
  <2>1. IsFiniteSet(0 .. x)
    BY <1>1, FS_Interval
  <2>2. below \subseteq 0 .. x
    OBVIOUS
  <2>3. 0 \in below
    BY <1>1
  <2> QED BY <1>1, <2>1, <2>2, <2>3, FS_Subset
<1>3. \E m \in below : \A i \in below : i <= m
  <2> HIDE DEF below
  <2> QED BY <1>2, FiniteHasGreatest
<1>4. PICK m \in below : \A i \in below : i <= m
  BY <1>3
<1>5. x - m \in S /\ x - m \in Nat /\ m \in 0 .. x
  BY <1>1, <1>4
<1>6. ASSUME NEW j \in S PROVE x - m <= j
  <2>1. j \in Nat
    OBVIOUS
  <2>2. CASE j > x
    BY <1>1, <1>5, <2>1, <2>2
  <2>3. CASE j <= x
    <3>1. x - j \in 0 .. x /\ x - (x - j) = j
      BY <1>1, <2>1, <2>3
    <3>2. x - j <= m
      BY <1>4, <3>1
    <3> QED BY <1>1, <1>5, <2>1, <3>2
  <2> QED BY <1>1, <2>1, <2>2, <2>3
<1>7. \E y \in S : \A j \in S : y <= j
  BY <1>5, <1>6
<1> QED BY <1>7 DEF Least

-----------------------------------------------------------------------------
(* The page map.  Dist is how far a probe goes from one bucket to another. *)
Dist(h, c) == IF h <= c THEN c - h ELSE c - h + map_capacity

Entry == [page : Pages, frame : Frames]
MapType == [Buckets -> Entry \cup {Free}]

\* Every bucket that a probe for an entry meets before it is in use, ...
PathIsFull(m, c) ==
  \A d \in Buckets : Dist(hash(m[c].page), d) < Dist(hash(m[c].page), c) => m[d] # Free

\* ... and a page has one entry.
OneEntryEach(m) ==
  \A c, d \in Buckets : m[c] # Free /\ m[d] # Free /\ m[c].page = m[d].page => c = d

MapIsSound(m) ==
  /\ m \in MapType
  /\ \A c \in Buckets : m[c] # Free => PathIsFull(m, c)
  /\ OneEntryEach(m)

Has(m, e) == \E c \in Buckets : m[c] = e

(* There are more buckets than frames.                                     *)
LEMMA Capacity ==
  /\ map_capacity \in Nat \ {0} /\ NumFrames \in Nat /\ NumFrames < map_capacity - 1
  /\ Buckets = 0 .. map_capacity - 1 /\ NoBucket \notin Buckets
BY FramesAssumption DEF map_capacity, MAP_FACTOR, Buckets, NoBucket

(* Remainders of numbers below twice the capacity.                         *)
LEMMA Modulo ==
  /\ \A x \in Nat : x % map_capacity \in Buckets
  /\ \A x \in 0 .. map_capacity - 1 : x % map_capacity = x
  /\ \A x \in map_capacity .. 2 * map_capacity - 1 : x % map_capacity = x - map_capacity
<1>1. ASSUME NEW n \in Nat \ {0}, NEW x \in Nat PROVE x % n \in 0 .. n - 1
  OBVIOUS
<1>2. ASSUME NEW n \in Nat \ {0}, NEW x \in 0 .. n - 1 PROVE x % n = x
  OBVIOUS
<1>3. ASSUME NEW n \in Nat \ {0}, NEW x \in n .. 2 * n - 1 PROVE x % n = x - n
  OBVIOUS
<1> QED BY <1>1, <1>2, <1>3, Capacity

(* From any bucket, a probe comes to every bucket after Dist steps.        *)
LEMMA Walks ==
  ASSUME NEW h \in Buckets
  PROVE  /\ \A i \in Buckets : (h + i) % map_capacity \in Buckets /\ Dist(h, (h + i) % map_capacity) = i
         /\ \A c \in Buckets : Dist(h, c) \in Buckets /\ (h + Dist(h, c)) % map_capacity = c
<1>0. h \in Nat /\ h < map_capacity /\ map_capacity \in Nat
  BY Capacity
<1>1. ASSUME NEW i \in Buckets
      PROVE  (h + i) % map_capacity \in Buckets /\ Dist(h, (h + i) % map_capacity) = i
  <2>0. i \in Nat /\ i < map_capacity
    BY Capacity
  <2>1. CASE h + i < map_capacity
    <3>1. (h + i) % map_capacity = h + i
      BY <1>0, <2>0, <2>1, Modulo
    <3> QED BY <1>0, <2>0, <2>1, <3>1, Capacity DEF Dist
  <2>2. CASE h + i >= map_capacity
    <3>1. (h + i) % map_capacity = h + i - map_capacity
      BY <1>0, <2>0, <2>2, Modulo
    <3> QED BY <1>0, <2>0, <2>2, <3>1, Capacity DEF Dist
  <2> QED BY <1>0, <2>0, <2>1, <2>2
<1>2. ASSUME NEW c \in Buckets PROVE Dist(h, c) \in Buckets /\ (h + Dist(h, c)) % map_capacity = c
  <2>0. c \in Nat /\ c < map_capacity
    BY Capacity
  <2>1. CASE h <= c
    <3>1. Dist(h, c) = c - h /\ h + (c - h) = c
      BY <1>0, <2>0, <2>1 DEF Dist
    <3>2. c % map_capacity = c
      BY <2>0, <1>0, Modulo
    <3> QED BY <1>0, <2>0, <2>1, <3>1, <3>2, Capacity
  <2>2. CASE h > c
    <3>1. Dist(h, c) = c - h + map_capacity /\ h + (c - h + map_capacity) = c + map_capacity
      BY <1>0, <2>0, <2>2 DEF Dist
    <3>2. (c + map_capacity) % map_capacity = c
      <4>1. PICK x : x = c + map_capacity
        OBVIOUS
      <4>2. x \in map_capacity .. 2 * map_capacity - 1 /\ x - map_capacity = c
        BY <1>0, <2>0, <4>1
      <4> QED BY <4>1, <4>2, Modulo
    <3> QED BY <1>0, <2>0, <2>2, <3>1, <3>2, Capacity
  <2> QED BY <1>0, <2>0, <2>1, <2>2
<1> QED BY <1>1, <1>2

(* The hash of a page is a bucket.                                         *)
LEMMA HashIsABucket ==
  ASSUME NEW p \in Pages PROVE hash(p) \in Buckets
<1>1. p[1] \in Nat /\ p[2] \in Nat
  BY PagesAssumption
<1>2. p[1] * 31 + p[2] \in Nat
  BY <1>1
<1> QED BY <1>2, Modulo DEF hash

(* Probe goes through all buckets.                                         *)
LEMMA Probes ==
  ASSUME NEW p \in Pages
  PROVE  /\ \A i \in Buckets : Probe(p, i) \in Buckets /\ Dist(hash(p), Probe(p, i)) = i
         /\ \A c \in Buckets : Dist(hash(p), c) \in Buckets /\ Probe(p, Dist(hash(p), c)) = c
BY HashIsABucket, Walks DEF Probe

(* A bucket that is not in use has no entry.                               *)
LEMMA FreeIsNoEntry == Free \notin Entry /\ Free.page \notin Pages
<1>1. Free.page = NoPage
  BY DEF Free
<1> QED BY <1>1, PagesAssumption DEF Entry

(* What a bucket holds.                                                    *)
LEMMA Entries ==
  ASSUME NEW m \in MapType, NEW c \in Buckets
  PROVE  /\ m[c] # Free <=> m[c] \in Entry
         /\ m[c] # Free => m[c].page \in Pages /\ m[c].frame \in Frames
         /\ m[c] = Free => m[c].page \notin Pages
<1>3. m[c] \in Entry \cup {Free}
  BY DEF MapType
<1> QED BY <1>3, FreeIsNoEntry DEF Entry

(* _map_find comes to the entry of a page ...                              *)
LEMMA FindHit ==
  ASSUME NEW m, MapIsSound(m), NEW c \in Buckets, m[c] # Free
  PROVE  map_find(m, m[c].page) = c
<1>0. m \in MapType /\ PathIsFull(m, c) /\ OneEntryEach(m)
  BY DEF MapIsSound
<1>p. PICK p \in Pages : p = m[c].page
  BY <1>0, Entries
<1> DEFINE stops == {i \in Buckets : m[Probe(p, i)] = Free \/ m[Probe(p, i)].page = p}
<1>1. Dist(hash(p), c) \in stops
  BY <1>p, Probes
<1>2. stops \subseteq Nat
  BY Capacity
<1>3. Least(stops) \in stops /\ Least(stops) <= Dist(hash(p), c)
  BY <1>1, <1>2, LeastIsLeast
<1>l. PICK l : l = Least(stops)
  OBVIOUS
<1>4. /\ l \in Buckets /\ l <= Dist(hash(p), c) /\ Probe(p, l) \in Buckets /\ Dist(hash(p), Probe(p, l)) = l
      /\ m[Probe(p, l)] = Free \/ m[Probe(p, l)].page = p
  BY <1>3, <1>l, Probes
<1>5. Probe(p, l) = c
  <2>1. CASE l = Dist(hash(p), c)
    BY <1>p, <2>1, Probes
  <2>2. CASE l # Dist(hash(p), c)
    <3>1. Dist(hash(p), Probe(p, l)) < Dist(hash(p), c)
      <4>1. Dist(hash(p), c) \in Buckets
        BY Probes
      <4> QED BY <1>4, <2>2, <4>1, Capacity
    <3>2. m[Probe(p, l)] # Free
      BY <1>0, <1>p, <1>4, <3>1 DEF PathIsFull
    <3> QED BY <1>0, <1>p, <1>4, <3>2 DEF OneEntryEach
  <2> QED BY <2>1, <2>2
<1>6. stops # {}
  BY <1>1
<1>7. map_find(m, p) = IF stops = {} \/ m[Probe(p, Least(stops))] = Free THEN NoBucket ELSE Probe(p, Least(stops))
  BY DEF map_find
<1> HIDE DEF stops
<1> QED BY <1>p, <1>l, <1>5, <1>6, <1>7

(* ... or to a bucket that is not in use.                                  *)
LEMMA FindMiss ==
  ASSUME NEW m \in MapType, NEW p \in Pages, \A c \in Buckets : m[c].page # p
  PROVE  map_find(m, p) = NoBucket
<1> DEFINE stops == {i \in Buckets : m[Probe(p, i)] = Free \/ m[Probe(p, i)].page = p}
<1>2. stops \subseteq Nat
  BY Capacity
<1>3. ASSUME stops # {} PROVE m[Probe(p, Least(stops))] = Free
  <2>1. Least(stops) \in stops
    BY <1>2, <1>3, LeastIsLeast
  <2> QED BY <2>1, Probes
<1>7. map_find(m, p) = IF stops = {} \/ m[Probe(p, Least(stops))] = Free THEN NoBucket ELSE Probe(p, Least(stops))
  BY DEF map_find
<1> HIDE DEF stops
<1> QED BY <1>3, <1>7

(* _map_insert takes the first bucket of the probe that is not in use.     *)
LEMMA InsertTakesTheFirst ==
  ASSUME NEW m \in MapType, NEW p \in Pages, NEW f, NEW z \in Buckets, m[z] = Free
  PROVE  \E q \in Buckets :
           /\ m[q] = Free /\ Dist(hash(p), q) <= Dist(hash(p), z)
           /\ \A d \in Buckets : Dist(hash(p), d) < Dist(hash(p), q) => m[d] # Free
           /\ map_insert(m, p, f) = [m EXCEPT ![q] = [page |-> p, frame |-> f]]
<1> DEFINE free == {i \in Buckets : m[Probe(p, i)] = Free}
           l == Least(free)
<1>1. Dist(hash(p), z) \in free
  BY Probes
<1>2. free \subseteq Nat
  BY Capacity
<1>3. l \in free /\ l \in Nat /\ \A j \in free : l <= j
  BY <1>1, <1>2, LeastIsLeast
<1>4. map_insert(m, p, f) = [m EXCEPT ![Probe(p, l)] = [page |-> p, frame |-> f]]
  BY <1>1 DEF map_insert
<1>5. Probe(p, l) \in Buckets /\ m[Probe(p, l)] = Free /\ Dist(hash(p), Probe(p, l)) = l
  BY <1>3, Probes
<1> HIDE DEF l
<1>6. ASSUME NEW d \in Buckets, Dist(hash(p), d) < l PROVE m[d] # Free
  <2>1. Dist(hash(p), d) \in Buckets /\ Probe(p, Dist(hash(p), d)) = d
    BY Probes
  <2>2. Dist(hash(p), d) \notin free
    BY <1>2, <1>3, <1>6, <2>1, Capacity
  <2> QED BY <2>1, <2>2
<1> QED BY <1>1, <1>3, <1>4, <1>5, <1>6

(* Insertion keeps the map sound.                                          *)
LEMMA InsertKeeps ==
  ASSUME NEW m, MapIsSound(m), NEW p \in Pages, \A c \in Buckets : m[c].page # p, NEW f \in Frames,
         NEW z \in Buckets, m[z] = Free
  PROVE  /\ MapIsSound(map_insert(m, p, f))
         /\ \A e \in Entry : Has(map_insert(m, p, f), e) <=> Has(m, e) \/ e = [page |-> p, frame |-> f]
<1>0. m \in MapType /\ OneEntryEach(m) /\ \A c \in Buckets : m[c] # Free => PathIsFull(m, c)
  BY DEF MapIsSound
<1>e. PICK e : e = [page |-> p, frame |-> f]
  OBVIOUS
<1>f. e \in Entry /\ e.page = p
  BY <1>e DEF Entry
<1>1. PICK q \in Buckets :
        /\ m[q] = Free
        /\ \A d \in Buckets : Dist(hash(p), d) < Dist(hash(p), q) => m[d] # Free
        /\ map_insert(m, p, f) = [m EXCEPT ![q] = e]
  BY <1>0, <1>e, InsertTakesTheFirst
<1>2. PICK n : n = map_insert(m, p, f)
  OBVIOUS
<1>3. n \in MapType /\ n[q] = e /\ \A c \in Buckets : c # q => n[c] = m[c]
  BY <1>0, <1>1, <1>2, <1>f DEF MapType
<1>4. e # Free
  BY <1>3, <1>f, Entries
<1>5. OneEntryEach(n)
  BY <1>0, <1>3, <1>f DEF OneEntryEach
<1>6. ASSUME NEW c \in Buckets, n[c] # Free PROVE PathIsFull(n, c)
  <2>1. CASE c = q
    BY <1>1, <1>3, <1>4, <1>f, <2>1 DEF PathIsFull
  <2>2. CASE c # q
    BY <1>0, <1>3, <1>4, <1>6, <2>2 DEF PathIsFull
  <2> QED BY <2>1, <2>2
<1>7. ASSUME NEW x \in Entry PROVE Has(n, x) <=> Has(m, x) \/ x = e
  <2>1. m[q] # x
    BY <1>0, <1>1, Entries
  <2> QED BY <1>3, <2>1 DEF Has
<1> QED BY <1>e, <1>2, <1>3, <1>5, <1>6, <1>7 DEF MapIsSound

(* A probe that passes a on its way to c and stops before z: as seen from  *)
(* b before a, c is between the two.                                       *)
LEMMA Between ==
  ASSUME NEW h \in Buckets, NEW b \in Buckets, NEW a \in Buckets, NEW c \in Buckets, NEW z \in Buckets,
         Dist(h, a) < Dist(h, c), Dist(h, c) <= Dist(h, z), Dist(b, a) <= Dist(b, z)
  PROVE  Dist(b, a) < Dist(b, c) /\ Dist(b, c) <= Dist(b, z)
BY Capacity DEF Dist

(* Distances tell buckets apart.                                           *)
LEMMA DistIsInjective ==
  ASSUME NEW b \in Buckets
  PROVE  /\ \A c \in Buckets : Dist(b, c) \in Nat /\ Dist(b, c) < map_capacity
         /\ \A c, d \in Buckets : Dist(b, c) = Dist(b, d) => c = d
         /\ Dist(b, b) = 0
BY Capacity DEF Dist

\* The loop of _map_remove after i buckets behind b have been done, the run ending
\* at z: what comes later is as it was, the entries are still the same but for the
\* removed one, and only the probes of those to come may meet a bucket of those
\* done that is not in use.
LoopAt(m, b, z, n, i) ==
  /\ n \in MapType
  /\ \A c \in Buckets : Dist(b, c) > i => n[c] = m[c]
  /\ \A e \in Entry : Has(n, e) <=> Has(m, e) /\ e # m[b]
  /\ OneEntryEach(n)
  /\ \A c, d \in Buckets :
       n[c] # Free /\ Dist(hash(n[c].page), d) < Dist(hash(n[c].page), c) =>
         n[d] # Free \/ (i < Dist(b, c) /\ Dist(b, c) < Dist(b, z) /\ Dist(b, d) <= i)

\* One turn of the loop: the entry at a is taken out and inserted again.
ReinsertAt(n, a) == map_insert([n EXCEPT ![a] = Free], n[a].page, n[a].frame)

(* The loop starts with the bucket cleared.                                *)
LEMMA LoopStarts ==
  ASSUME NEW m, MapIsSound(m), NEW b \in Buckets, m[b] # Free, NEW z \in Buckets, m[z] = Free
  PROVE  LoopAt(m, b, z, [m EXCEPT ![b] = Free], 0)
<1>0. m \in MapType /\ OneEntryEach(m) /\ \A c \in Buckets : m[c] # Free => PathIsFull(m, c)
  BY DEF MapIsSound
<1>1. PICK n : n = [m EXCEPT ![b] = Free]
  OBVIOUS
<1>2. n \in MapType /\ n[b] = Free /\ \A c \in Buckets : c # b => n[c] = m[c]
  BY <1>0, <1>1 DEF MapType
<1>3. \A c \in Buckets : Dist(b, c) > 0 => n[c] = m[c]
  BY <1>2, DistIsInjective
<1>4. ASSUME NEW e \in Entry PROVE Has(n, e) <=> Has(m, e) /\ e # m[b]
  <2>1. e # Free
    BY FreeIsNoEntry
  <2>2. ASSUME NEW c \in Buckets, n[c] = e PROVE m[c] = e /\ e # m[b]
    <3>1. c # b /\ m[c] = e
      BY <1>2, <2>1, <2>2
    <3> QED BY <1>0, <2>1, <3>1 DEF OneEntryEach
  <2>3. ASSUME NEW c \in Buckets, m[c] = e, e # m[b] PROVE n[c] = e
    BY <1>2, <2>3
  <2> QED BY <2>2, <2>3 DEF Has
<1>5. OneEntryEach(n)
  BY <1>0, <1>2 DEF OneEntryEach
<1>6. ASSUME NEW c \in Buckets, NEW d \in Buckets, n[c] # Free,
             Dist(hash(n[c].page), d) < Dist(hash(n[c].page), c), n[d] = Free
      PROVE  0 < Dist(b, c) /\ Dist(b, c) < Dist(b, z) /\ Dist(b, d) <= 0
  <2>1. c # b /\ n[c] = m[c] /\ m[c] # Free
    BY <1>2, <1>6
  <2>2. m[d] # Free /\ PathIsFull(m, c)
    BY <1>0, <1>6, <2>1 DEF PathIsFull
  <2>3. d = b
    BY <1>2, <1>6, <2>2
  <2>4. PICK h \in Buckets : h = hash(m[c].page)
    BY <1>0, <2>1, Entries, HashIsABucket
  <2>5. ~(Dist(h, z) < Dist(h, c)) /\ Dist(h, b) < Dist(h, c)
    BY <1>6, <2>1, <2>2, <2>3, <2>4 DEF PathIsFull
  <2>6. Dist(h, c) <= Dist(h, z) /\ Dist(b, b) <= Dist(b, z)
    BY <2>5, DistIsInjective
  <2>7. Dist(b, b) < Dist(b, c) /\ Dist(b, c) <= Dist(b, z)
    BY <2>5, <2>6, Between
  <2>8. c # z
    BY <2>1
  <2> QED BY <2>3, <2>7, <2>8, DistIsInjective
<1> QED BY <1>1, <1>2, <1>3, <1>4, <1>5, <1>6 DEF LoopAt

(* One entry is taken out and inserted again.                              *)
LEMMA LoopGoesOn ==
  ASSUME NEW m, NEW b \in Buckets, NEW z \in Buckets, m[z] = Free, NEW n, NEW i \in Nat, LoopAt(m, b, z, n, i),
         NEW a \in Buckets, Dist(b, a) = i + 1, i + 1 < Dist(b, z), m[a] # Free
  PROVE  LoopAt(m, b, z, ReinsertAt(n, a), i + 1)
<1>0. /\ n \in MapType /\ OneEntryEach(n)
      /\ \A c \in Buckets : Dist(b, c) > i => n[c] = m[c]
      /\ \A e \in Entry : Has(n, e) <=> Has(m, e) /\ e # m[b]
  BY DEF LoopAt
<1>p. \A c, d \in Buckets :
       n[c] # Free /\ Dist(hash(n[c].page), d) < Dist(hash(n[c].page), c) =>
         n[d] # Free \/ (i < Dist(b, c) /\ Dist(b, c) < Dist(b, z) /\ Dist(b, d) <= i)
  BY DEF LoopAt
<1>a. n[a] = m[a] /\ n[a] # Free /\ n[z] = Free
  <2>1. Dist(b, a) > i /\ Dist(b, z) > i
    BY DistIsInjective
  <2> QED BY <1>0, <2>1
<1>e. PICK e : e = n[a]
  OBVIOUS
<1>f. e \in Entry /\ e.page \in Pages /\ e.frame \in Frames /\ e = [page |-> e.page, frame |-> e.frame]
  <2>1. e \in Entry
    BY <1>0, <1>a, <1>e, Entries
  <2> QED BY <2>1 DEF Entry
<1>t. PICK t : t = [n EXCEPT ![a] = Free]
  OBVIOUS
<1>1. t \in MapType /\ t[a] = Free /\ \A c \in Buckets : c # a => t[c] = n[c]
  BY <1>0, <1>t DEF MapType
<1>2. PICK q \in Buckets :
        /\ t[q] = Free /\ Dist(hash(e.page), q) <= Dist(hash(e.page), a)
        /\ \A d \in Buckets : Dist(hash(e.page), d) < Dist(hash(e.page), q) => t[d] # Free
        /\ map_insert(t, e.page, e.frame) = [t EXCEPT ![q] = e]
  BY <1>f, <1>1, InsertTakesTheFirst
<1>r. PICK r : r = ReinsertAt(n, a)
  OBVIOUS
<1>3. r = [t EXCEPT ![q] = e]
  BY <1>e, <1>t, <1>2, <1>r DEF ReinsertAt
<1>4. r \in MapType /\ r[q] = e /\ (\A c \in Buckets : c # q => r[c] = t[c]) /\ e # Free
  BY <1>a, <1>e, <1>f, <1>1, <1>3 DEF MapType
<1>5. q # a => n[q] = Free /\ Dist(b, q) <= i
  <2> SUFFICES ASSUME q # a PROVE n[q] = Free /\ Dist(b, q) <= i
    OBVIOUS
  <2>1. n[q] = Free
    BY <1>1, <1>2
  <2>h. PICK h \in Buckets : h = hash(e.page)
    BY <1>f, HashIsABucket
  <2>2. Dist(h, q) < Dist(h, a)
    BY <1>2, <2>h, DistIsInjective
  <2> QED BY <1>p, <1>a, <1>e, <2>1, <2>2, <2>h
<1>6. \A c \in Buckets : Dist(b, c) > i + 1 => r[c] = m[c]
  <2> TAKE c \in Buckets
  <2> HAVE Dist(b, c) > i + 1
  <2>1. c # a /\ c # q /\ Dist(b, c) > i
    BY <1>5, DistIsInjective
  <2> QED BY <1>0, <1>1, <1>4, <2>1
<1>7. \A c \in Buckets : r[c] # Free /\ c # q => c # a /\ n[c] = r[c]
  BY <1>1, <1>4
<1>8. \A c \in Buckets : n[c] # Free /\ c # a => c # q /\ r[c] = n[c]
  BY <1>1, <1>2, <1>4
<1>9. ASSUME NEW x \in Entry PROVE Has(r, x) <=> Has(n, x)
  <2>1. x # Free
    BY FreeIsNoEntry
  <2>2. ASSUME NEW c \in Buckets, r[c] = x PROVE Has(n, x)
    BY <1>4, <1>7, <1>e, <2>1, <2>2 DEF Has
  <2>3. ASSUME NEW c \in Buckets, n[c] = x PROVE Has(r, x)
    BY <1>4, <1>8, <1>e, <2>1, <2>3 DEF Has
  <2> QED BY <2>2, <2>3 DEF Has
<1>10. OneEntryEach(r)
  <2> SUFFICES ASSUME NEW c \in Buckets, NEW d \in Buckets, r[c] # Free, r[d] # Free, r[c].page = r[d].page
               PROVE  c = d
    BY DEF OneEntryEach
  <2>1. CASE c # q /\ d # q
    BY <1>0, <1>7, <2>1 DEF OneEntryEach
  <2>2. CASE c = q /\ d # q
    BY <1>0, <1>4, <1>7, <1>a, <1>e, <2>2 DEF OneEntryEach
  <2>3. CASE c # q /\ d = q
    BY <1>0, <1>4, <1>7, <1>a, <1>e, <2>3 DEF OneEntryEach
  <2> QED BY <2>1, <2>2, <2>3
<1>11. ASSUME NEW c \in Buckets, NEW d \in Buckets, r[c] # Free,
              Dist(hash(r[c].page), d) < Dist(hash(r[c].page), c), r[d] = Free
       PROVE  i + 1 < Dist(b, c) /\ Dist(b, c) < Dist(b, z) /\ Dist(b, d) <= i + 1
  <2>1. c # q
    BY <1>2, <1>4, <1>11
  <2>2. c # a /\ n[c] = r[c] /\ n[c] # Free
    BY <1>7, <1>11, <2>1
  <2>h. PICK h \in Buckets : h = hash(n[c].page)
    BY <1>0, <2>2, Entries, HashIsABucket
  <2>3. Dist(b, c) # i + 1 /\ Dist(b, c) \in Nat
    BY <2>2, DistIsInjective
  <2>4. CASE n[d] = Free
    <3>1. i < Dist(b, c) /\ Dist(b, c) < Dist(b, z) /\ Dist(b, d) <= i
      BY <1>p, <1>11, <2>2, <2>4
    <3> QED BY <2>3, <3>1, DistIsInjective
  <2>5. CASE n[d] # Free
    <3>1. d = a
      BY <1>8, <1>11, <2>5
    <3>2. Dist(h, a) < Dist(h, c)
      BY <1>11, <2>2, <2>h, <3>1
    <3>3. ~(Dist(h, z) < Dist(h, c))
      <4>1. ~(Dist(b, z) <= i)
        BY DistIsInjective
      <4> QED BY <1>p, <1>a, <2>2, <2>h, <4>1
    <3>4. Dist(h, c) <= Dist(h, z) /\ Dist(b, a) <= Dist(b, z)
      BY <3>3, DistIsInjective
    <3>5. Dist(b, a) < Dist(b, c) /\ Dist(b, c) <= Dist(b, z)
      BY <3>2, <3>4, Between
    <3>6. c # z
      BY <1>a, <2>2
    <3> QED BY <3>1, <3>5, <3>6, DistIsInjective
  <2> QED BY <2>4, <2>5
<1> QED BY <1>r, <1>0, <1>4, <1>6, <1>9, <1>10, <1>11 DEF LoopAt

(* _map_remove takes out the entry of a page and keeps the map sound.      *)
LEMMA RemoveKeeps ==
  ASSUME NEW m, MapIsSound(m), NEW b \in Buckets, m[b] # Free, NEW y \in Buckets, m[y] = Free
  PROVE  /\ MapIsSound(map_remove(m, m[b].page))
         /\ \A e \in Entry : Has(map_remove(m, m[b].page), e) <=> Has(m, e) /\ e # m[b]
<1>0. m \in MapType
  BY DEF MapIsSound
<1> DEFINE At(i) == (b + i) % map_capacity
           cleared == [m EXCEPT ![b] = Free]
           ends == {i \in 1 .. map_capacity : cleared[At(i)] = Free}
           end == Least(ends)
           IsLoop(s, k) == s = [i \in 0 .. k |-> IF i = 0 THEN cleared ELSE ReinsertAt(s[i - 1], At(i))]
<1>c. cleared[b] = Free /\ \A c \in Buckets : c # b => cleared[c] = m[c]
  BY <1>0 DEF MapType
<1> HIDE DEF cleared
<1>1. Dist(b, y) \in ends /\ Dist(b, y) < map_capacity
  <2>1. Dist(b, y) \in Buckets /\ At(Dist(b, y)) = y /\ Dist(b, y) # 0
    <3>1. y # b
      OBVIOUS
    <3> QED BY <3>1, Walks, DistIsInjective
  <2>2. cleared[y] = Free
    BY <1>c
  <2> QED BY <2>1, <2>2, Capacity
<1>2. end \in ends /\ (\A j \in ends : end <= j) /\ end \in Nat
  <2>1. ends \subseteq Nat
    BY Capacity
  <2> HIDE DEF ends
  <2> QED BY <1>1, <2>1, LeastIsLeast
<1> HIDE DEF end
<1>3. end \in 1 .. map_capacity - 1 /\ end \in Buckets /\ At(end) \in Buckets
  <2>1. end \in 1 .. map_capacity /\ end < map_capacity
    <3>1. end \in 1 .. map_capacity
      BY <1>2
    <3> HIDE DEF ends
    <3>2. end <= Dist(b, y) /\ Dist(b, y) \in Nat
      BY <1>1, <1>2, DistIsInjective
    <3> QED BY <1>1, <3>1, <3>2, Capacity
  <2>2. end \in 1 .. map_capacity - 1 /\ end \in Buckets
    BY <2>1, Capacity
  <2> QED BY <2>2, Walks
<1>z. PICK z \in Buckets : z = At(end)
  BY <1>3
<1>4. m[z] = Free /\ Dist(b, z) = end
  <2>1. Dist(b, z) = end
    BY <1>3, <1>z, Walks
  <2>2. z # b
    BY <1>3, <2>1, DistIsInjective
  <2> QED BY <1>2, <1>c, <1>z, <2>1, <2>2
<1>5. ASSUME NEW i \in 1 .. end - 1
      PROVE  At(i) \in Buckets /\ Dist(b, At(i)) = i /\ m[At(i)] # Free
  <2>1. i \in Buckets /\ i \in 1 .. map_capacity /\ i \in Nat /\ i < end
    BY <1>3, Capacity
  <2>2. At(i) \in Buckets /\ Dist(b, At(i)) = i
    BY <2>1, Walks
  <2>3. cleared[At(i)] # Free
    BY <1>2, <2>1
  <2>4. At(i) # b
    BY <2>1, <2>2, DistIsInjective
  <2> QED BY <1>c, <2>2, <2>3, <2>4
<1>6. \E s : IsLoop(s, end - 1)
  <2> DEFINE Done(k) == \E s : IsLoop(s, k)
             bad == {k \in Nat : ~Done(k)}
  <2> HIDE DEF Done
  <2> SUFFICES ASSUME bad # {} PROVE FALSE
    <3>1. end - 1 \in Nat
      BY <1>3, Capacity
    <3>2. bad = {} => Done(end - 1)
      BY <3>1
    <3> QED BY <3>2 DEF Done
  <2>1. Least(bad) \in bad /\ \A j \in bad : Least(bad) <= j
    BY LeastIsLeast
  <2>k. PICK k \in Nat : k = Least(bad)
    BY <2>1
  <2>2. ~Done(k) /\ \A j \in Nat : j < k => Done(j)
    BY <2>1, <2>k
  <2> HIDE DEF bad
  <2>3. CASE k = 0
    <3>1. IsLoop([i \in 0 .. 0 |-> cleared], 0)
      OBVIOUS
    <3> QED BY <2>2, <2>3, <3>1 DEF Done
  <2>4. CASE k # 0
    <3>1. k - 1 \in Nat /\ k - 1 < k
      BY <2>4
    <3>2. PICK s : IsLoop(s, k - 1)
      BY <2>2, <3>1 DEF Done
    <3>3. PICK v : v = ReinsertAt(s[k - 1], At(k))
      OBVIOUS
    <3>4. PICK r : r = [i \in 0 .. k |-> IF i = k THEN v ELSE s[i]]
      OBVIOUS
    <3>5. ASSUME NEW i \in 0 .. k PROVE r[i] = IF i = 0 THEN cleared ELSE ReinsertAt(r[i - 1], At(i))
      <4>1. CASE i = k
        <5>1. r[i] = v /\ r[i - 1] = s[k - 1] /\ i # 0
          BY <2>4, <3>4, <4>1
        <5> QED BY <3>3, <4>1, <5>1
      <4>2. CASE i # k
        <5>1. i \in 0 .. k - 1 /\ r[i] = s[i]
          BY <3>4, <4>2
        <5>2. s[i] = IF i = 0 THEN cleared ELSE ReinsertAt(s[i - 1], At(i))
          BY <3>2, <5>1
        <5>3. i # 0 => r[i - 1] = s[i - 1]
          BY <3>4, <4>2, <5>1
        <5> QED BY <5>1, <5>2, <5>3
      <4> QED BY <4>1, <4>2
    <3>6. IsLoop(r, k)
      BY <3>4, <3>5
    <3> QED BY <2>2, <3>6 DEF Done
  <2> QED BY <2>3, <2>4
<1>s. PICK s : s = CHOOSE x : IsLoop(x, end - 1)
  OBVIOUS
<1>7. \A i \in 0 .. end - 1 : s[i] = IF i = 0 THEN cleared ELSE ReinsertAt(s[i - 1], At(i))
  <2>1. IsLoop(s, end - 1)
    BY <1>6, <1>s
  <2> QED BY <2>1
<1>8. map_remove(m, m[b].page) = s[end - 1]
  <2>1. map_find(m, m[b].page) = b /\ b # NoBucket
    BY FindHit, Capacity
  <2> QED BY <2>1, <1>s DEF map_remove, ReinsertAt, end, ends, cleared
<1>9. \A i \in 0 .. end - 1 : LoopAt(m, b, z, s[i], i)
  <2> DEFINE bad == {i \in 0 .. end - 1 : ~LoopAt(m, b, z, s[i], i)}
  <2> SUFFICES ASSUME bad # {} PROVE FALSE
    OBVIOUS
  <2>0. bad \subseteq Nat
    OBVIOUS
  <2>1. Least(bad) \in bad /\ \A j \in bad : Least(bad) <= j
    BY <2>0, LeastIsLeast
  <2>k. PICK k : k = Least(bad)
    OBVIOUS
  <2>2. k \in 0 .. end - 1 /\ ~LoopAt(m, b, z, s[k], k) /\ \A j \in 0 .. end - 1 : j < k => LoopAt(m, b, z, s[j], j)
    BY <2>1, <2>k
  <2> HIDE DEF bad
  <2>3. CASE k = 0
    <3>1. s[0] = [m EXCEPT ![b] = Free]
      BY <1>7, <2>2, <2>3 DEF cleared
    <3> QED BY <1>4, <2>2, <2>3, <3>1, LoopStarts
  <2>4. CASE k # 0
    <3>1. k - 1 \in 0 .. end - 1 /\ k - 1 < k /\ k - 1 \in Nat /\ (k - 1) + 1 = k /\ k \in 1 .. end - 1 /\ k < end
      BY <1>2, <2>2, <2>4
    <3>2. LoopAt(m, b, z, s[k - 1], k - 1)
      BY <2>2, <3>1
    <3>3. s[k] = ReinsertAt(s[k - 1], At(k))
      BY <1>7, <2>2, <2>4
    <3>4. PICK a \in Buckets : a = At(k) /\ Dist(b, a) = k /\ m[a] # Free
      BY <1>5, <3>1
    <3>5. LoopAt(m, b, z, ReinsertAt(s[k - 1], a), (k - 1) + 1)
      BY <1>4, <3>1, <3>2, <3>4, LoopGoesOn
    <3> QED BY <2>2, <3>1, <3>3, <3>4, <3>5
  <2> QED BY <2>3, <2>4
<1>10. LoopAt(m, b, z, s[end - 1], end - 1)
  BY <1>2, <1>3, <1>9
<1>n. PICK n : n = s[end - 1]
  OBVIOUS
<1>11. \A c \in Buckets : n[c] # Free => PathIsFull(n, c)
  <2>1. \A c \in Buckets : ~(end - 1 < Dist(b, c) /\ Dist(b, c) < Dist(b, z))
    BY <1>2, <1>4, DistIsInjective
  <2> QED BY <1>10, <1>n, <2>1 DEF LoopAt, PathIsFull
<1> QED BY <1>8, <1>10, <1>11, <1>n DEF LoopAt, MapIsSound

-----------------------------------------------------------------------------
(* The LRU list                                                            *)

\* What buffer_pool.c keeps under its mutex.
PoolType ==
  [frames : [Frames -> FrameRec], map : [Buckets -> [page : Pages, frame : Frames] \cup {Free}],
   head : Frames \cup {FRAME_NONE}, tail : Frames \cup {FRAME_NONE}]

\* The links and ends of a pool are those of the list s of n frames, from the
\* head to the tail, ...
Links(pl, s, n) ==
  /\ n \in Nat /\ s \in [1 .. n -> Frames]
  /\ \A i, j \in 1 .. n : s[i] = s[j] => i = j
  /\ pl.head = (IF n = 0 THEN FRAME_NONE ELSE s[1])
  /\ pl.tail = (IF n = 0 THEN FRAME_NONE ELSE s[n])
  /\ \A i \in 1 .. n : /\ pl.frames[s[i]].prev = (IF i = 1 THEN FRAME_NONE ELSE s[i - 1])
                       /\ pl.frames[s[i]].next = (IF i = n THEN FRAME_NONE ELSE s[i + 1])

\* ... which has the frames of V.
Lists(V, s, n) == \A f \in Frames : f \in V <=> \E i \in 1 .. n : s[i] = f

\* Two pools that differ in their lists only.
SameButLinks(pl, other) ==
  /\ other.map = pl.map
  /\ \A g \in Frames : /\ other.frames[g].page = pl.frames[g].page /\ other.frames[g].data = pl.frames[g].data
                       /\ other.frames[g].pin_count = pl.frames[g].pin_count
                       /\ other.frames[g].is_dirty = pl.frames[g].is_dirty
                       /\ other.frames[g].is_valid = pl.frames[g].is_valid

(* FRAME_NONE is no frame.                                                 *)
LEMMA NoneIsNoFrame == FRAME_NONE \notin Frames
BY FramesAssumption DEF FRAME_NONE, Frames

(* _lru_remove takes a frame out of the list, wherever it is.              *)
LEMMA RemoveFromList ==
  ASSUME NEW pl \in PoolType, NEW s, NEW n, Links(pl, s, n), NEW V, Lists(V, s, n), NEW f \in V, f \in Frames
  PROVE  /\ lru_remove(pl, f) \in PoolType /\ SameButLinks(pl, lru_remove(pl, f))
         /\ \E t : Links(lru_remove(pl, f), t, n - 1) /\ Lists(V \ {f}, t, n - 1)
<1>l. /\ n \in Nat /\ s \in [1 .. n -> Frames]
      /\ \A i, j \in 1 .. n : s[i] = s[j] => i = j
      /\ pl.head = (IF n = 0 THEN FRAME_NONE ELSE s[1])
      /\ pl.tail = (IF n = 0 THEN FRAME_NONE ELSE s[n])
      /\ \A i \in 1 .. n : /\ pl.frames[s[i]].prev = (IF i = 1 THEN FRAME_NONE ELSE s[i - 1])
                           /\ pl.frames[s[i]].next = (IF i = n THEN FRAME_NONE ELSE s[i + 1])
  BY DEF Links
<1>k. PICK k \in 1 .. n : s[k] = f
  BY DEF Lists
<1>p. PICK p : p = pl.frames[f].prev
  OBVIOUS
<1>x. PICK x : x = pl.frames[f].next
  OBVIOUS
<1>1. /\ pl.frames \in [Frames -> FrameRec] /\ pl.map \in [Buckets -> [page : Pages, frame : Frames] \cup {Free}]
      /\ pl.head \in Frames \cup {FRAME_NONE} /\ pl.tail \in Frames \cup {FRAME_NONE}
  BY DEF PoolType
<1>2. p \in Frames \cup {FRAME_NONE} /\ x \in Frames \cup {FRAME_NONE}
  BY <1>1, <1>p, <1>x DEF FrameRec
<1>3. p = (IF k = 1 THEN FRAME_NONE ELSE s[k - 1]) /\ x = (IF k = n THEN FRAME_NONE ELSE s[k + 1])
  BY <1>l, <1>k, <1>p, <1>x
<1>g. PICK linked : linked = [g \in Frames |->
        [pl.frames[g] EXCEPT !.next = IF g = p THEN x ELSE IF g = f THEN FRAME_NONE ELSE @,
                             !.prev = IF g = x THEN p ELSE IF g = f THEN FRAME_NONE ELSE @]]
  OBVIOUS
<1>r. PICK r : r = lru_remove(pl, f)
  OBVIOUS
<1>4. r = [pl EXCEPT !.frames = linked, !.head = IF p = FRAME_NONE THEN x ELSE @, !.tail = IF x = FRAME_NONE THEN p ELSE @]
  BY <1>g, <1>p, <1>r, <1>x DEF lru_remove
<1>5. ASSUME NEW g \in Frames
      PROVE  /\ linked[g] \in FrameRec
             /\ linked[g].next = (IF g = p THEN x ELSE IF g = f THEN FRAME_NONE ELSE pl.frames[g].next)
             /\ linked[g].prev = (IF g = x THEN p ELSE IF g = f THEN FRAME_NONE ELSE pl.frames[g].prev)
             /\ linked[g].page = pl.frames[g].page /\ linked[g].data = pl.frames[g].data
             /\ linked[g].pin_count = pl.frames[g].pin_count /\ linked[g].is_dirty = pl.frames[g].is_dirty
             /\ linked[g].is_valid = pl.frames[g].is_valid
  <2>1. pl.frames[g] \in FrameRec
    BY <1>1
  <2> QED BY <1>2, <1>g, <2>1 DEF FrameRec
<1>6. linked \in [Frames -> FrameRec]
  BY <1>5, <1>g
<1>7. /\ r \in PoolType /\ r.frames = linked /\ r.map = pl.map
      /\ r.head = (IF p = FRAME_NONE THEN x ELSE pl.head) /\ r.tail = (IF x = FRAME_NONE THEN p ELSE pl.tail)
  BY <1>2, <1>4, <1>6 DEF PoolType
<1>8. SameButLinks(pl, r)
  BY <1>5, <1>7 DEF SameButLinks
<1>t. PICK t : t = [i \in 1 .. n - 1 |-> IF i < k THEN s[i] ELSE s[i + 1]]
  OBVIOUS
<1>9. n \in Nat /\ n - 1 \in Int /\ k \in Nat /\ 1 <= k /\ k <= n
  BY <1>l, <1>k
<1>10. t \in [1 .. n - 1 -> Frames] /\ \A i \in 1 .. n - 1 : t[i] = IF i < k THEN s[i] ELSE s[i + 1]
  BY <1>l, <1>9, <1>t
<1>11. \A i, j \in 1 .. n - 1 : t[i] = t[j] => i = j
  <2> SUFFICES ASSUME NEW i \in 1 .. n - 1, NEW j \in 1 .. n - 1, t[i] = t[j] PROVE i = j
    OBVIOUS
  <2>1. PICK x1 \in 1 .. n : x1 = (IF i < k THEN i ELSE i + 1) /\ t[i] = s[x1]
    BY <1>9, <1>10
  <2>2. PICK x2 \in 1 .. n : x2 = (IF j < k THEN j ELSE j + 1) /\ t[j] = s[x2]
    BY <1>9, <1>10
  <2>3. s[x1] = s[x2]
    BY <2>1, <2>2
  <2>4. x1 = x2
    BY <1>l, <2>3, Zenon
  <2> QED BY <1>9, <2>1, <2>2, <2>4
<1>12. \A i \in 1 .. n - 1 : t[i] # f
  BY <1>l, <1>k, <1>9, <1>10
<1>13. \A i \in 1 .. n : i # k => \E j \in 1 .. n - 1 : t[j] = s[i]
  <2> TAKE i \in 1 .. n
  <2> HAVE i # k
  <2>1. CASE i < k
    <3>1. i \in 1 .. n - 1 /\ t[i] = s[i]
      BY <1>9, <1>10, <2>1
    <3> QED BY <3>1
  <2>2. CASE i > k
    <3>1. i - 1 \in 1 .. n - 1 /\ ~(i - 1 < k) /\ (i - 1) + 1 = i
      BY <1>9, <2>2
    <3>2. t[i - 1] = s[i]
      BY <1>10, <3>1
    <3> QED BY <3>1, <3>2
  <2> QED BY <1>9, <2>1, <2>2
<1>14. Lists(V \ {f}, t, n - 1)
  <2> SUFFICES ASSUME NEW g \in Frames PROVE g \in V \ {f} <=> \E i \in 1 .. n - 1 : t[i] = g
    BY DEF Lists
  <2>1. ASSUME g \in V, g # f PROVE \E i \in 1 .. n - 1 : t[i] = g
    BY <1>k, <1>13, <2>1 DEF Lists
  <2>2. ASSUME NEW i \in 1 .. n - 1, t[i] = g PROVE g \in V /\ g # f
    <3>1. \E j \in 1 .. n : s[j] = g
      BY <1>9, <1>10, <2>2
    <3> QED BY <1>12, <2>2, <3>1 DEF Lists
  <2> QED BY <2>1, <2>2
<1>15. r.head = (IF n - 1 = 0 THEN FRAME_NONE ELSE t[1]) /\ r.tail = (IF n - 1 = 0 THEN FRAME_NONE ELSE t[n - 1])
  <2>1. p = FRAME_NONE <=> k = 1
    BY <1>l, <1>3, <1>9, NoneIsNoFrame
  <2>2. x = FRAME_NONE <=> k = n
    BY <1>l, <1>3, <1>9, NoneIsNoFrame
  <2>3. r.head = (IF n - 1 = 0 THEN FRAME_NONE ELSE t[1])
    BY <1>l, <1>3, <1>7, <1>9, <1>10, <2>1
  <2>4. r.tail = (IF n - 1 = 0 THEN FRAME_NONE ELSE t[n - 1])
    BY <1>l, <1>3, <1>7, <1>9, <1>10, <2>2
  <2> QED BY <2>3, <2>4
<1>16. ASSUME NEW i \in 1 .. n - 1
       PROVE  /\ r.frames[t[i]].prev = (IF i = 1 THEN FRAME_NONE ELSE t[i - 1])
              /\ r.frames[t[i]].next = (IF i = n - 1 THEN FRAME_NONE ELSE t[i + 1])
  <2>1. t[i] \in Frames /\ t[i] # f
    BY <1>10, <1>12
  <2>2. CASE i < k
    <3>1. t[i] = s[i] /\ i \in 1 .. n
      BY <1>9, <1>10, <2>2
    <3>2. t[i] # x
      BY <1>l, <1>3, <1>9, <2>1, <2>2, <3>1, NoneIsNoFrame
    <3>3. r.frames[t[i]].prev = (IF i = 1 THEN FRAME_NONE ELSE s[i - 1])
      BY <1>l, <1>5, <1>7, <2>1, <3>1, <3>2
    <3>4. i # 1 => t[i - 1] = s[i - 1]
      BY <1>9, <1>10, <2>2
    <3>5. CASE i = k - 1
      <4>1. t[i] = p
        BY <1>3, <1>9, <3>1, <3>5
      <4>2. r.frames[t[i]].next = x
        BY <1>5, <1>7, <2>1, <4>1
      <4>3. i # n - 1 => t[i + 1] = s[k + 1] /\ k # n
        BY <1>9, <1>10, <3>5
      <4>4. i = n - 1 => k = n
        BY <1>9, <3>5
      <4> QED BY <1>3, <3>3, <3>4, <4>2, <4>3, <4>4
    <3>6. CASE i # k - 1
      <4>1. t[i] # p
        <5>1. CASE k = 1
          BY <1>3, <2>1, <5>1, NoneIsNoFrame
        <5>2. CASE k # 1
          <6>1. p = s[k - 1] /\ k - 1 \in 1 .. n
            BY <1>3, <1>9, <5>2
          <6> QED BY <1>l, <3>1, <3>6, <6>1
        <5> QED BY <5>1, <5>2
      <4>2. r.frames[t[i]].next = s[i + 1] /\ i # n
        BY <1>l, <1>5, <1>7, <1>9, <2>1, <2>2, <3>1, <4>1
      <4>3. t[i + 1] = s[i + 1] /\ i # n - 1
        BY <1>9, <1>10, <2>2, <3>6
      <4> QED BY <3>3, <3>4, <4>2, <4>3
    <3> QED BY <3>5, <3>6
  <2>3. CASE i >= k
    <3>1. t[i] = s[i + 1] /\ i + 1 \in 1 .. n
      BY <1>9, <1>10, <2>3
    <3>2. t[i] # p
      <4>1. CASE k = 1
        BY <1>3, <2>1, <4>1, NoneIsNoFrame
      <4>2. CASE k # 1
        <5>1. p = s[k - 1] /\ k - 1 \in 1 .. n /\ k - 1 # i + 1
          BY <1>3, <1>9, <2>3, <4>2
        <5> QED BY <1>l, <3>1, <5>1
      <4> QED BY <4>1, <4>2
    <3>3. r.frames[t[i]].next = (IF i + 1 = n THEN FRAME_NONE ELSE s[(i + 1) + 1])
      <4>1. r.frames[t[i]].next = pl.frames[s[i + 1]].next
        BY <1>5, <1>7, <2>1, <3>1, <3>2
      <4> QED BY <1>l, <3>1, <4>1
    <3>4. (i + 1 = n <=> i = n - 1) /\ (i # n - 1 => t[i + 1] = s[(i + 1) + 1])
      BY <1>9, <1>10, <2>3
    <3>5. CASE i = k
      <4>1. t[i] = x /\ k # n
        BY <1>3, <1>9, <3>1, <3>5
      <4>2. r.frames[t[i]].prev = p
        BY <1>5, <1>7, <2>1, <4>1
      <4>3. i # 1 => t[i - 1] = s[k - 1]
        BY <1>9, <1>10, <3>5
      <4> QED BY <1>3, <3>3, <3>4, <3>5, <4>2, <4>3
    <3>6. CASE i # k
      <4>1. t[i] # x
        <5>1. CASE k = n
          BY <1>3, <2>1, <5>1, NoneIsNoFrame
        <5>2. CASE k # n
          <6>1. x = s[k + 1] /\ k + 1 \in 1 .. n /\ k + 1 # i + 1
            BY <1>3, <1>9, <3>6, <5>2
          <6> QED BY <1>l, <3>1, <6>1
        <5> QED BY <5>1, <5>2
      <4>2. r.frames[t[i]].prev = s[i] /\ i # 1
        <5>1. i + 1 # 1 /\ (i + 1) - 1 = i /\ i # 1
          BY <1>9, <2>3, <3>6
        <5>2. r.frames[t[i]].prev = pl.frames[s[i + 1]].prev
          BY <1>5, <1>7, <2>1, <3>1, <4>1
        <5> QED BY <1>l, <3>1, <5>1, <5>2
      <4>3. t[i - 1] = s[i]
        <5>1. i - 1 \in 1 .. n - 1 /\ ~(i - 1 < k) /\ (i - 1) + 1 = i
          BY <1>9, <2>3, <3>6
        <5> QED BY <1>10, <5>1
      <4> QED BY <3>3, <3>4, <4>2, <4>3
    <3> QED BY <3>5, <3>6
  <2> QED BY <1>9, <2>2, <2>3
<1>17. Links(r, t, n - 1)
  BY <1>9, <1>10, <1>11, <1>15, <1>16 DEF Links
<1> QED BY <1>r, <1>7, <1>8, <1>14, <1>17

(* _lru_push_front puts a frame before the head.                           *)
LEMMA PushOnList ==
  ASSUME NEW pl \in PoolType, NEW s, NEW n, Links(pl, s, n), NEW V, Lists(V, s, n), NEW f \in Frames, f \notin V
  PROVE  /\ lru_push_front(pl, f) \in PoolType /\ SameButLinks(pl, lru_push_front(pl, f))
         /\ \E t : Links(lru_push_front(pl, f), t, n + 1) /\ Lists(V \cup {f}, t, n + 1)
<1>l. /\ n \in Nat /\ s \in [1 .. n -> Frames]
      /\ \A i, j \in 1 .. n : s[i] = s[j] => i = j
      /\ pl.head = (IF n = 0 THEN FRAME_NONE ELSE s[1])
      /\ pl.tail = (IF n = 0 THEN FRAME_NONE ELSE s[n])
      /\ \A i \in 1 .. n : /\ pl.frames[s[i]].prev = (IF i = 1 THEN FRAME_NONE ELSE s[i - 1])
                           /\ pl.frames[s[i]].next = (IF i = n THEN FRAME_NONE ELSE s[i + 1])
  BY DEF Links
<1>1. /\ pl.frames \in [Frames -> FrameRec] /\ pl.map \in [Buckets -> [page : Pages, frame : Frames] \cup {Free}]
      /\ pl.head \in Frames \cup {FRAME_NONE} /\ pl.tail \in Frames \cup {FRAME_NONE}
  BY DEF PoolType
<1>g. PICK linked : linked = [g \in Frames |->
        [pl.frames[g] EXCEPT !.prev = IF g = f THEN FRAME_NONE ELSE IF g = pl.head THEN f ELSE @,
                             !.next = IF g = f THEN pl.head ELSE @]]
  OBVIOUS
<1>r. PICK r : r = lru_push_front(pl, f)
  OBVIOUS
<1>4. r = [pl EXCEPT !.frames = linked, !.head = f, !.tail = IF @ = FRAME_NONE THEN f ELSE @]
  BY <1>g, <1>r DEF lru_push_front
<1>5. ASSUME NEW g \in Frames
      PROVE  /\ linked[g] \in FrameRec
             /\ linked[g].prev = (IF g = f THEN FRAME_NONE ELSE IF g = pl.head THEN f ELSE pl.frames[g].prev)
             /\ linked[g].next = (IF g = f THEN pl.head ELSE pl.frames[g].next)
             /\ linked[g].page = pl.frames[g].page /\ linked[g].data = pl.frames[g].data
             /\ linked[g].pin_count = pl.frames[g].pin_count /\ linked[g].is_dirty = pl.frames[g].is_dirty
             /\ linked[g].is_valid = pl.frames[g].is_valid
  <2>1. pl.frames[g] \in FrameRec
    BY <1>1
  <2> QED BY <1>1, <1>g, <2>1 DEF FrameRec
<1>6. linked \in [Frames -> FrameRec]
  BY <1>5, <1>g
<1>7. /\ r \in PoolType /\ r.frames = linked /\ r.map = pl.map
      /\ r.head = f /\ r.tail = (IF pl.tail = FRAME_NONE THEN f ELSE pl.tail)
  BY <1>4, <1>6 DEF PoolType
<1>8. SameButLinks(pl, r)
  BY <1>5, <1>7 DEF SameButLinks
<1>t. PICK t : t = [i \in 1 .. n + 1 |-> IF i = 1 THEN f ELSE s[i - 1]]
  OBVIOUS
<1>10. t \in [1 .. n + 1 -> Frames] /\ \A i \in 1 .. n + 1 : t[i] = IF i = 1 THEN f ELSE s[i - 1]
  BY <1>l, <1>t
<1>9. \A i \in 1 .. n : s[i] # f /\ s[i] \in Frames
  BY <1>l DEF Lists
<1>a. \A i \in 1 .. n + 1 : i # 1 => i - 1 \in 1 .. n
  BY <1>l
<1>11. \A i, j \in 1 .. n + 1 : t[i] = t[j] => i = j
  <2> SUFFICES ASSUME NEW i \in 1 .. n + 1, NEW j \in 1 .. n + 1, t[i] = t[j] PROVE i = j
    OBVIOUS
  <2>1. CASE i # 1 /\ j # 1
    <3>1. i - 1 = j - 1
      BY <1>l, <1>10, <1>a, <2>1
    <3> QED BY <1>l, <3>1
  <2>2. CASE i = 1 \/ j = 1
    BY <1>9, <1>10, <1>a, <2>2
  <2> QED BY <2>1, <2>2
<1>14. Lists(V \cup {f}, t, n + 1)
  <2> SUFFICES ASSUME NEW g \in Frames PROVE g \in V \cup {f} <=> \E i \in 1 .. n + 1 : t[i] = g
    BY DEF Lists
  <2>1. ASSUME g \in V PROVE \E i \in 1 .. n + 1 : t[i] = g
    <3>1. PICK j \in 1 .. n : s[j] = g
      BY <2>1 DEF Lists
    <3>2. j + 1 \in 1 .. n + 1 /\ j + 1 # 1 /\ (j + 1) - 1 = j
      BY <1>l
    <3> QED BY <1>10, <3>1, <3>2
  <2>2. ASSUME g = f PROVE \E i \in 1 .. n + 1 : t[i] = g
    <3>1. 1 \in 1 .. n + 1
      BY <1>l
    <3> QED BY <1>10, <2>2, <3>1
  <2>3. ASSUME NEW i \in 1 .. n + 1, t[i] = g PROVE g \in V \cup {f}
    BY <1>10, <1>a, <2>3 DEF Lists
  <2> QED BY <2>1, <2>2, <2>3
<1>15. r.head = t[1] /\ r.tail = t[n + 1] /\ n + 1 \in Nat /\ n + 1 # 0
  <2>1. 1 \in 1 .. n + 1 /\ n + 1 \in 1 .. n + 1 /\ n + 1 \in Nat /\ n + 1 # 0 /\ (n + 1) - 1 = n /\ (n + 1 = 1 <=> n = 0)
    BY <1>l
  <2>2. r.head = t[1]
    BY <1>7, <1>10, <2>1
  <2>3. CASE n = 0
    BY <1>l, <1>7, <1>10, <2>1, <2>2, <2>3
  <2>4. CASE n # 0
    <3>1. n \in 1 .. n
      BY <1>l, <2>4
    <3>2. pl.tail = s[n] /\ s[n] # FRAME_NONE
      BY <1>l, <1>9, <2>4, <3>1, NoneIsNoFrame
    <3>3. t[n + 1] = s[n]
      BY <1>10, <2>1, <2>4
    <3> QED BY <1>7, <2>1, <2>2, <3>2, <3>3
  <2> QED BY <2>3, <2>4
<1>16. ASSUME NEW i \in 1 .. n + 1
       PROVE  /\ r.frames[t[i]].prev = (IF i = 1 THEN FRAME_NONE ELSE t[i - 1])
              /\ r.frames[t[i]].next = (IF i = n + 1 THEN FRAME_NONE ELSE t[i + 1])
  <2>1. t[i] \in Frames
    BY <1>10
  <2>2. CASE i = 1
    <3>1. t[i] = f /\ r.frames[t[i]].prev = FRAME_NONE /\ r.frames[t[i]].next = pl.head
      BY <1>5, <1>7, <1>10, <2>2
    <3>2. (i = n + 1 <=> n = 0) /\ (n # 0 => 2 \in 1 .. n + 1 /\ i + 1 = 2 /\ 2 - 1 = 1)
      BY <1>l, <2>2
    <3>3. n # 0 => t[i + 1] = s[1]
      BY <1>10, <3>2
    <3> QED BY <1>l, <2>2, <3>1, <3>2, <3>3
  <2>3. CASE i # 1
    <3>1. i - 1 \in 1 .. n /\ t[i] = s[i - 1] /\ t[i] # f
      BY <1>9, <1>10, <1>a, <2>3
    <3>2. r.frames[t[i]].next = (IF i - 1 = n THEN FRAME_NONE ELSE s[(i - 1) + 1])
      BY <1>l, <1>5, <1>7, <2>1, <3>1
    <3>3. (i - 1 = n <=> i = n + 1) /\ (i # n + 1 => i + 1 \in 1 .. n + 1 /\ i + 1 # 1 /\ (i + 1) - 1 = (i - 1) + 1)
      BY <1>l, <2>3
    <3>4. i # n + 1 => t[i + 1] = s[(i - 1) + 1]
      BY <1>10, <3>3
    <3>5. CASE i = 2
      <4>1. t[i] = pl.head /\ t[i - 1] = f
        <5>1. i - 1 = 1 /\ n # 0 /\ 1 \in 1 .. n + 1
          BY <1>l, <3>1, <3>5
        <5> QED BY <1>l, <1>10, <3>1, <5>1
      <4> QED BY <1>5, <1>7, <2>1, <2>3, <3>1, <3>2, <3>3, <3>4, <4>1
    <3>6. CASE i # 2
      <4>1. i - 1 # 1 /\ i - 1 \in 1 .. n + 1 /\ 1 \in 1 .. n /\ n # 0
        BY <1>l, <3>1, <3>6
      <4>2. t[i] # pl.head
        BY <1>l, <3>1, <4>1
      <4>3. r.frames[t[i]].prev = s[(i - 1) - 1]
        BY <1>l, <1>5, <1>7, <2>1, <3>1, <4>1, <4>2
      <4>4. t[i - 1] = s[(i - 1) - 1]
        BY <1>10, <4>1
      <4> QED BY <2>3, <3>2, <3>3, <3>4, <4>3, <4>4
    <3> QED BY <3>5, <3>6
  <2> QED BY <2>2, <2>3
<1>17. Links(r, t, n + 1)
  BY <1>10, <1>11, <1>15, <1>16 DEF Links
<1> QED BY <1>r, <1>7, <1>8, <1>14, <1>17

-----------------------------------------------------------------------------
(* The pool                                                                *)

\* The frames in use.
ValidIn(pl) == {f \in Frames : pl.frames[f].is_valid}

\* The map, the list and the frames agree.
PoolIsSound(pl) ==
  /\ pl \in PoolType
  /\ MapIsSound(pl.map)
  /\ \A e \in Entry : Has(pl.map, e) <=> pl.frames[e.frame].is_valid /\ pl.frames[e.frame].page = e.page
  /\ \A f \in Frames : pl.frames[f].is_valid => pl.frames[f].page \in Pages
  /\ \E s, n : Links(pl, s, n) /\ Lists(ValidIn(pl), s, n)

\* Two pools that differ in pins, data and dirty flags only.
SameButData(pl, other) ==
  /\ other.map = pl.map /\ other.head = pl.head /\ other.tail = pl.tail
  /\ \A g \in Frames : /\ other.frames[g].page = pl.frames[g].page /\ other.frames[g].is_valid = pl.frames[g].is_valid
                       /\ other.frames[g].prev = pl.frames[g].prev /\ other.frames[g].next = pl.frames[g].next

\* A frame as its users see it.
SameFrame(fr, other) ==
  /\ other.page = fr.page /\ other.data = fr.data /\ other.pin_count = fr.pin_count
  /\ other.is_dirty = fr.is_dirty /\ other.is_valid = fr.is_valid

(* An entry is found in the map under its page only.                       *)
LEMMA EntryAt ==
  ASSUME NEW pl, PoolIsSound(pl), NEW c \in Buckets, pl.map[c] # Free
  PROVE  /\ pl.map[c] \in Entry /\ pl.map[c].page \in Pages /\ pl.map[c].frame \in Frames
         /\ pl.frames[pl.map[c].frame].is_valid /\ pl.frames[pl.map[c].frame].page = pl.map[c].page
<1>1. pl.map \in MapType
  BY DEF MapIsSound, PoolIsSound
<1>2. pl.map[c] \in Entry /\ pl.map[c].page \in Pages /\ pl.map[c].frame \in Frames
  BY <1>1, Entries
<1>3. Has(pl.map, pl.map[c])
  BY DEF Has
<1> QED BY <1>2, <1>3 DEF PoolIsSound

(* The map has an entry of every valid frame.                              *)
LEMMA EntryOf ==
  ASSUME NEW pl, PoolIsSound(pl), NEW f \in Frames, pl.frames[f].is_valid
  PROVE  /\ pl.frames[f].page \in Pages
         /\ \E c \in Buckets : pl.map[c] # Free /\ pl.map[c].page = pl.frames[f].page /\ pl.map[c].frame = f
<1>1. pl.frames[f].page \in Pages
  BY DEF PoolIsSound
<1>2. PICK e : e = [page |-> pl.frames[f].page, frame |-> f]
  OBVIOUS
<1>3. e \in Entry /\ e.page = pl.frames[f].page /\ e.frame = f
  BY <1>1, <1>2 DEF Entry
<1>4. Has(pl.map, e)
  BY <1>3 DEF PoolIsSound
<1>5. e # Free
  BY <1>3, FreeIsNoEntry
<1> QED BY <1>1, <1>3, <1>4, <1>5 DEF Has

(* _map_find finds the frame of a cached page, and no other page.          *)
LEMMA FindsTheFrame ==
  ASSUME NEW pl, PoolIsSound(pl), NEW p \in Pages
  PROVE  /\ map_find(pl.map, p) # NoBucket =>
              /\ map_find(pl.map, p) \in Buckets
              /\ pl.map[map_find(pl.map, p)].frame \in Frames
              /\ pl.frames[pl.map[map_find(pl.map, p)].frame].is_valid
              /\ pl.frames[pl.map[map_find(pl.map, p)].frame].page = p
         /\ \A f \in Frames : pl.frames[f].is_valid /\ pl.frames[f].page = p =>
              /\ map_find(pl.map, p) # NoBucket
              /\ pl.map[map_find(pl.map, p)].frame = f
<1>0. MapIsSound(pl.map) /\ pl.map \in MapType
  BY DEF MapIsSound, PoolIsSound
<1>1. ASSUME map_find(pl.map, p) # NoBucket
      PROVE  /\ map_find(pl.map, p) \in Buckets
             /\ pl.map[map_find(pl.map, p)].frame \in Frames
             /\ pl.frames[pl.map[map_find(pl.map, p)].frame].is_valid
             /\ pl.frames[pl.map[map_find(pl.map, p)].frame].page = p
  <2>1. PICK c \in Buckets : pl.map[c].page = p
    BY <1>0, <1>1, FindMiss
  <2>2. pl.map[c] # Free
    BY <2>1, FreeIsNoEntry
  <2>3. map_find(pl.map, p) = c
    BY <1>0, <2>1, <2>2, FindHit
  <2> QED BY <2>1, <2>2, <2>3, EntryAt
<1>2. ASSUME NEW f \in Frames, pl.frames[f].is_valid, pl.frames[f].page = p
      PROVE  map_find(pl.map, p) # NoBucket /\ pl.map[map_find(pl.map, p)].frame = f
  <2>1. PICK c \in Buckets : pl.map[c] # Free /\ pl.map[c].page = p /\ pl.map[c].frame = f
    BY <1>2, EntryOf
  <2>2. map_find(pl.map, p) = c
    BY <1>0, <2>1, FindHit
  <2> QED BY <2>1, <2>2, Capacity
<1> QED BY <1>1, <1>2

(* A page is in one frame.                                                 *)
LEMMA OneFrameEach ==
  ASSUME NEW pl, PoolIsSound(pl), NEW f \in Frames, NEW g \in Frames, pl.frames[f].is_valid, pl.frames[g].is_valid,
         pl.frames[f].page = pl.frames[g].page
  PROVE  f = g
<1>1. pl.frames[f].page \in Pages
  BY EntryOf
<1> QED BY <1>1, FindsTheFrame

(* The entries of the map are in different frames.                         *)
LEMMA OneEntryPerFrame ==
  ASSUME NEW pl, PoolIsSound(pl), NEW c \in Buckets, NEW d \in Buckets, pl.map[c] # Free, pl.map[d] # Free,
         pl.map[c].frame = pl.map[d].frame
  PROVE  c = d
<1>1. pl.map[c].page = pl.map[d].page
  BY EntryAt
<1> QED BY <1>1 DEF MapIsSound, OneEntryEach, PoolIsSound

(* There are fewer frames than buckets, so the map is never full.          *)
LEMMA RoomInTheMap ==
  ASSUME NEW pl, PoolIsSound(pl)
  PROVE  \E y \in Buckets : pl.map[y] = Free
<1> SUFFICES ASSUME \A y \in Buckets : pl.map[y] # Free PROVE FALSE
  OBVIOUS
<1>1. PICK fn : fn = [c \in Buckets |-> pl.map[c].frame]
  OBVIOUS
<1>2. fn \in [Buckets -> Frames] /\ \A c, d \in Buckets : fn[c] = fn[d] => c = d
  BY <1>1, EntryAt, OneEntryPerFrame
<1>3. fn \in Injection(Buckets, Frames)
  BY <1>2, Fun_IsInj
<1>4. IsFiniteSet(Frames) /\ Cardinality(Frames) = NumFrames
  <2>1. 1 \in Int /\ NumFrames \in Int /\ (IF 1 > NumFrames THEN 0 ELSE NumFrames - 1 + 1) = NumFrames
    BY FramesAssumption
  <2> QED BY <2>1, FS_Interval DEF Frames
<1>5. Cardinality(Buckets) = map_capacity
  <2>1. 0 \in Int /\ map_capacity - 1 \in Int /\ (IF 0 > map_capacity - 1 THEN 0 ELSE map_capacity - 1 - 0 + 1) = map_capacity
    BY Capacity
  <2> QED BY <2>1, FS_Interval DEF Buckets
<1>6. Cardinality(Buckets) <= Cardinality(Frames)
  BY <1>3, <1>4, FS_Injection
<1> QED BY <1>4, <1>5, <1>6, Capacity

(* The links are all that matters for the list.                            *)
LEMMA SameLinks ==
  ASSUME NEW pl, NEW other, NEW s, NEW n, Links(pl, s, n), other.head = pl.head, other.tail = pl.tail,
         \A g \in Frames : other.frames[g].prev = pl.frames[g].prev /\ other.frames[g].next = pl.frames[g].next
  PROVE  Links(other, s, n)
<1>1. \A i \in 1 .. n : s[i] \in Frames
  BY DEF Links
<1> QED BY <1>1 DEF Links

(* Pins, data and dirty flags do not matter for the agreement.             *)
LEMMA DataIsNoMatter ==
  ASSUME NEW pl, PoolIsSound(pl), NEW other \in PoolType, SameButData(pl, other)
  PROVE  PoolIsSound(other)
<1>1. MapIsSound(other.map)
  BY DEF PoolIsSound, SameButData
<1>2. \A e \in Entry : Has(other.map, e) <=> other.frames[e.frame].is_valid /\ other.frames[e.frame].page = e.page
  BY DEF Entry, PoolIsSound, SameButData
<1>3. \A f \in Frames : other.frames[f].is_valid => other.frames[f].page \in Pages
  BY DEF PoolIsSound, SameButData
<1>4. PICK s, n : Links(pl, s, n) /\ Lists(ValidIn(pl), s, n)
  BY DEF PoolIsSound
<1>5. Links(other, s, n)
  BY <1>4, SameLinks DEF SameButData
<1>6. Lists(ValidIn(other), s, n)
  BY <1>4 DEF Lists, SameButData, ValidIn
<1> QED BY <1>1, <1>2, <1>3, <1>5, <1>6 DEF PoolIsSound

(* _lru_touch moves a frame to the head and changes nothing else.          *)
LEMMA Touches ==
  ASSUME NEW pl, PoolIsSound(pl), NEW f \in Frames, pl.frames[f].is_valid
  PROVE  PoolIsSound(lru_touch(pl, f)) /\ SameButLinks(pl, lru_touch(pl, f))
<1>0. pl \in PoolType /\ f \in ValidIn(pl)
  BY DEF PoolIsSound, ValidIn
<1>1. PICK s, n : Links(pl, s, n) /\ Lists(ValidIn(pl), s, n)
  BY DEF PoolIsSound
<1>2. PICK r : r = lru_remove(pl, f)
  OBVIOUS
<1>3. r \in PoolType /\ SameButLinks(pl, r) /\ \E t : Links(r, t, n - 1) /\ Lists(ValidIn(pl) \ {f}, t, n - 1)
  BY <1>0, <1>1, <1>2, RemoveFromList
<1>4. PICK t : Links(r, t, n - 1) /\ Lists(ValidIn(pl) \ {f}, t, n - 1)
  BY <1>3
<1>5. PICK q : q = lru_push_front(r, f)
  OBVIOUS
<1>6. q \in PoolType /\ SameButLinks(r, q)
      /\ \E x : Links(q, x, (n - 1) + 1) /\ Lists((ValidIn(pl) \ {f}) \cup {f}, x, (n - 1) + 1)
  BY <1>3, <1>4, <1>5, PushOnList
<1>7. SameButLinks(pl, q)
  BY <1>3, <1>6 DEF SameButLinks
<1>8. (ValidIn(pl) \ {f}) \cup {f} = ValidIn(q)
  BY <1>0, <1>7 DEF SameButLinks, ValidIn
<1>9. q = lru_touch(pl, f)
  BY <1>2, <1>5 DEF lru_touch
<1>10. PoolIsSound(q)
  <2>1. MapIsSound(q.map)
    BY <1>7 DEF PoolIsSound, SameButLinks
  <2>2. \A e \in Entry : Has(q.map, e) <=> q.frames[e.frame].is_valid /\ q.frames[e.frame].page = e.page
    BY <1>7 DEF Entry, PoolIsSound, SameButLinks
  <2>3. \A g \in Frames : q.frames[g].is_valid => q.frames[g].page \in Pages
    BY <1>7 DEF PoolIsSound, SameButLinks
  <2> QED BY <1>6, <1>8, <2>1, <2>2, <2>3 DEF PoolIsSound
<1> QED BY <1>7, <1>9, <1>10

(* _find_victim takes its victim out of the map and the list.              *)
LEMMA Evicts ==
  ASSUME NEW pl, PoolIsSound(pl), NEW f \in Frames
  PROVE  /\ PoolIsSound(evict(pl, f)) /\ ~evict(pl, f).frames[f].is_valid
         /\ \A g \in Frames : g # f => SameFrame(pl.frames[g], evict(pl, f).frames[g])
<1>1. CASE ~pl.frames[f].is_valid
  BY <1>1 DEF evict, SameFrame
<1>2. CASE pl.frames[f].is_valid
  <2>0. pl \in PoolType /\ MapIsSound(pl.map) /\ f \in ValidIn(pl)
    BY <1>2 DEF PoolIsSound, ValidIn
  <2>m. PICK m : m = map_remove(pl.map, pl.frames[f].page)
    OBVIOUS
  <2>1. PICK b \in Buckets : pl.map[b] # Free /\ pl.map[b].page = pl.frames[f].page /\ pl.map[b].frame = f
    BY <1>2, EntryOf
  <2>2. PICK y \in Buckets : pl.map[y] = Free
    BY RoomInTheMap
  <2>3. MapIsSound(m) /\ \A e \in Entry : Has(m, e) <=> Has(pl.map, e) /\ e # pl.map[b]
    BY <2>0, <2>1, <2>2, <2>m, RemoveKeeps
  <2>4. pl.frames \in [Frames -> FrameRec] /\ pl.head \in Frames \cup {FRAME_NONE} /\ pl.tail \in Frames \cup {FRAME_NONE}
    BY <2>0 DEF PoolType
  <2>5. m \in [Buckets -> [page : Pages, frame : Frames] \cup {Free}]
    BY <2>3 DEF Entry, MapIsSound, MapType
  <2>6. PICK q : q = [pl EXCEPT !.map = map_remove(@, pl.frames[f].page), !.frames[f].is_dirty = FALSE,
                                !.frames[f].is_valid = FALSE]
    OBVIOUS
  <2>7. /\ q \in PoolType /\ q.map = m /\ q.head = pl.head /\ q.tail = pl.tail /\ ~q.frames[f].is_valid
        /\ \A g \in Frames : q.frames[g].prev = pl.frames[g].prev /\ q.frames[g].next = pl.frames[g].next
        /\ \A g \in Frames : g # f => q.frames[g] = pl.frames[g]
    <3>1. q = [pl EXCEPT !.map = m, !.frames = [pl.frames EXCEPT ![f] = [pl.frames[f] EXCEPT !.is_dirty = FALSE, !.is_valid = FALSE]]]
      BY <2>0, <2>4, <2>6, <2>m DEF PoolType, FrameRec
    <3>2. [pl.frames EXCEPT ![f] = [pl.frames[f] EXCEPT !.is_dirty = FALSE, !.is_valid = FALSE]] \in [Frames -> FrameRec]
      BY <2>4 DEF FrameRec
    <3>3. PICK fs : fs = [pl.frames EXCEPT ![f] = [pl.frames[f] EXCEPT !.is_dirty = FALSE, !.is_valid = FALSE]]
      OBVIOUS
    <3>4. /\ ~fs[f].is_valid /\ \A g \in Frames : g # f => fs[g] = pl.frames[g]
          /\ \A g \in Frames : fs[g].prev = pl.frames[g].prev /\ fs[g].next = pl.frames[g].next
      BY <2>4, <3>3 DEF FrameRec
    <3>5. q = [pl EXCEPT !.map = m, !.frames = fs] /\ fs \in [Frames -> FrameRec]
      BY <3>1, <3>2, <3>3
    <3>6. q \in PoolType /\ q.map = m /\ q.head = pl.head /\ q.tail = pl.tail /\ q.frames = fs
      BY <2>0, <2>5, <3>5 DEF PoolType
    <3> QED BY <3>4, <3>6
  <2>8. PICK s, n : Links(pl, s, n) /\ Lists(ValidIn(pl), s, n)
    BY DEF PoolIsSound
  <2>9. Links(q, s, n)
    BY <2>7, <2>8, SameLinks
  <2>10. PICK r : r = lru_remove(q, f)
    OBVIOUS
  <2>11. r \in PoolType /\ SameButLinks(q, r) /\ \E t : Links(r, t, n - 1) /\ Lists(ValidIn(pl) \ {f}, t, n - 1)
    BY <2>0, <2>7, <2>8, <2>9, <2>10, RemoveFromList
  <2>12. r = evict(pl, f)
    BY <1>2, <2>6, <2>10 DEF evict
  <2>13. r.map = m /\ ~r.frames[f].is_valid /\ \A g \in Frames : g # f => SameFrame(pl.frames[g], r.frames[g])
    BY <2>7, <2>11 DEF SameButLinks, SameFrame
  <2>14. ValidIn(pl) \ {f} = ValidIn(r)
    BY <2>13 DEF SameFrame, ValidIn
  <2>15. ASSUME NEW e \in Entry
         PROVE  Has(r.map, e) <=> r.frames[e.frame].is_valid /\ r.frames[e.frame].page = e.page
    <3>1. e.frame \in Frames
      BY DEF Entry
    <3>2. Has(pl.map, e) <=> pl.frames[e.frame].is_valid /\ pl.frames[e.frame].page = e.page
      BY DEF PoolIsSound
    <3>3. CASE e.frame = f
      <4>1. Has(pl.map, e) => e = pl.map[b]
        BY <2>1, <3>3, FreeIsNoEntry, OneEntryPerFrame DEF Has
      <4> QED BY <2>3, <2>13, <3>3, <4>1
    <3>4. CASE e.frame # f
      <4>1. e # pl.map[b]
        BY <2>1, <3>4
      <4> QED BY <2>3, <2>13, <3>1, <3>2, <3>4, <4>1 DEF SameFrame
    <3> QED BY <3>3, <3>4
  <2>16. \A g \in Frames : r.frames[g].is_valid => r.frames[g].page \in Pages
    BY <2>13 DEF PoolIsSound, SameFrame
  <2>17. PoolIsSound(r)
    <3>1. \E t, k : Links(r, t, k) /\ Lists(ValidIn(r), t, k)
      BY <2>11, <2>14
    <3>2. r \in PoolType /\ MapIsSound(r.map)
      BY <2>3, <2>11, <2>13
    <3> QED BY <2>15, <2>16, <3>1, <3>2 DEF PoolIsSound
  <2> QED BY <2>12, <2>13, <2>17
<1> QED BY <1>1, <1>2

\* The pool with page p, read as d, in frame f.
Loaded(pl, p, f, d) ==
  [pl EXCEPT !.map = map_insert(@, p, f),
             !.frames[f] = [pl.frames[f] EXCEPT !.page = p, !.pin_count = 1, !.data = d,
                                               !.is_dirty = FALSE, !.is_valid = TRUE]]

(* The rest of buffer_pool_fetch puts a page that is not cached into an     *)
(* unused frame.                                                           *)
LEMMA Loads ==
  ASSUME NEW pl, PoolIsSound(pl), NEW f \in Frames, ~pl.frames[f].is_valid, NEW p \in Pages, NEW d \in PageData,
         \A g \in Frames : ~(pl.frames[g].is_valid /\ pl.frames[g].page = p),
         NEW r, r = lru_push_front(Loaded(pl, p, f, d), f)
  PROVE  /\ PoolIsSound(r)
         /\ r.frames[f].is_valid /\ r.frames[f].page = p /\ r.frames[f].data = d /\ r.frames[f].pin_count = 1
         /\ \A g \in Frames : g # f => SameFrame(pl.frames[g], r.frames[g])
<1>l. PICK loaded : loaded = Loaded(pl, p, f, d)
  OBVIOUS
<1>0. pl \in PoolType /\ MapIsSound(pl.map) /\ f \notin ValidIn(pl)
  BY DEF PoolIsSound, ValidIn
<1>m. PICK m : m = map_insert(pl.map, p, f)
  OBVIOUS
<1>1. \A c \in Buckets : pl.map[c].page # p
  BY EntryAt, FreeIsNoEntry
<1>2. PICK y \in Buckets : pl.map[y] = Free
  BY RoomInTheMap
<1>3. MapIsSound(m) /\ \A e \in Entry : Has(m, e) <=> Has(pl.map, e) \/ e = [page |-> p, frame |-> f]
  BY <1>0, <1>1, <1>2, <1>m, InsertKeeps
<1>4. pl.frames \in [Frames -> FrameRec] /\ pl.head \in Frames \cup {FRAME_NONE} /\ pl.tail \in Frames \cup {FRAME_NONE}
  BY <1>0 DEF PoolType
<1>5. m \in [Buckets -> [page : Pages, frame : Frames] \cup {Free}]
  BY <1>3 DEF Entry, MapIsSound, MapType
<1>6. PICK fr : fr = [pl.frames[f] EXCEPT !.page = p, !.pin_count = 1, !.data = d, !.is_dirty = FALSE, !.is_valid = TRUE]
  OBVIOUS
<1>7. /\ fr \in FrameRec /\ fr.page = p /\ fr.pin_count = 1 /\ fr.data = d /\ fr.is_valid
      /\ fr.prev = pl.frames[f].prev /\ fr.next = pl.frames[f].next
  BY <1>4, <1>6 DEF FrameRec
<1>8. PICK fs : fs = [pl.frames EXCEPT ![f] = fr]
  OBVIOUS
<1>9. fs \in [Frames -> FrameRec] /\ fs[f] = fr /\ \A g \in Frames : g # f => fs[g] = pl.frames[g]
  BY <1>4, <1>7, <1>8
<1>10. loaded = [pl EXCEPT !.map = m, !.frames = fs]
  BY <1>0, <1>4, <1>6, <1>8, <1>l, <1>m DEF Loaded, PoolType
<1>11. loaded \in PoolType /\ loaded.map = m /\ loaded.head = pl.head /\ loaded.tail = pl.tail /\ loaded.frames = fs
  BY <1>0, <1>5, <1>9, <1>10 DEF PoolType
<1>12. \A g \in Frames : loaded.frames[g].prev = pl.frames[g].prev /\ loaded.frames[g].next = pl.frames[g].next
  BY <1>7, <1>9, <1>11
<1>13. PICK s, n : Links(pl, s, n) /\ Lists(ValidIn(pl), s, n)
  BY DEF PoolIsSound
<1>14. Links(loaded, s, n)
  BY <1>11, <1>12, <1>13, SameLinks
<1>15. r \in PoolType /\ SameButLinks(loaded, r) /\ \E t : Links(r, t, n + 1) /\ Lists(ValidIn(pl) \cup {f}, t, n + 1)
  BY <1>0, <1>11, <1>13, <1>14, <1>l, PushOnList
<1>16. /\ r.map = m /\ r.frames[f].is_valid /\ r.frames[f].page = p /\ r.frames[f].data = d /\ r.frames[f].pin_count = 1
       /\ \A g \in Frames : g # f => SameFrame(pl.frames[g], r.frames[g])
  <2>1. r.map = m /\ \A g \in Frames : SameFrame(loaded.frames[g], r.frames[g])
    BY <1>11, <1>15 DEF SameButLinks, SameFrame
  <2>2. SameFrame(fr, r.frames[f])
    BY <1>9, <1>11, <2>1
  <2>3. \A g \in Frames : g # f => SameFrame(pl.frames[g], r.frames[g])
    BY <1>9, <1>11, <2>1
  <2> QED BY <1>7, <2>1, <2>2, <2>3 DEF SameFrame
<1>17. ValidIn(pl) \cup {f} = ValidIn(r)
  BY <1>16 DEF SameFrame, ValidIn
<1>18. ASSUME NEW e \in Entry
       PROVE  Has(r.map, e) <=> r.frames[e.frame].is_valid /\ r.frames[e.frame].page = e.page
  <2>1. e.frame \in Frames
    BY DEF Entry
  <2>2. Has(pl.map, e) <=> pl.frames[e.frame].is_valid /\ pl.frames[e.frame].page = e.page
    BY DEF PoolIsSound
  <2>3. CASE e.frame = f
    <3>1. ~Has(pl.map, e)
      BY <2>2, <2>3
    <3>2. e = [page |-> p, frame |-> f] <=> e.page = p
      BY <2>3 DEF Entry
    <3> QED BY <1>3, <1>16, <2>3, <3>1, <3>2
  <2>4. CASE e.frame # f
    <3>1. e # [page |-> p, frame |-> f]
      BY <2>4
    <3> QED BY <1>3, <1>16, <2>1, <2>2, <2>4, <3>1 DEF SameFrame
  <2> QED BY <2>3, <2>4
<1>19. \A g \in Frames : r.frames[g].is_valid => r.frames[g].page \in Pages
  BY <1>16 DEF PoolIsSound, SameFrame
<1>20. \E t, k : Links(r, t, k) /\ Lists(ValidIn(r), t, k)
  BY <1>15, <1>17
<1>21. PoolIsSound(r)
  BY <1>3, <1>15, <1>16, <1>18, <1>19, <1>20 DEF PoolIsSound
<1> QED BY <1>16, <1>21

(* The list is no longer than there are frames.                            *)
LEMMA ListIsShort ==
  ASSUME NEW pl, NEW s, NEW n, Links(pl, s, n)
  PROVE  n <= NumFrames
<1>1. n \in Nat /\ s \in [1 .. n -> Frames] /\ \A i, j \in 1 .. n : s[i] = s[j] => i = j
  BY DEF Links
<1>2. s \in Injection(1 .. n, Frames)
  BY <1>1, Fun_IsInj
<1>3. IsFiniteSet(Frames) /\ Cardinality(Frames) = NumFrames
  <2>1. 1 \in Int /\ NumFrames \in Int /\ (IF 1 > NumFrames THEN 0 ELSE NumFrames - 1 + 1) = NumFrames
    BY FramesAssumption
  <2> QED BY <2>1, FS_Interval DEF Frames
<1>4. Cardinality(1 .. n) = n
  <2>1. 1 \in Int /\ n \in Int /\ (IF 1 > n THEN 0 ELSE n - 1 + 1) = n
    BY <1>1
  <2> QED BY <2>1, FS_Interval
<1> QED BY <1>2, <1>3, <1>4, FS_Injection

(* The walk from the tail goes down the list, and stops behind the head.   *)
LEMMA WalkIsTheList ==
  ASSUME NEW pl, NEW s, NEW n, Links(pl, s, n)
  PROVE  /\ \A i \in 0 .. n - 1 : FromTail(pl)[i] = s[n - i]
         /\ \A i \in n .. NumFrames : FromTail(pl)[i] = FRAME_NONE
<1>l. /\ n \in Nat /\ s \in [1 .. n -> Frames]
      /\ pl.tail = (IF n = 0 THEN FRAME_NONE ELSE s[n])
      /\ \A i \in 1 .. n : pl.frames[s[i]].prev = (IF i = 1 THEN FRAME_NONE ELSE s[i - 1])
  BY DEF Links
<1>n. n <= NumFrames /\ NumFrames \in Nat
  BY FramesAssumption, ListIsShort
<1> DEFINE IsWalk(w) == w = [i \in 0 .. NumFrames |->
             IF i = 0 THEN pl.tail
             ELSE IF w[i - 1] = FRAME_NONE THEN FRAME_NONE ELSE pl.frames[w[i - 1]].prev]
           down == [i \in 0 .. NumFrames |-> IF i < n THEN s[n - i] ELSE FRAME_NONE]
<1>1. FromTail(pl) = CHOOSE w : IsWalk(w)
  BY DEF FromTail
<1>2. \A i \in 0 .. NumFrames : down[i] = IF i < n THEN s[n - i] ELSE FRAME_NONE
  OBVIOUS
<1>3. ASSUME NEW i \in 0 .. NumFrames
      PROVE  down[i] = IF i = 0 THEN pl.tail
                       ELSE IF down[i - 1] = FRAME_NONE THEN FRAME_NONE ELSE pl.frames[down[i - 1]].prev
  <2> HIDE DEF down
  <2>1. CASE i = 0
    <3>1. n - 0 = n /\ (0 < n <=> n # 0)
      BY <1>l
    <3> QED BY <1>l, <1>2, <2>1, <3>1
  <2>2. CASE i # 0
    <3>1. i - 1 \in 0 .. NumFrames /\ i \in Nat
      BY <1>n, <2>2
    <3>2. CASE i - 1 < n
      <4>1. n - (i - 1) \in 1 .. n /\ n - i = (n - (i - 1)) - 1 /\ (i < n <=> n - (i - 1) # 1)
        BY <1>l, <3>1, <3>2, <2>2
      <4>2. down[i - 1] = s[n - (i - 1)] /\ down[i - 1] # FRAME_NONE
        BY <1>l, <1>2, <3>1, <3>2, <4>1, NoneIsNoFrame
      <4> QED BY <1>l, <1>2, <2>2, <4>1, <4>2
    <3>3. CASE ~(i - 1 < n)
      <4>1. ~(i < n)
        BY <1>l, <3>1, <3>3
      <4> QED BY <1>2, <2>2, <3>1, <3>3, <4>1
    <3> QED BY <3>2, <3>3
  <2> QED BY <2>1, <2>2
<1>4. IsWalk(down)
  <2>1. down = [i \in 0 .. NumFrames |-> down[i]]
    OBVIOUS
  <2>2. PICK w : w = down
    OBVIOUS
  <2> HIDE DEF down
  <2> QED BY <1>3, <2>1
<1>5. PICK at : at = FromTail(pl)
  OBVIOUS
<1>6. IsWalk(at)
  <2> HIDE DEF IsWalk, down
  <2> QED BY <1>1, <1>4, <1>5
<1>7. \A i \in 0 .. NumFrames : at[i] = IF i = 0 THEN pl.tail
        ELSE IF at[i - 1] = FRAME_NONE THEN FRAME_NONE ELSE pl.frames[at[i - 1]].prev
  BY <1>6
<1>8. \A i \in 0 .. NumFrames : at[i] = down[i]
  <2> DEFINE wrong == {i \in 0 .. NumFrames : at[i] # down[i]}
  <2> SUFFICES ASSUME wrong # {} PROVE FALSE
    OBVIOUS
  <2>1. PICK k : k = Least(wrong)
    OBVIOUS
  <2>2. wrong \subseteq Nat
    OBVIOUS
  <2>3. k \in wrong /\ k \in Nat /\ \A j \in wrong : k <= j
    <3> HIDE DEF wrong
    <3> QED BY <2>1, <2>2, LeastIsLeast
  <2> HIDE DEF down
  <2>4. k \in 0 .. NumFrames /\ at[k] # down[k]
    BY <2>3
  <2>5. k # 0
    BY <1>3, <1>7, <2>4
  <2>6. k - 1 \in 0 .. NumFrames /\ ~(k <= k - 1)
    BY <1>n, <2>3, <2>4, <2>5
  <2>7. at[k - 1] = down[k - 1]
    BY <2>3, <2>6
  <2> QED BY <1>3, <1>7, <2>4, <2>5, <2>7
<1> HIDE DEF down, IsWalk
<1>9. \A i \in 0 .. n - 1 : i \in 0 .. NumFrames /\ i < n
  BY <1>l, <1>n
<1>10. \A i \in n .. NumFrames : i \in 0 .. NumFrames /\ ~(i < n)
  BY <1>l, <1>n
<1> QED BY <1>2, <1>5, <1>8, <1>9, <1>10

(* _find_victim gives an unused frame, or a valid one without pins, or none. *)
LEMMA VictimIsUnpinned ==
  ASSUME NEW pl, PoolIsSound(pl), NEW f, f = find_victim(pl), f # FRAME_NONE
  PROVE  f \in Frames /\ (pl.frames[f].is_valid => pl.frames[f].pin_count = 0)
<1> DEFINE unused == {g \in Frames : ~pl.frames[g].is_valid}
           at == FromTail(pl)
           stops == {i \in 0 .. NumFrames : at[i] = FRAME_NONE \/ pl.frames[at[i]].pin_count = 0}
<1>1. f = IF unused # {} THEN Least(unused) ELSE at[Least(stops)]
  BY DEF find_victim
<1>2. unused \subseteq Nat /\ stops \subseteq Nat
  BY FramesAssumption DEF Frames
<1>3. CASE unused # {}
  <2>1. f \in unused
    <3> HIDE DEF unused, stops, at
    <3> QED BY <1>1, <1>2, <1>3, LeastIsLeast
  <2> QED BY <2>1
<1>4. CASE unused = {}
  <2>1. PICK s, n : Links(pl, s, n) /\ Lists(ValidIn(pl), s, n)
    BY DEF PoolIsSound
  <2>2. n \in Nat /\ s \in [1 .. n -> Frames] /\ NumFrames \in Nat /\ n <= NumFrames
    <3>1. n <= NumFrames
      BY <2>1, ListIsShort
    <3> QED BY <2>1, <3>1, FramesAssumption DEF Links
  <2>3. /\ \A i \in 0 .. n - 1 : at[i] = s[n - i]
        /\ \A i \in n .. NumFrames : at[i] = FRAME_NONE
    BY <2>1, WalkIsTheList
  <2> HIDE DEF at
  <2>4. n \in stops
    BY <2>2, <2>3
  <2>5. PICK k : k = Least(stops)
    OBVIOUS
  <2>6. k \in stops
    <3> HIDE DEF stops
    <3> QED BY <1>2, <2>4, <2>5, LeastIsLeast
  <2>7. f = at[k] /\ k \in 0 .. NumFrames
    BY <1>1, <1>4, <2>5, <2>6
  <2>8. k \in 0 .. n - 1
    BY <2>2, <2>3, <2>7
  <2>9. n - k \in 1 .. n /\ f = s[n - k]
    BY <2>2, <2>3, <2>7, <2>8
  <2> QED BY <2>2, <2>6, <2>7, <2>9
<1> QED BY <1>3, <1>4

\* What the users hold.
HeldType == [Users -> {Idle} \cup [page : Pages, frame : Frames, wrote : BOOLEAN]]

\* The users that hold a frame.
Holders(hl, f) == {u \in Users : hl[u] # Idle /\ hl[u].frame = f}

\* The pin counts are those of the users that hold a frame, and a user's frame
\* has its page.
PinsMatch(pl, hl) ==
  /\ \A u \in Users : hl[u] # Idle => pl.frames[hl[u].frame].is_valid /\ pl.frames[hl[u].frame].page = hl[u].page
  /\ \A f \in Frames : pl.frames[f].is_valid => pl.frames[f].pin_count = Cardinality(Holders(hl, f))

\* A page that is not dirty is on the disk, or a user that has written to it has
\* still to say so.
NothingIsLost(pl, hl, fl) ==
  \A f \in Frames : pl.frames[f].is_valid =>
    \/ pl.frames[f].is_dirty
    \/ pl.frames[f].data = fl[pl.frames[f].page]
    \/ \E u \in Users : hl[u] # Idle /\ hl[u].frame = f /\ hl[u].wrote

\* The inductive invariant of the pool.
PoolInv ==
  /\ PoolTypeOK
  /\ PoolIsSound(pool)
  /\ PinsMatch(pool, held)
  /\ writeFaults = 0 => NothingIsLost(pool, held, files)
  /\ ~open => pool = EmptyPool /\ \A u \in Users : held[u] = Idle

\* The contents of the pages, for any pool and any files, ...
ContentsOf(pl, fl) == [p \in Pages |->
  IF \E f \in ValidIn(pl) : pl.frames[f].page = p
  THEN pl.frames[CHOOSE f \in ValidIn(pl) : pl.frames[f].page = p].data
  ELSE fl[p]]

\* ... and those of one page.
ContentIs(pl, fl, p, v) ==
  \/ \E f \in Frames : pl.frames[f].is_valid /\ pl.frames[f].page = p /\ pl.frames[f].data = v
  \/ (\A f \in Frames : ~(pl.frames[f].is_valid /\ pl.frames[f].page = p)) /\ fl[p] = v

(* What a page contains.                                                   *)
LEMMA ContentAt ==
  ASSUME NEW pl, PoolIsSound(pl), NEW fl, NEW p \in Pages, NEW v, ContentIs(pl, fl, p, v)
  PROVE  ContentsOf(pl, fl)[p] = v
<1>1. CASE \A f \in Frames : ~(pl.frames[f].is_valid /\ pl.frames[f].page = p)
  <2>1. ~\E f \in ValidIn(pl) : pl.frames[f].page = p
    BY <1>1 DEF ValidIn
  <2>2. fl[p] = v
    BY <1>1 DEF ContentIs
  <2> QED BY <2>1, <2>2 DEF ContentsOf
<1>2. CASE \E f \in Frames : pl.frames[f].is_valid /\ pl.frames[f].page = p
  <2>1. PICK f \in Frames : pl.frames[f].is_valid /\ pl.frames[f].page = p /\ pl.frames[f].data = v
    BY <1>2 DEF ContentIs
  <2>2. f \in ValidIn(pl)
    BY <2>1 DEF ValidIn
  <2>3. PICK g : g = CHOOSE x \in ValidIn(pl) : pl.frames[x].page = p
    OBVIOUS
  <2>4. g \in ValidIn(pl) /\ pl.frames[g].page = p
    BY <2>1, <2>2, <2>3
  <2>5. g = f
    BY <2>1, <2>4, OneFrameEach DEF ValidIn
  <2>6. ContentsOf(pl, fl)[p] = pl.frames[g].data
    BY <2>1, <2>2, <2>3 DEF ContentsOf
  <2> QED BY <2>1, <2>5, <2>6
<1> QED BY <1>1, <1>2

(* Every page contains something.                                          *)
LEMMA ContentExists ==
  ASSUME NEW pl, PoolIsSound(pl), NEW fl, NEW p \in Pages
  PROVE  ContentIs(pl, fl, p, ContentsOf(pl, fl)[p])
<1>1. PICK v : ContentIs(pl, fl, p, v)
  BY DEF ContentIs
<1> QED BY <1>1, ContentAt

(* Pools whose pages contain the same have the same contents.              *)
LEMMA ContentsKept ==
  ASSUME NEW pl, PoolIsSound(pl), NEW fl, NEW other, PoolIsSound(other), NEW gl,
         \A p \in Pages : \A v : ContentIs(pl, fl, p, v) => ContentIs(other, gl, p, v)
  PROVE  ContentsOf(other, gl) = ContentsOf(pl, fl)
<1>1. \A p \in Pages : ContentsOf(other, gl)[p] = ContentsOf(pl, fl)[p]
  BY ContentAt, ContentExists
<1>2. \A p \in Pages : ContentIs(pl, fl, p, ContentsOf(pl, fl)[p])
  BY ContentExists
<1>3. PICK c1 : c1 = ContentsOf(other, gl)
  OBVIOUS
<1>4. PICK c2 : c2 = ContentsOf(pl, fl)
  OBVIOUS
<1>5. c1 = [p \in Pages |-> c1[p]]
  BY <1>3 DEF ContentsOf
<1>6. c2 = [p \in Pages |-> c2[p]]
  BY <1>4 DEF ContentsOf
<1> QED BY <1>1, <1>3, <1>4, <1>5, <1>6

(* The holders of a frame can be counted.                                  *)
LEMMA HoldersAreFinite ==
  ASSUME NEW hl, NEW f
  PROVE  IsFiniteSet(Holders(hl, f)) /\ Cardinality(Holders(hl, f)) \in Nat
<1>1. Holders(hl, f) \subseteq Users
  BY DEF Holders
<1>2. IsFiniteSet(Holders(hl, f))
  BY <1>1, FS_Subset, UsersAssumption
<1> QED BY <1>2, FS_CardinalityType

(* A user that holds a page is not idle.                                   *)
LEMMA HoldIsNotIdle ==
  ASSUME NEW h, h \in [page : Pages, frame : Frames, wrote : BOOLEAN]
  PROVE  h # Idle
BY UsersAssumption DEF Frames

\* What is held when u has fetched page p, ...
Holding(hl, u, p, f) == [hl EXCEPT ![u] = [page |-> p, frame |-> f, wrote |-> FALSE]]

(* A fetch adds a holder to its frame.                                     *)
LEMMA HolderComes ==
  ASSUME NEW hl \in HeldType, NEW u \in Users, hl[u] = Idle, NEW p \in Pages, NEW f \in Frames,
         NEW kl, kl = Holding(hl, u, p, f)
  PROVE  /\ kl \in HeldType /\ kl[u] # Idle /\ kl[u].page = p /\ kl[u].frame = f
         /\ \A w \in Users : w # u => kl[w] = hl[w]
         /\ Cardinality(Holders(kl, f)) = Cardinality(Holders(hl, f)) + 1
         /\ \A g \in Frames : g # f => Holders(kl, g) = Holders(hl, g)
<1>1. PICK h : h = [page |-> p, frame |-> f, wrote |-> FALSE]
  OBVIOUS
<1>2. h \in [page : Pages, frame : Frames, wrote : BOOLEAN] /\ h.page = p /\ h.frame = f
  BY <1>1
<1>3. h # Idle
  BY <1>2, HoldIsNotIdle
<1>4. kl \in HeldType /\ kl[u] = h /\ \A w \in Users : w # u => kl[w] = hl[w]
  BY <1>1, <1>2 DEF HeldType, Holding
<1>5. Holders(kl, f) = Holders(hl, f) \cup {u} /\ u \notin Holders(hl, f)
  BY <1>2, <1>3, <1>4 DEF Holders
<1>6. Cardinality(Holders(kl, f)) = Cardinality(Holders(hl, f)) + 1
  BY <1>5, FS_AddElement, HoldersAreFinite
<1>7. \A g \in Frames : g # f => Holders(kl, g) = Holders(hl, g)
  BY <1>2, <1>4 DEF Holders
<1> QED BY <1>2, <1>3, <1>4, <1>6, <1>7

\* ... and when u has released its page.
Released(hl, u) == [hl EXCEPT ![u] = Idle]

(* An unpin takes a holder from its frame.                                 *)
LEMMA HolderGoes ==
  ASSUME NEW hl \in HeldType, NEW u \in Users, hl[u] # Idle, NEW kl, kl = Released(hl, u)
  PROVE  /\ kl \in HeldType /\ kl[u] = Idle /\ \A w \in Users : w # u => kl[w] = hl[w]
         /\ Cardinality(Holders(kl, hl[u].frame)) = Cardinality(Holders(hl, hl[u].frame)) - 1
         /\ Cardinality(Holders(hl, hl[u].frame)) # 0
         /\ \A g \in Frames : g # hl[u].frame => Holders(kl, g) = Holders(hl, g)
<1>1. kl \in HeldType /\ kl[u] = Idle /\ \A w \in Users : w # u => kl[w] = hl[w]
  BY DEF HeldType, Released
<1>2. Holders(kl, hl[u].frame) = Holders(hl, hl[u].frame) \ {u} /\ u \in Holders(hl, hl[u].frame)
  BY <1>1 DEF Holders
<1>3. Cardinality(Holders(kl, hl[u].frame)) = Cardinality(Holders(hl, hl[u].frame)) - 1
  BY <1>2, FS_RemoveElement, HoldersAreFinite
<1>4. Cardinality(Holders(hl, hl[u].frame)) # 0
  BY <1>2, FS_EmptySet, HoldersAreFinite
<1>5. \A g \in Frames : g # hl[u].frame => Holders(kl, g) = Holders(hl, g)
  BY <1>1 DEF Holders
<1> QED BY <1>1, <1>3, <1>4, <1>5

(* A frame without holders is nobody's.                                    *)
LEMMA NobodyHolds ==
  ASSUME NEW hl, NEW f, Cardinality(Holders(hl, f)) = 0
  PROVE  \A u \in Users : hl[u] # Idle => hl[u].frame # f
<1>1. Holders(hl, f) = {}
  BY FS_EmptySet, HoldersAreFinite
<1> QED BY <1>1 DEF Holders

(* The parts of the invariant.                                             *)
LEMMA PoolParts ==
  ASSUME PoolInv
  PROVE  /\ pool \in PoolType /\ held \in HeldType /\ files \in [Pages -> PageData] /\ open \in BOOLEAN
         /\ readFaults \in 0 .. MaxReadFaults /\ writeFaults \in 0 .. MaxWriteFaults
         /\ PoolIsSound(pool) /\ PinsMatch(pool, held)
         /\ writeFaults = 0 => NothingIsLost(pool, held, files)
BY DEF HeldType, PoolInv, PoolType, PoolTypeOK

(* The parts of the invariant after a step that leaves the pool open.      *)
LEMMA PoolPartsNext ==
  ASSUME open' = TRUE, held' \in HeldType, files' \in [Pages -> PageData],
         readFaults' \in 0 .. MaxReadFaults, writeFaults' \in 0 .. MaxWriteFaults,
         PoolIsSound(pool'), PinsMatch(pool', held'),
         writeFaults' = 0 => NothingIsLost(pool', held', files')
  PROVE  PoolInv'
<1>1. pool' \in PoolType
  BY DEF PoolIsSound
<1> QED BY <1>1 DEF HeldType, PoolInv, PoolType, PoolTypeOK

(* A user that holds a frame has an open pool.                             *)
LEMMA HolderHasAPool ==
  ASSUME PoolInv, NEW u \in Users, held[u] # Idle
  PROVE  /\ open = TRUE /\ held[u] \in [page : Pages, frame : Frames, wrote : BOOLEAN]
         /\ held[u].frame \in Frames /\ held[u].page \in Pages
         /\ pool.frames[held[u].frame].is_valid /\ pool.frames[held[u].frame].page = held[u].page
         /\ map_find(pool.map, held[u].page) # NoBucket
         /\ FrameOf(held[u].page) = held[u].frame
<1>1. open = TRUE
  BY DEF PoolInv, PoolTypeOK
<1>2. held[u] \in [page : Pages, frame : Frames, wrote : BOOLEAN]
  BY PoolParts DEF HeldType
<1>3. held[u].frame \in Frames /\ held[u].page \in Pages
  BY <1>2
<1>4. pool.frames[held[u].frame].is_valid /\ pool.frames[held[u].frame].page = held[u].page
  BY PoolParts DEF PinsMatch
<1>5. map_find(pool.map, held[u].page) # NoBucket /\ FrameOf(held[u].page) = held[u].frame
  BY <1>3, <1>4, FindsTheFrame, PoolParts DEF FrameOf
<1> QED BY <1>1, <1>2, <1>3, <1>4, <1>5

\* Two records of a frame that agree on its page and its place in the list.
SamePlace(fr, other) ==
  /\ other.page = fr.page /\ other.is_valid = fr.is_valid
  /\ other.prev = fr.prev /\ other.next = fr.next

\* The pool with another record of one frame.
WithFrame(pl, f, fr) == [pl EXCEPT !.frames = [pl.frames EXCEPT ![f] = fr]]

(* One frame changes, but for its page and its place in the list.          *)
LEMMA FrameChanges ==
  ASSUME NEW pl, PoolIsSound(pl), NEW f \in Frames, NEW fr \in FrameRec,
         SamePlace(pl.frames[f], fr),
         NEW q, q = WithFrame(pl, f, fr)
  PROVE  PoolIsSound(q) /\ q.frames[f] = fr /\ \A g \in Frames : g # f => q.frames[g] = pl.frames[g]
<1>1. pl \in PoolType /\ pl.frames \in [Frames -> FrameRec]
  BY DEF PoolIsSound, PoolType
<1>2. PICK fs : fs = [pl.frames EXCEPT ![f] = fr]
  OBVIOUS
<1>3. fs \in [Frames -> FrameRec] /\ fs[f] = fr /\ \A g \in Frames : g # f => fs[g] = pl.frames[g]
  BY <1>1, <1>2
<1>4. q \in PoolType /\ q.frames = fs /\ q.map = pl.map /\ q.head = pl.head /\ q.tail = pl.tail
  BY <1>1, <1>2, <1>3 DEF PoolType, WithFrame
<1>5. SameButData(pl, q)
  BY <1>3, <1>4 DEF SameButData, SamePlace
<1> QED BY <1>3, <1>4, <1>5, DataIsNoMatter

(* A fetch that finds its page keeps the invariant.                        *)
LEMMA HitKeeps ==
  ASSUME PoolInv, NEW u \in Users, NEW p \in Pages, FetchHit(u, p)
  PROVE  PoolInv' /\ ContentsOf(pool', files') = ContentsOf(pool, files)
<1>0. /\ held \in HeldType /\ PoolIsSound(pool) /\ PinsMatch(pool, held) /\ open = TRUE /\ held[u] = Idle
      /\ UNCHANGED <<files, open, readFaults, writeFaults>>
  BY PoolParts DEF FetchHit
<1>f. PICK f : f = FrameOf(p)
  OBVIOUS
<1>1. f \in Frames /\ pool.frames[f].is_valid /\ pool.frames[f].page = p
  BY <1>0, <1>f, FindsTheFrame DEF FetchHit, FrameOf
<1>2. pool \in PoolType /\ pool.frames \in [Frames -> FrameRec] /\ pool.frames[f] \in FrameRec
  BY <1>1, PoolParts DEF PoolType
<1>3. PICK fr : fr = [pool.frames[f] EXCEPT !.pin_count = pool.frames[f].pin_count + 1]
  OBVIOUS
<1>4. /\ fr \in FrameRec /\ fr.page = pool.frames[f].page /\ fr.is_valid = pool.frames[f].is_valid
      /\ fr.prev = pool.frames[f].prev /\ fr.next = pool.frames[f].next
      /\ fr.data = pool.frames[f].data /\ fr.is_dirty = pool.frames[f].is_dirty
      /\ fr.pin_count = pool.frames[f].pin_count + 1
  BY <1>2, <1>3 DEF FrameRec
<1>p. SamePlace(pool.frames[f], fr)
  BY <1>4 DEF SamePlace
<1>5. PICK q : q = WithFrame(pool, f, fr)
  OBVIOUS
<1>6. PoolIsSound(q) /\ q.frames[f] = fr /\ \A g \in Frames : g # f => q.frames[g] = pool.frames[g]
  BY <1>0, <1>1, <1>4, <1>5, <1>p, FrameChanges
<1>7. q = [pool EXCEPT !.frames[f].pin_count = @ + 1]
  BY <1>2, <1>3, <1>5 DEF PoolType, WithFrame
<1>8. pool' = lru_touch(q, f) /\ held' = Holding(held, u, p, f)
  BY <1>7, <1>f DEF FetchHit, Hold, Holding
<1>9. PoolIsSound(pool') /\ SameButLinks(q, pool')
  BY <1>1, <1>4, <1>6, <1>8, Touches
<1>10. /\ \A g \in Frames : /\ pool'.frames[g].page = pool.frames[g].page /\ pool'.frames[g].data = pool.frames[g].data
                            /\ pool'.frames[g].is_valid = pool.frames[g].is_valid
                            /\ pool'.frames[g].is_dirty = pool.frames[g].is_dirty
                            /\ g # f => pool'.frames[g].pin_count = pool.frames[g].pin_count
       /\ pool'.frames[f].pin_count = pool.frames[f].pin_count + 1
  <2>1. \A g \in Frames : /\ pool'.frames[g].page = q.frames[g].page /\ pool'.frames[g].data = q.frames[g].data
                           /\ pool'.frames[g].is_valid = q.frames[g].is_valid
                           /\ pool'.frames[g].is_dirty = q.frames[g].is_dirty
                           /\ pool'.frames[g].pin_count = q.frames[g].pin_count
    BY <1>9 DEF SameButLinks
  <2>2. /\ q.frames[f].page = pool.frames[f].page /\ q.frames[f].data = pool.frames[f].data
        /\ q.frames[f].is_valid = pool.frames[f].is_valid /\ q.frames[f].is_dirty = pool.frames[f].is_dirty
        /\ q.frames[f].pin_count = pool.frames[f].pin_count + 1
    BY <1>1, <1>4, <1>6
  <2>3. \A g \in Frames : g # f => q.frames[g] = pool.frames[g]
    BY <1>6
  <2> QED BY <1>1, <2>1, <2>2, <2>3
<1>11. /\ held' \in HeldType /\ held'[u] # Idle /\ held'[u].page = p /\ held'[u].frame = f
       /\ \A w \in Users : w # u => held'[w] = held[w]
       /\ Cardinality(Holders(held', f)) = Cardinality(Holders(held, f)) + 1
       /\ \A g \in Frames : g # f => Holders(held', g) = Holders(held, g)
  BY <1>0, <1>1, <1>8, HolderComes
<1>12. PinsMatch(pool', held')
  <2>1. ASSUME NEW w \in Users, held'[w] # Idle
        PROVE  pool'.frames[held'[w].frame].is_valid /\ pool'.frames[held'[w].frame].page = held'[w].page
    <3>1. CASE w = u
      BY <1>1, <1>10, <1>11, <3>1
    <3>2. CASE w # u
      <4>1. held[w] # Idle /\ held[w].frame \in Frames /\ pool.frames[held[w].frame].is_valid
            /\ pool.frames[held[w].frame].page = held[w].page
        BY <1>11, <2>1, <3>2, HolderHasAPool
      <4> QED BY <1>10, <1>11, <3>2, <4>1
    <3> QED BY <3>1, <3>2
  <2>2. ASSUME NEW g \in Frames, pool'.frames[g].is_valid
        PROVE  pool'.frames[g].pin_count = Cardinality(Holders(held', g))
    <3>1. pool.frames[g].pin_count = Cardinality(Holders(held, g))
      BY <1>0, <1>10, <2>2 DEF PinsMatch
    <3> QED BY <1>10, <1>11, <3>1
  <2> QED BY <2>1, <2>2 DEF PinsMatch
<1>13. ASSUME writeFaults' = 0 PROVE NothingIsLost(pool', held', files')
  <2>1. NothingIsLost(pool, held, files)
    BY <1>0, <1>13, PoolParts
  <2>2. \A w \in Users : held[w] # Idle => held'[w] = held[w]
    BY <1>0, <1>11
  <2> QED BY <1>0, <1>10, <2>1, <2>2 DEF NothingIsLost
<1>14. ContentsOf(pool', files') = ContentsOf(pool, files)
  <2>1. \A x \in Pages : \A v : ContentIs(pool, files, x, v) => ContentIs(pool', files', x, v)
    BY <1>0, <1>10 DEF ContentIs
  <2> QED BY <1>0, <1>9, <2>1, ContentsKept
<1>15. files' \in [Pages -> PageData] /\ readFaults' \in 0 .. MaxReadFaults /\ writeFaults' \in 0 .. MaxWriteFaults
  BY <1>0, PoolParts
<1> QED BY <1>0, <1>9, <1>11, <1>12, <1>13, <1>14, <1>15, PoolPartsNext

(* What the write and the eviction of a victim do.                         *)
LEMMA EvictStep ==
  ASSUME PoolInv, NEW f, f = find_victim(pool), f # FRAME_NONE, evict_writes(f), NEW q, q = evict(pool, f)
  PROVE  /\ f \in Frames /\ PoolIsSound(q) /\ PinsMatch(q, held) /\ ~q.frames[f].is_valid
         /\ \A g \in Frames : q.frames[g].is_valid => pool.frames[g].is_valid /\ q.frames[g].page = pool.frames[g].page
         /\ files' \in [Pages -> PageData] /\ writeFaults' \in 0 .. MaxWriteFaults
         /\ \A x \in Pages : (\A g \in Frames : ~(pool.frames[g].is_valid /\ pool.frames[g].page = x))
                               => files'[x] = files[x]
         /\ writeFaults' = 0 => /\ NothingIsLost(q, held, files')
                                /\ ContentsOf(q, files') = ContentsOf(pool, files)
<1>0. PoolIsSound(pool) /\ PinsMatch(pool, held) /\ files \in [Pages -> PageData] /\ writeFaults \in 0 .. MaxWriteFaults
  BY PoolParts
<1>1. f \in Frames /\ (pool.frames[f].is_valid => pool.frames[f].pin_count = 0)
  BY <1>0, VictimIsUnpinned
<1>2. /\ PoolIsSound(q) /\ ~q.frames[f].is_valid
      /\ \A g \in Frames : g # f => SameFrame(pool.frames[g], q.frames[g])
  BY <1>0, <1>1, Evicts
<1>3. \A g \in Frames : q.frames[g].is_valid => g # f /\ pool.frames[g].is_valid /\ SameFrame(pool.frames[g], q.frames[g])
  BY <1>2 DEF SameFrame
<1>4. ASSUME NEW u \in Users, held[u] # Idle PROVE held[u].frame # f
  <2>1. CASE pool.frames[f].is_valid
    <3>1. Cardinality(Holders(held, f)) = 0
      BY <1>0, <1>1, <2>1 DEF PinsMatch
    <3> QED BY <1>4, <3>1, NobodyHolds
  <2>2. CASE ~pool.frames[f].is_valid
    BY <1>4, <2>2, HolderHasAPool
  <2> QED BY <2>1, <2>2
<1>5. PinsMatch(q, held)
  <2>1. ASSUME NEW u \in Users, held[u] # Idle
        PROVE  q.frames[held[u].frame].is_valid /\ q.frames[held[u].frame].page = held[u].page
    <3>1. held[u].frame \in Frames /\ held[u].frame # f /\ pool.frames[held[u].frame].is_valid
          /\ pool.frames[held[u].frame].page = held[u].page
      BY <1>4, <2>1, HolderHasAPool
    <3> QED BY <1>2, <3>1 DEF SameFrame
  <2>2. ASSUME NEW g \in Frames, q.frames[g].is_valid
        PROVE  q.frames[g].pin_count = Cardinality(Holders(held, g))
    BY <1>0, <1>3, <2>2 DEF PinsMatch, SameFrame
  <2> QED BY <2>1, <2>2 DEF PinsMatch
<1>d. PICK dirty : dirty = (pool.frames[f].is_valid /\ pool.frames[f].is_dirty)
  OBVIOUS
<1>6. \/ /\ files' = IF dirty THEN [files EXCEPT ![pool.frames[f].page] = pool.frames[f].data] ELSE files
         /\ writeFaults' = writeFaults
      \/ /\ dirty /\ writeFaults < MaxWriteFaults
         /\ writeFaults' = writeFaults + 1
         /\ files' = files
  BY <1>d DEF evict_writes
<1>7. pool.frames[f].is_valid => pool.frames[f].page \in Pages
  BY <1>0, <1>1, EntryOf
<1>8. pool.frames[f].data \in PageData
  BY <1>0, <1>1 DEF FrameRec, PoolIsSound, PoolType
<1>9. files' \in [Pages -> PageData]
  BY <1>0, <1>6, <1>8
<1>10. writeFaults' \in 0 .. MaxWriteFaults
  BY <1>0, <1>6, FaultsAssumption
<1>11. ASSUME NEW x \in Pages, ~(pool.frames[f].is_valid /\ pool.frames[f].page = x) PROVE files'[x] = files[x]
  BY <1>0, <1>6, <1>d, <1>11
<1>12. ASSUME NEW x \in Pages, \A g \in Frames : ~(pool.frames[g].is_valid /\ pool.frames[g].page = x)
       PROVE  files'[x] = files[x]
  BY <1>1, <1>11, <1>12
<1>13. ASSUME writeFaults' = 0
       PROVE  NothingIsLost(q, held, files') /\ ContentsOf(q, files') = ContentsOf(pool, files)
  <2>1. /\ files' = IF dirty THEN [files EXCEPT ![pool.frames[f].page] = pool.frames[f].data] ELSE files
        /\ writeFaults = 0
    BY <1>0, <1>6, <1>13
  <2>2. NothingIsLost(pool, held, files)
    BY <2>1, PoolParts
  <2>3. pool.frames[f].is_valid => files'[pool.frames[f].page] = pool.frames[f].data
    <3>1. CASE dirty
      BY <1>0, <1>7, <2>1, <3>1
    <3>2. CASE ~dirty
      BY <1>1, <1>4, <1>d, <2>1, <2>2, <3>2 DEF NothingIsLost
    <3> QED BY <3>1, <3>2
  <2>4. ASSUME NEW g \in Frames, q.frames[g].is_valid PROVE files'[q.frames[g].page] = files[q.frames[g].page]
    <3>1. pool.frames[g].is_valid /\ q.frames[g].page = pool.frames[g].page /\ g # f
      BY <1>3, <2>4 DEF SameFrame
    <3>2. pool.frames[g].page \in Pages /\ ~(pool.frames[f].is_valid /\ pool.frames[f].page = pool.frames[g].page)
      BY <1>0, <1>1, <3>1, EntryOf, OneFrameEach
    <3> QED BY <1>11, <3>1, <3>2
  <2>5. NothingIsLost(q, held, files')
    <3> SUFFICES ASSUME NEW g \in Frames, q.frames[g].is_valid
                 PROVE  \/ q.frames[g].is_dirty
                        \/ q.frames[g].data = files'[q.frames[g].page]
                        \/ \E u \in Users : held[u] # Idle /\ held[u].frame = g /\ held[u].wrote
      BY DEF NothingIsLost
    <3>1. pool.frames[g].is_valid /\ SameFrame(pool.frames[g], q.frames[g])
      BY <1>3
    <3> QED BY <2>2, <2>4, <3>1 DEF NothingIsLost, SameFrame
  <2>6. ASSUME NEW x \in Pages, NEW v, ContentIs(pool, files, x, v) PROVE ContentIs(q, files', x, v)
    <3>1. CASE pool.frames[f].is_valid /\ pool.frames[f].page = x
      <4>1. pool.frames[f].data = v
        BY <1>0, <1>1, <2>6, <3>1, OneFrameEach DEF ContentIs
      <4>2. \A g \in Frames : ~(q.frames[g].is_valid /\ q.frames[g].page = x)
        BY <1>0, <1>1, <1>3, <3>1, OneFrameEach DEF SameFrame
      <4> QED BY <2>3, <3>1, <4>1, <4>2 DEF ContentIs
    <3>2. CASE ~(pool.frames[f].is_valid /\ pool.frames[f].page = x)
      <4>1. files'[x] = files[x]
        BY <1>11, <3>2
      <4>2. CASE \A g \in Frames : ~(pool.frames[g].is_valid /\ pool.frames[g].page = x)
        <5>1. \A g \in Frames : ~(q.frames[g].is_valid /\ q.frames[g].page = x)
          BY <1>3, <4>2 DEF SameFrame
        <5> QED BY <2>6, <4>1, <4>2, <5>1 DEF ContentIs
      <4>3. CASE \E g \in Frames : pool.frames[g].is_valid /\ pool.frames[g].page = x
        <5>1. PICK g \in Frames : pool.frames[g].is_valid /\ pool.frames[g].page = x /\ pool.frames[g].data = v
          BY <2>6, <4>3 DEF ContentIs
        <5>2. SameFrame(pool.frames[g], q.frames[g])
          BY <1>2, <3>2, <5>1
        <5> QED BY <5>1, <5>2 DEF ContentIs, SameFrame
      <4> QED BY <4>2, <4>3
    <3> QED BY <3>1, <3>2
  <2>7. ContentsOf(q, files') = ContentsOf(pool, files)
    BY <1>0, <1>2, <2>6, ContentsKept
  <2> QED BY <2>5, <2>7
<1>14. \A g \in Frames : q.frames[g].is_valid => pool.frames[g].is_valid /\ q.frames[g].page = pool.frames[g].page
  BY <1>3 DEF SameFrame
<1> QED BY <1>1, <1>2, <1>5, <1>9, <1>10, <1>12, <1>13, <1>14

(* A fetch whose read fails keeps the invariant: its victim is gone.       *)
LEMMA ReadFailsKeeps ==
  ASSUME PoolInv, NEW u \in Users, NEW p \in Pages, FetchReadFails(u, p)
  PROVE  PoolInv' /\ (writeFaults' = 0 => ContentsOf(pool', files') = ContentsOf(pool, files))
<1>0. /\ held \in HeldType /\ open = TRUE /\ held' = held /\ open' = open
      /\ readFaults \in 0 .. MaxReadFaults /\ readFaults < MaxReadFaults /\ readFaults' = readFaults + 1
  BY PoolParts DEF FetchReadFails
<1>1. PICK f : f = find_victim(pool)
  OBVIOUS
<1>2. f # FRAME_NONE /\ evict_writes(f) /\ pool' = evict(pool, f)
  BY <1>1 DEF FetchReadFails
<1>3. /\ PoolIsSound(pool') /\ PinsMatch(pool', held)
      /\ files' \in [Pages -> PageData] /\ writeFaults' \in 0 .. MaxWriteFaults
      /\ writeFaults' = 0 => /\ NothingIsLost(pool', held, files')
                             /\ ContentsOf(pool', files') = ContentsOf(pool, files)
  BY <1>1, <1>2, EvictStep
<1>4. readFaults' \in 0 .. MaxReadFaults
  BY <1>0, FaultsAssumption
<1> QED BY <1>0, <1>3, <1>4, PoolPartsNext

(* A fetch that loads its page keeps the invariant.                        *)
LEMMA MissKeeps ==
  ASSUME PoolInv, NEW u \in Users, NEW p \in Pages, FetchMiss(u, p)
  PROVE  PoolInv' /\ (writeFaults' = 0 => ContentsOf(pool', files') = ContentsOf(pool, files))
<1>0. /\ held \in HeldType /\ open = TRUE /\ held[u] = Idle /\ open' = open /\ readFaults' = readFaults
      /\ readFaults \in 0 .. MaxReadFaults /\ PoolIsSound(pool) /\ map_find(pool.map, p) = NoBucket
  BY PoolParts DEF FetchMiss
<1>1. PICK f : f = find_victim(pool)
  OBVIOUS
<1>2. PICK q : q = evict(pool, f)
  OBVIOUS
<1>3. f # FRAME_NONE /\ evict_writes(f) /\ held' = Holding(held, u, p, f)
  BY <1>1 DEF FetchMiss, Hold, Holding
<1>5. pool' = lru_push_front(Loaded(q, p, f, files[p]), f)
  BY <1>1, <1>2 DEF FetchMiss, Loaded
<1>6. /\ f \in Frames /\ PoolIsSound(q) /\ PinsMatch(q, held) /\ ~q.frames[f].is_valid
      /\ \A g \in Frames : q.frames[g].is_valid => pool.frames[g].is_valid /\ q.frames[g].page = pool.frames[g].page
      /\ files' \in [Pages -> PageData] /\ writeFaults' \in 0 .. MaxWriteFaults
      /\ \A x \in Pages : (\A g \in Frames : ~(pool.frames[g].is_valid /\ pool.frames[g].page = x))
                            => files'[x] = files[x]
      /\ writeFaults' = 0 => /\ NothingIsLost(q, held, files')
                             /\ ContentsOf(q, files') = ContentsOf(pool, files)
  BY <1>1, <1>2, <1>3, EvictStep
<1>7. \A g \in Frames : ~(pool.frames[g].is_valid /\ pool.frames[g].page = p)
  BY <1>0, FindsTheFrame
<1>8. (\A g \in Frames : ~(q.frames[g].is_valid /\ q.frames[g].page = p)) /\ files'[p] = files[p]
  BY <1>6, <1>7
<1>d. files[p] \in PageData
  BY PoolParts
<1>9. /\ PoolIsSound(pool')
      /\ pool'.frames[f].is_valid /\ pool'.frames[f].page = p /\ pool'.frames[f].data = files[p]
      /\ pool'.frames[f].pin_count = 1
      /\ \A g \in Frames : g # f => SameFrame(q.frames[g], pool'.frames[g])
  BY <1>5, <1>6, <1>8, <1>d, Loads
<1>10. /\ held' \in HeldType /\ held'[u] # Idle /\ held'[u].page = p /\ held'[u].frame = f
       /\ \A w \in Users : w # u => held'[w] = held[w]
       /\ Cardinality(Holders(held', f)) = Cardinality(Holders(held, f)) + 1
       /\ \A g \in Frames : g # f => Holders(held', g) = Holders(held, g)
  BY <1>0, <1>3, <1>6, HolderComes
<1>11. ASSUME NEW w \in Users, held[w] # Idle
       PROVE  held'[w] = held[w] /\ held[w].frame \in Frames /\ held[w].frame # f
              /\ q.frames[held[w].frame].is_valid /\ q.frames[held[w].frame].page = held[w].page
  BY <1>0, <1>6, <1>10, <1>11, HolderHasAPool DEF PinsMatch
<1>12. Cardinality(Holders(held', f)) = 1
  <2>1. Holders(held, f) = {}
    BY <1>11 DEF Holders
  <2> QED BY <1>10, <2>1, FS_EmptySet
<1>13. PinsMatch(pool', held')
  <2>1. ASSUME NEW w \in Users, held'[w] # Idle
        PROVE  pool'.frames[held'[w].frame].is_valid /\ pool'.frames[held'[w].frame].page = held'[w].page
    <3>1. CASE w = u
      BY <1>9, <1>10, <3>1
    <3>2. CASE w # u
      BY <1>9, <1>10, <1>11, <2>1, <3>2 DEF SameFrame
    <3> QED BY <3>1, <3>2
  <2>2. ASSUME NEW g \in Frames, pool'.frames[g].is_valid
        PROVE  pool'.frames[g].pin_count = Cardinality(Holders(held', g))
    <3>1. CASE g = f
      BY <1>9, <1>12, <3>1
    <3>2. CASE g # f
      BY <1>6, <1>9, <1>10, <2>2, <3>2 DEF PinsMatch, SameFrame
    <3> QED BY <3>1, <3>2
  <2> QED BY <2>1, <2>2 DEF PinsMatch
<1>14. ASSUME writeFaults' = 0 PROVE NothingIsLost(pool', held', files')
  <2> SUFFICES ASSUME NEW g \in Frames, pool'.frames[g].is_valid
               PROVE  \/ pool'.frames[g].is_dirty
                      \/ pool'.frames[g].data = files'[pool'.frames[g].page]
                      \/ \E w \in Users : held'[w] # Idle /\ held'[w].frame = g /\ held'[w].wrote
    BY DEF NothingIsLost
  <2>1. CASE g = f
    BY <1>8, <1>9, <2>1
  <2>2. CASE g # f
    <3>1. SameFrame(q.frames[g], pool'.frames[g]) /\ NothingIsLost(q, held, files')
      BY <1>6, <1>9, <1>14, <2>2
    <3> QED BY <1>11, <3>1 DEF NothingIsLost, SameFrame
  <2> QED BY <2>1, <2>2
<1>15. ASSUME writeFaults' = 0 PROVE ContentsOf(pool', files') = ContentsOf(pool, files)
  <2>1. ASSUME NEW x \in Pages, NEW v, ContentIs(q, files', x, v) PROVE ContentIs(pool', files', x, v)
    <3>1. CASE x = p
      BY <1>6, <1>8, <1>9, <2>1, <3>1 DEF ContentIs
    <3>2. CASE x # p
      <4>1. CASE \A g \in Frames : ~(q.frames[g].is_valid /\ q.frames[g].page = x)
        <5>1. \A g \in Frames : ~(pool'.frames[g].is_valid /\ pool'.frames[g].page = x)
          BY <1>9, <3>2, <4>1 DEF SameFrame
        <5> QED BY <2>1, <4>1, <5>1 DEF ContentIs
      <4>2. CASE \E g \in Frames : q.frames[g].is_valid /\ q.frames[g].page = x
        <5>1. PICK g \in Frames : q.frames[g].is_valid /\ q.frames[g].page = x /\ q.frames[g].data = v
          BY <2>1, <4>2 DEF ContentIs
        <5> QED BY <1>6, <1>9, <5>1 DEF ContentIs, SameFrame
      <4> QED BY <4>1, <4>2
    <3> QED BY <3>1, <3>2
  <2>2. ContentsOf(pool', files') = ContentsOf(q, files')
    BY <1>6, <1>9, <2>1, ContentsKept
  <2> QED BY <1>6, <1>15, <2>2
<1> QED BY <1>0, <1>6, <1>9, <1>10, <1>13, <1>14, <1>15, PoolPartsNext

\* What is held when u has written to its page or marked it dirty.
Marked(hl, u, b) == [hl EXCEPT ![u].wrote = b]

(* Writing and marking leave the holders as they are.                      *)
LEMMA HolderStays ==
  ASSUME NEW hl \in HeldType, NEW u \in Users, hl[u] # Idle, NEW b \in BOOLEAN, NEW kl, kl = Marked(hl, u, b)
  PROVE  /\ kl \in HeldType /\ (b => kl[u].wrote)
         /\ \A w \in Users : w # u => kl[w] = hl[w]
         /\ \A w \in Users : hl[w] # Idle <=> kl[w] # Idle
         /\ \A w \in Users : hl[w] # Idle => kl[w].page = hl[w].page /\ kl[w].frame = hl[w].frame
         /\ \A g \in Frames : Holders(kl, g) = Holders(hl, g)
<1>1. hl[u] \in [page : Pages, frame : Frames, wrote : BOOLEAN]
  BY DEF HeldType
<1>2. PICK h : h = [hl[u] EXCEPT !.wrote = b]
  OBVIOUS
<1>3. h \in [page : Pages, frame : Frames, wrote : BOOLEAN] /\ h.page = hl[u].page /\ h.frame = hl[u].frame /\ h.wrote = b
  BY <1>1, <1>2
<1>4. h # Idle
  BY <1>3, HoldIsNotIdle
<1>5. kl = [hl EXCEPT ![u] = h]
  BY <1>2 DEF Marked
<1>6. kl \in HeldType /\ kl[u] = h /\ \A w \in Users : w # u => kl[w] = hl[w]
  BY <1>3, <1>5 DEF HeldType
<1>7. /\ \A w \in Users : hl[w] # Idle <=> kl[w] # Idle
      /\ \A w \in Users : hl[w] # Idle => kl[w].page = hl[w].page /\ kl[w].frame = hl[w].frame
  BY <1>3, <1>4, <1>6
<1>8. \A g \in Frames : Holders(kl, g) = Holders(hl, g)
  BY <1>7 DEF Holders
<1> QED BY <1>3, <1>6, <1>7, <1>8

(* Pins match as long as pages, pins and holders stay.                     *)
LEMMA PinsKept ==
  ASSUME NEW pl, NEW hl \in HeldType, PinsMatch(pl, hl), NEW other, NEW kl,
         \A g \in Frames : /\ other.frames[g].page = pl.frames[g].page /\ other.frames[g].is_valid = pl.frames[g].is_valid
                           /\ other.frames[g].pin_count = pl.frames[g].pin_count,
         \A w \in Users : hl[w] # Idle <=> kl[w] # Idle,
         \A w \in Users : hl[w] # Idle => kl[w].page = hl[w].page /\ kl[w].frame = hl[w].frame,
         \A g \in Frames : Holders(kl, g) = Holders(hl, g)
  PROVE  PinsMatch(other, kl)
<1>1. ASSUME NEW w \in Users, kl[w] # Idle
      PROVE  other.frames[kl[w].frame].is_valid /\ other.frames[kl[w].frame].page = kl[w].page
  <2>1. hl[w] # Idle /\ hl[w].frame \in Frames
    BY <1>1 DEF HeldType
  <2> QED BY <2>1 DEF PinsMatch
<1>2. ASSUME NEW g \in Frames, other.frames[g].is_valid
      PROVE  other.frames[g].pin_count = Cardinality(Holders(kl, g))
  BY <1>2 DEF PinsMatch
<1> QED BY <1>1, <1>2 DEF PinsMatch

(* A write through a pointer keeps the invariant, and changes its page only. *)
LEMMA WriteKeeps ==
  ASSUME PoolInv, NEW u \in Users, NEW v \in PageData, Write(u, v)
  PROVE  PoolInv' /\ ContentsOf(pool', files') = [ContentsOf(pool, files) EXCEPT ![held[u].page] = v]
<1>0. /\ held \in HeldType /\ PoolIsSound(pool) /\ PinsMatch(pool, held) /\ held[u] # Idle
      /\ UNCHANGED <<files, open, readFaults, writeFaults>>
  BY PoolParts DEF Write
<1>f. PICK f : f = held[u].frame
  OBVIOUS
<1>x. PICK x : x = held[u].page
  OBVIOUS
<1>1. open = TRUE /\ f \in Frames /\ x \in Pages /\ pool.frames[f].is_valid /\ pool.frames[f].page = x
  BY <1>0, <1>f, <1>x, HolderHasAPool
<1>2. pool \in PoolType /\ pool.frames \in [Frames -> FrameRec] /\ pool.frames[f] \in FrameRec
  BY <1>1, PoolParts DEF PoolType
<1>3. PICK fr : fr = [pool.frames[f] EXCEPT !.data = v]
  OBVIOUS
<1>4. /\ fr \in FrameRec /\ SamePlace(pool.frames[f], fr)
      /\ fr.data = v /\ fr.is_dirty = pool.frames[f].is_dirty /\ fr.pin_count = pool.frames[f].pin_count
  BY <1>2, <1>3 DEF FrameRec, SamePlace
<1>5. pool' = WithFrame(pool, f, fr)
  BY <1>2, <1>3, <1>f DEF PoolType, WithFrame, Write
<1>6. PoolIsSound(pool') /\ pool'.frames[f] = fr /\ \A g \in Frames : g # f => pool'.frames[g] = pool.frames[g]
  BY <1>0, <1>1, <1>4, <1>5, FrameChanges
<1>b. PICK b \in BOOLEAN : b = TRUE
  OBVIOUS
<1>7. held' = Marked(held, u, b)
  BY <1>b DEF Marked, Write
<1>8. /\ held' \in HeldType /\ (b => held'[u].wrote)
      /\ \A w \in Users : w # u => held'[w] = held[w]
      /\ \A w \in Users : held[w] # Idle <=> held'[w] # Idle
      /\ \A w \in Users : held[w] # Idle => held'[w].page = held[w].page /\ held'[w].frame = held[w].frame
      /\ \A g \in Frames : Holders(held', g) = Holders(held, g)
  BY <1>0, <1>7, HolderStays
<1>9. \A g \in Frames : /\ pool'.frames[g].page = pool.frames[g].page /\ pool'.frames[g].is_valid = pool.frames[g].is_valid
                        /\ pool'.frames[g].pin_count = pool.frames[g].pin_count
  BY <1>4, <1>6 DEF SamePlace
<1>10. PinsMatch(pool', held')
  BY <1>0, <1>8, <1>9, PinsKept
<1>11. ASSUME writeFaults' = 0 PROVE NothingIsLost(pool', held', files')
  <2> SUFFICES ASSUME NEW g \in Frames, pool'.frames[g].is_valid
               PROVE  \/ pool'.frames[g].is_dirty
                      \/ pool'.frames[g].data = files'[pool'.frames[g].page]
                      \/ \E w \in Users : held'[w] # Idle /\ held'[w].frame = g /\ held'[w].wrote
    BY DEF NothingIsLost
  <2>1. CASE g = f
    BY <1>0, <1>8, <1>b, <1>f, <2>1
  <2>2. CASE g # f
    <3>1. NothingIsLost(pool, held, files) /\ pool'.frames[g] = pool.frames[g] /\ files' = files
      BY <1>0, <1>6, <1>11, <2>2, PoolParts
    <3>2. \A w \in Users : held[w] # Idle /\ held[w].wrote =>
            held'[w] # Idle /\ held'[w].wrote /\ held'[w].frame = held[w].frame
      BY <1>8, <1>b
    <3> QED BY <3>1, <3>2 DEF NothingIsLost
  <2> QED BY <2>1, <2>2
<1>12. ContentsOf(pool', files') = [ContentsOf(pool, files) EXCEPT ![x] = v]
  <2>1. PICK c1 : c1 = ContentsOf(pool, files)
    OBVIOUS
  <2>2. PICK c2 : c2 = ContentsOf(pool', files')
    OBVIOUS
  <2>3. c1 = [p \in Pages |-> c1[p]] /\ c2 = [p \in Pages |-> c2[p]]
    BY <2>1, <2>2 DEF ContentsOf
  <2>4. c2[x] = v
    <3>1. ContentIs(pool', files', x, v)
      BY <1>1, <1>4, <1>6, <1>9 DEF ContentIs
    <3> QED BY <1>1, <1>6, <2>2, <3>1, ContentAt
  <2>5. ASSUME NEW p \in Pages, p # x PROVE c2[p] = c1[p]
    <3>1. ContentIs(pool, files, p, c1[p])
      BY <1>0, <2>1, ContentExists
    <3>2. ContentIs(pool', files', p, c1[p])
      <4>1. CASE \A g \in Frames : ~(pool.frames[g].is_valid /\ pool.frames[g].page = p)
        <5>1. \A g \in Frames : ~(pool'.frames[g].is_valid /\ pool'.frames[g].page = p)
          BY <1>9, <4>1
        <5> QED BY <1>0, <3>1, <4>1, <5>1 DEF ContentIs
      <4>2. CASE \E g \in Frames : pool.frames[g].is_valid /\ pool.frames[g].page = p
        <5>1. PICK g \in Frames : pool.frames[g].is_valid /\ pool.frames[g].page = p /\ pool.frames[g].data = c1[p]
          BY <3>1, <4>2 DEF ContentIs
        <5> QED BY <1>1, <1>6, <2>5, <5>1 DEF ContentIs
      <4> QED BY <4>1, <4>2
    <3> QED BY <1>6, <2>2, <3>2, ContentAt
  <2>6. c2 = [c1 EXCEPT ![x] = v]
    BY <1>1, <2>3, <2>4, <2>5
  <2> QED BY <2>1, <2>2, <2>6
<1>13. files' \in [Pages -> PageData] /\ readFaults' \in 0 .. MaxReadFaults /\ writeFaults' \in 0 .. MaxWriteFaults /\ open' = TRUE
  BY <1>0, <1>1, PoolParts
<1> QED BY <1>6, <1>8, <1>10, <1>11, <1>12, <1>13, <1>x, PoolPartsNext

(* Marking a page dirty keeps the invariant.                               *)
LEMMA MarkKeeps ==
  ASSUME PoolInv, NEW u \in Users, MarkDirty(u)
  PROVE  PoolInv' /\ ContentsOf(pool', files') = ContentsOf(pool, files)
<1>0. /\ held \in HeldType /\ PoolIsSound(pool) /\ PinsMatch(pool, held) /\ held[u] # Idle
      /\ UNCHANGED <<files, open, readFaults, writeFaults>>
  BY PoolParts DEF MarkDirty
<1>f. PICK f : f = held[u].frame
  OBVIOUS
<1>1. /\ open = TRUE /\ f \in Frames /\ pool.frames[f].is_valid
      /\ map_find(pool.map, held[u].page) # NoBucket /\ FrameOf(held[u].page) = f
  BY <1>0, <1>f, HolderHasAPool
<1>2. pool \in PoolType /\ pool.frames \in [Frames -> FrameRec] /\ pool.frames[f] \in FrameRec
  BY <1>1, PoolParts DEF PoolType
<1>3. PICK fr : fr = [pool.frames[f] EXCEPT !.is_dirty = TRUE]
  OBVIOUS
<1>4. /\ fr \in FrameRec /\ SamePlace(pool.frames[f], fr)
      /\ fr.data = pool.frames[f].data /\ fr.is_dirty /\ fr.pin_count = pool.frames[f].pin_count
  BY <1>2, <1>3 DEF FrameRec, SamePlace
<1>5. pool' = WithFrame(pool, f, fr)
  <2>1. pool' = [pool EXCEPT !.frames[f].is_dirty = TRUE]
    BY <1>1 DEF MarkDirty
  <2> QED BY <1>2, <1>3, <2>1 DEF PoolType, WithFrame
<1>6. PoolIsSound(pool') /\ pool'.frames[f] = fr /\ \A g \in Frames : g # f => pool'.frames[g] = pool.frames[g]
  BY <1>0, <1>1, <1>4, <1>5, FrameChanges
<1>b. PICK b \in BOOLEAN : b = FALSE
  OBVIOUS
<1>7. held' = Marked(held, u, b)
  BY <1>b DEF Marked, MarkDirty
<1>8. /\ held' \in HeldType
      /\ \A w \in Users : w # u => held'[w] = held[w]
      /\ \A w \in Users : held[w] # Idle <=> held'[w] # Idle
      /\ \A w \in Users : held[w] # Idle => held'[w].page = held[w].page /\ held'[w].frame = held[w].frame
      /\ \A g \in Frames : Holders(held', g) = Holders(held, g)
  BY <1>0, <1>7, HolderStays
<1>9. \A g \in Frames : /\ pool'.frames[g].page = pool.frames[g].page /\ pool'.frames[g].is_valid = pool.frames[g].is_valid
                        /\ pool'.frames[g].pin_count = pool.frames[g].pin_count
  BY <1>4, <1>6 DEF SamePlace
<1>10. PinsMatch(pool', held')
  BY <1>0, <1>8, <1>9, PinsKept
<1>11. ASSUME writeFaults' = 0 PROVE NothingIsLost(pool', held', files')
  <2> SUFFICES ASSUME NEW g \in Frames, pool'.frames[g].is_valid
               PROVE  \/ pool'.frames[g].is_dirty
                      \/ pool'.frames[g].data = files'[pool'.frames[g].page]
                      \/ \E w \in Users : held'[w] # Idle /\ held'[w].frame = g /\ held'[w].wrote
    BY DEF NothingIsLost
  <2>1. CASE g = f
    BY <1>4, <1>6, <2>1
  <2>2. CASE g # f
    <3>1. NothingIsLost(pool, held, files) /\ pool'.frames[g] = pool.frames[g] /\ files' = files
      BY <1>0, <1>6, <1>11, <2>2, PoolParts
    <3>2. \A w \in Users : held[w] # Idle /\ held[w].frame = g => held'[w] = held[w]
      BY <1>8, <1>f, <2>2
    <3> QED BY <3>1, <3>2 DEF NothingIsLost
  <2> QED BY <2>1, <2>2
<1>12. ContentsOf(pool', files') = ContentsOf(pool, files)
  <2>1. \A g \in Frames : pool'.frames[g].data = pool.frames[g].data
    BY <1>4, <1>6
  <2>2. \A x \in Pages : \A v : ContentIs(pool, files, x, v) => ContentIs(pool', files', x, v)
    BY <1>0, <1>9, <2>1 DEF ContentIs
  <2> QED BY <1>0, <1>6, <2>2, ContentsKept
<1>13. files' \in [Pages -> PageData] /\ readFaults' \in 0 .. MaxReadFaults /\ writeFaults' \in 0 .. MaxWriteFaults /\ open' = TRUE
  BY <1>0, <1>1, PoolParts
<1> QED BY <1>6, <1>8, <1>10, <1>11, <1>12, <1>13, PoolPartsNext

(* An unpin keeps the invariant.                                           *)
LEMMA UnpinKeeps ==
  ASSUME PoolInv, NEW u \in Users, Unpin(u)
  PROVE  PoolInv' /\ ContentsOf(pool', files') = ContentsOf(pool, files)
<1>0. /\ held \in HeldType /\ PoolIsSound(pool) /\ PinsMatch(pool, held) /\ held[u] # Idle /\ ~held[u].wrote
      /\ UNCHANGED <<files, open, readFaults, writeFaults>>
  BY PoolParts DEF Unpin
<1>f. PICK f : f = held[u].frame
  OBVIOUS
<1>1. /\ open = TRUE /\ f \in Frames /\ pool.frames[f].is_valid
      /\ map_find(pool.map, held[u].page) # NoBucket /\ FrameOf(held[u].page) = f
  BY <1>0, <1>f, HolderHasAPool
<1>7. held' = Released(held, u)
  BY DEF Released, Unpin
<1>8. /\ held' \in HeldType /\ held'[u] = Idle /\ \A w \in Users : w # u => held'[w] = held[w]
      /\ Cardinality(Holders(held', f)) = Cardinality(Holders(held, f)) - 1
      /\ Cardinality(Holders(held, f)) # 0
      /\ \A g \in Frames : g # f => Holders(held', g) = Holders(held, g)
  BY <1>0, <1>7, <1>f, HolderGoes
<1>2. pool \in PoolType /\ pool.frames \in [Frames -> FrameRec] /\ pool.frames[f] \in FrameRec
  BY <1>1, PoolParts DEF PoolType
<1>c. pool.frames[f].pin_count = Cardinality(Holders(held, f)) /\ pool.frames[f].pin_count # 0 /\ pool.frames[f].pin_count \in Nat
  BY <1>0, <1>1, <1>8, HoldersAreFinite DEF PinsMatch
<1>3. PICK fr : fr = [pool.frames[f] EXCEPT !.pin_count = pool.frames[f].pin_count - 1]
  OBVIOUS
<1>n. pool.frames[f].pin_count - 1 \in Nat
  BY <1>c
<1>4. /\ fr \in FrameRec /\ SamePlace(pool.frames[f], fr) /\ fr.data = pool.frames[f].data
      /\ fr.is_dirty = pool.frames[f].is_dirty /\ fr.pin_count = pool.frames[f].pin_count - 1
  BY <1>2, <1>3, <1>n DEF FrameRec, SamePlace
<1>5. pool' = WithFrame(pool, f, fr)
  <2>1. pool' = [pool EXCEPT !.frames[f].pin_count = @ - 1]
    BY <1>1, <1>c DEF Unpin
  <2> QED BY <1>2, <1>3, <2>1 DEF PoolType, WithFrame
<1>6. PoolIsSound(pool') /\ pool'.frames[f] = fr /\ \A g \in Frames : g # f => pool'.frames[g] = pool.frames[g]
  BY <1>0, <1>1, <1>4, <1>5, FrameChanges
<1>9. \A g \in Frames : /\ pool'.frames[g].page = pool.frames[g].page /\ pool'.frames[g].is_valid = pool.frames[g].is_valid
                        /\ pool'.frames[g].data = pool.frames[g].data /\ pool'.frames[g].is_dirty = pool.frames[g].is_dirty
  BY <1>4, <1>6 DEF SamePlace
<1>10. PinsMatch(pool', held')
  <2>1. ASSUME NEW w \in Users, held'[w] # Idle
        PROVE  pool'.frames[held'[w].frame].is_valid /\ pool'.frames[held'[w].frame].page = held'[w].page
    <3>1. held'[w] = held[w] /\ held[w].frame \in Frames
      BY <1>8, <2>1, HolderHasAPool
    <3> QED BY <1>0, <1>9, <2>1, <3>1 DEF PinsMatch
  <2>2. ASSUME NEW g \in Frames, pool'.frames[g].is_valid
        PROVE  pool'.frames[g].pin_count = Cardinality(Holders(held', g))
    <3>1. CASE g = f
      BY <1>4, <1>6, <1>8, <1>c, <3>1
    <3>2. CASE g # f
      BY <1>0, <1>6, <1>8, <2>2, <3>2 DEF PinsMatch
    <3> QED BY <3>1, <3>2
  <2> QED BY <2>1, <2>2 DEF PinsMatch
<1>11. ASSUME writeFaults' = 0 PROVE NothingIsLost(pool', held', files')
  <2>1. NothingIsLost(pool, held, files) /\ files' = files
    BY <1>0, <1>11, PoolParts
  <2>2. \A w \in Users : held[w] # Idle /\ held[w].wrote => held'[w] = held[w]
    BY <1>0, <1>8
  <2> QED BY <1>9, <2>1, <2>2 DEF NothingIsLost
<1>12. ContentsOf(pool', files') = ContentsOf(pool, files)
  <2>2. \A x \in Pages : \A v : ContentIs(pool, files, x, v) => ContentIs(pool', files', x, v)
    BY <1>0, <1>9 DEF ContentIs
  <2> QED BY <1>0, <1>6, <2>2, ContentsKept
<1>13. files' \in [Pages -> PageData] /\ readFaults' \in 0 .. MaxReadFaults /\ writeFaults' \in 0 .. MaxWriteFaults /\ open' = TRUE
  BY <1>0, <1>1, PoolParts
<1> QED BY <1>6, <1>8, <1>10, <1>11, <1>12, <1>13, PoolPartsNext

(* What writing dirty pages out does to the files.                         *)
LEMMA FlushWrites ==
  ASSUME PoolInv, NEW fs, fs \subseteq Dirty, NEW bad, page_writes(fs, bad)
  PROVE  /\ bad \subseteq fs /\ files' \in [Pages -> PageData] /\ writeFaults' \in 0 .. MaxWriteFaults
         /\ writeFaults' = 0 => writeFaults = 0 /\ bad = {}
         /\ \A f \in fs \ bad : files'[pool.frames[f].page] = pool.frames[f].data
         /\ \A x \in Pages : (\A f \in fs \ bad : pool.frames[f].page # x) => files'[x] = files[x]
<1>0. PoolIsSound(pool) /\ files \in [Pages -> PageData] /\ writeFaults \in 0 .. MaxWriteFaults
  BY PoolParts
<1>1. /\ bad \subseteq fs /\ writeFaults + Cardinality(bad) <= MaxWriteFaults
      /\ writeFaults' = writeFaults + Cardinality(bad)
      /\ files' = [p \in Pages |->
           IF \E f \in fs \ bad : pool.frames[f].page = p
           THEN pool.frames[CHOOSE f \in fs \ bad : pool.frames[f].page = p].data
           ELSE files[p]]
  BY DEF page_writes
<1>2. \A f \in fs : f \in Frames /\ pool.frames[f].is_valid /\ pool.frames[f].data \in PageData /\ pool.frames[f].page \in Pages
  <2>1. \A f \in fs : f \in Frames /\ pool.frames[f].is_valid
    BY DEF Dirty
  <2>2. \A f \in Frames : pool.frames[f].data \in PageData
    BY <1>0 DEF FrameRec, PoolIsSound, PoolType
  <2> QED BY <1>0, <2>1, <2>2, EntryOf
<1>3. IsFiniteSet(bad) /\ Cardinality(bad) \in Nat
  <2>1. IsFiniteSet(Frames)
    BY FramesAssumption, FS_Interval DEF Frames
  <2>2. bad \subseteq Frames
    BY <1>1, <1>2
  <2> QED BY <2>1, <2>2, FS_CardinalityType, FS_Subset
<1>4. writeFaults' \in 0 .. MaxWriteFaults
  BY <1>0, <1>1, <1>3, FaultsAssumption
<1>5. ASSUME writeFaults' = 0 PROVE writeFaults = 0 /\ bad = {}
  <2>1. writeFaults = 0 /\ Cardinality(bad) = 0
    BY <1>0, <1>1, <1>3, <1>5
  <2> QED BY <1>3, <2>1, FS_EmptySet
<1>6. ASSUME NEW x \in Pages, \A f \in fs \ bad : pool.frames[f].page # x PROVE files'[x] = files[x]
  BY <1>1, <1>6
<1>7. ASSUME NEW f \in fs \ bad PROVE files'[pool.frames[f].page] = pool.frames[f].data
  <2>1. PICK x : x = pool.frames[f].page
    OBVIOUS
  <2>2. x \in Pages
    BY <1>2, <2>1
  <2>3. PICK g : g = CHOOSE h \in fs \ bad : pool.frames[h].page = x
    OBVIOUS
  <2>4. g \in fs \ bad /\ pool.frames[g].page = x
    BY <2>1, <2>3
  <2>5. g = f
    BY <1>0, <1>2, <2>1, <2>4, OneFrameEach
  <2>6. files'[x] = pool.frames[g].data
    BY <1>1, <2>1, <2>2, <2>3
  <2> QED BY <2>1, <2>5, <2>6
<1>8. files' \in [Pages -> PageData]
  <2>1. ASSUME NEW x \in Pages PROVE files'[x] \in PageData
    <3>1. CASE \A f \in fs \ bad : pool.frames[f].page # x
      BY <1>0, <1>6, <3>1
    <3>2. CASE \E f \in fs \ bad : pool.frames[f].page = x
      BY <1>2, <1>7, <3>2
    <3> QED BY <3>1, <3>2
  <2>2. files' = [x \in Pages |-> files'[x]]
    BY <1>1
  <2> QED BY <2>1, <2>2
<1> QED BY <1>1, <1>4, <1>5, <1>6, <1>7, <1>8

(* A flush keeps the invariant and the contents, whichever writes fail.    *)
LEMMA FlushKeeps ==
  ASSUME PoolInv, open = TRUE, NEW fs, fs \subseteq Dirty, NEW bad, page_writes(fs, bad), pool' = Cleaned(fs \ bad),
         UNCHANGED <<held, open, readFaults>>
  PROVE  PoolInv' /\ ContentsOf(pool', files') = ContentsOf(pool, files)
<1>0. /\ held \in HeldType /\ PoolIsSound(pool) /\ PinsMatch(pool, held) /\ pool \in PoolType
      /\ readFaults \in 0 .. MaxReadFaults /\ writeFaults \in 0 .. MaxWriteFaults
  BY PoolParts
<1>d. PICK done : done = fs \ bad
  OBVIOUS
<1>1. /\ files' \in [Pages -> PageData] /\ writeFaults' \in 0 .. MaxWriteFaults
      /\ writeFaults' = 0 => writeFaults = 0
      /\ \A f \in done : files'[pool.frames[f].page] = pool.frames[f].data
      /\ \A x \in Pages : (\A f \in done : pool.frames[f].page # x) => files'[x] = files[x]
  <2>1. /\ files' \in [Pages -> PageData] /\ writeFaults' \in 0 .. MaxWriteFaults
        /\ writeFaults' = 0 => writeFaults = 0
        /\ \A f \in fs \ bad : files'[pool.frames[f].page] = pool.frames[f].data
        /\ \A x \in Pages : (\A f \in fs \ bad : pool.frames[f].page # x) => files'[x] = files[x]
    BY FlushWrites, ZenonT(40)
  <2> QED BY <1>d, <2>1, Zenon
<1>2. PICK gs : gs = [f \in Frames |-> IF f \in done THEN [pool.frames[f] EXCEPT !.is_dirty = FALSE] ELSE pool.frames[f]]
  OBVIOUS
<1>3. pool' = [pool EXCEPT !.frames = gs]
  BY <1>2, <1>d DEF Cleaned
<1>4. pool.frames \in [Frames -> FrameRec]
  BY <1>0 DEF PoolType
<1>5. ASSUME NEW g \in Frames
      PROVE  /\ gs[g] \in FrameRec /\ SamePlace(pool.frames[g], gs[g])
             /\ gs[g].data = pool.frames[g].data /\ gs[g].pin_count = pool.frames[g].pin_count
             /\ g \notin done => gs[g].is_dirty = pool.frames[g].is_dirty
  <2>1. pool.frames[g] \in FrameRec
    BY <1>4
  <2> QED BY <1>2, <2>1 DEF FrameRec, SamePlace
<1>6. gs \in [Frames -> FrameRec]
  BY <1>2, <1>5
<1>7. pool' \in PoolType /\ pool'.frames = gs /\ pool'.map = pool.map /\ pool'.head = pool.head /\ pool'.tail = pool.tail
  BY <1>0, <1>3, <1>6 DEF PoolType
<1>8. SameButData(pool, pool')
  BY <1>5, <1>7 DEF SameButData, SamePlace
<1>9. PoolIsSound(pool')
  BY <1>0, <1>7, <1>8, DataIsNoMatter
<1>10. \A g \in Frames : /\ pool'.frames[g].page = pool.frames[g].page /\ pool'.frames[g].is_valid = pool.frames[g].is_valid
                         /\ pool'.frames[g].pin_count = pool.frames[g].pin_count
                         /\ pool'.frames[g].data = pool.frames[g].data
  BY <1>5, <1>7 DEF SamePlace
<1>11. PinsMatch(pool', held')
  <2>1. PinsMatch(pool', held)
    <3>1. \A u \in Users : held[u] # Idle => held[u].frame \in Frames
      BY <1>0 DEF HeldType
    <3> QED BY <1>0, <1>10, <3>1 DEF PinsMatch
  <2>2. held' = held
    OBVIOUS
  <2> QED BY <2>1, <2>2
<1>12. \A f \in done : f \in Frames /\ pool.frames[f].is_valid
  BY <1>d DEF Dirty
<1>13. ASSUME writeFaults' = 0 PROVE NothingIsLost(pool', held', files')
  <2> SUFFICES ASSUME NEW g \in Frames, pool'.frames[g].is_valid
               PROVE  \/ pool'.frames[g].is_dirty
                      \/ pool'.frames[g].data = files'[pool'.frames[g].page]
                      \/ \E w \in Users : held'[w] # Idle /\ held'[w].frame = g /\ held'[w].wrote
    BY DEF NothingIsLost
  <2>1. CASE g \in done
    BY <1>1, <1>10, <2>1
  <2>2. CASE g \notin done
    <3>1. NothingIsLost(pool, held, files) /\ held' = held
      BY <1>1, <1>13, PoolParts
    <3>2. pool.frames[g].is_valid /\ pool.frames[g].page \in Pages
      BY <1>0, <1>10, EntryOf
    <3>3. \A f \in done : pool.frames[f].page # pool.frames[g].page
      BY <1>0, <1>12, <2>2, <3>2, OneFrameEach
    <3>4. files'[pool.frames[g].page] = files[pool.frames[g].page] /\ pool'.frames[g].is_dirty = pool.frames[g].is_dirty
      BY <1>1, <1>5, <1>7, <2>2, <3>2, <3>3
    <3> QED BY <1>10, <3>1, <3>2, <3>4 DEF NothingIsLost
  <2> QED BY <2>1, <2>2
<1>14. ContentsOf(pool', files') = ContentsOf(pool, files)
  <2>1. ASSUME NEW x \in Pages, NEW v, ContentIs(pool, files, x, v) PROVE ContentIs(pool', files', x, v)
    <3>1. CASE \A g \in Frames : ~(pool.frames[g].is_valid /\ pool.frames[g].page = x)
      <4>1. files'[x] = files[x]
        BY <1>1, <1>12, <3>1
      <4> QED BY <1>10, <2>1, <3>1, <4>1 DEF ContentIs
    <3>2. CASE \E g \in Frames : pool.frames[g].is_valid /\ pool.frames[g].page = x
      <4>1. PICK g \in Frames : pool.frames[g].is_valid /\ pool.frames[g].page = x /\ pool.frames[g].data = v
        BY <2>1, <3>2 DEF ContentIs
      <4> QED BY <1>10, <4>1 DEF ContentIs
    <3> QED BY <3>1, <3>2
  <2> QED BY <1>0, <1>9, <2>1, ContentsKept
<1>15. held' \in HeldType /\ readFaults' \in 0 .. MaxReadFaults /\ open' = TRUE
  BY <1>0
<1> QED BY <1>1, <1>9, <1>11, <1>13, <1>14, <1>15, PoolPartsNext

(* A new pool is sound: nothing is cached.                                 *)
LEMMA EmptyIsSound ==
  PoolIsSound(EmptyPool) /\ \A f \in Frames : ~EmptyPool.frames[f].is_valid
<1>v. PICK v : v = CHOOSE w \in PageData : TRUE
  OBVIOUS
<1>1. v \in PageData
  BY <1>v, PagesAssumption
<1>2. PICK fr : fr = [page |-> NoPage, data |-> v, pin_count |-> 0, is_dirty |-> FALSE, is_valid |-> FALSE,
                      prev |-> FRAME_NONE, next |-> FRAME_NONE]
  OBVIOUS
<1>3. fr \in FrameRec /\ ~fr.is_valid
  BY <1>1, <1>2 DEF FrameRec
<1>4. PICK pl : pl = EmptyPool
  OBVIOUS
<1>5. pl = [frames |-> [f \in Frames |-> fr], map |-> [b \in Buckets |-> Free], head |-> FRAME_NONE, tail |-> FRAME_NONE]
  BY <1>2, <1>4, <1>v DEF EmptyPool
<1>6. pl \in PoolType /\ pl.head = FRAME_NONE /\ pl.tail = FRAME_NONE
  BY <1>3, <1>5 DEF PoolType
<1>7. (\A f \in Frames : ~pl.frames[f].is_valid) /\ \A b \in Buckets : pl.map[b] = Free
  BY <1>3, <1>5
<1>8. MapIsSound(pl.map)
  BY <1>6, <1>7 DEF Entry, MapIsSound, MapType, OneEntryEach, PoolType
<1>9. \A e \in Entry : Has(pl.map, e) <=> pl.frames[e.frame].is_valid /\ pl.frames[e.frame].page = e.page
  BY <1>7, FreeIsNoEntry DEF Entry, Has
<1>10. \E s, n : Links(pl, s, n) /\ Lists(ValidIn(pl), s, n)
  <2>1. PICK s : s = [i \in 1 .. 0 |-> 1]
    OBVIOUS
  <2>2. \A i : i \notin 1 .. 0
    OBVIOUS
  <2>3. s \in [1 .. 0 -> Frames]
    BY <2>1, <2>2
  <2>4. Links(pl, s, 0)
    BY <1>6, <2>2, <2>3 DEF Links
  <2>5. Lists(ValidIn(pl), s, 0)
    BY <1>7, <2>2 DEF Lists, ValidIn
  <2> QED BY <2>4, <2>5
<1> QED BY <1>4, <1>6, <1>7, <1>8, <1>9, <1>10 DEF PoolIsSound

(* The invariant when nothing is cached and nobody holds a page.           *)
LEMMA EmptyInvNext ==
  ASSUME PoolInv, pool' = EmptyPool, held' = held, \A u \in Users : held[u] = Idle, open' \in BOOLEAN,
         files' \in [Pages -> PageData], readFaults' \in 0 .. MaxReadFaults, writeFaults' \in 0 .. MaxWriteFaults
  PROVE  PoolInv'
<1>1. PoolIsSound(pool') /\ \A f \in Frames : ~pool'.frames[f].is_valid
  BY EmptyIsSound
<1>2. pool' \in PoolType
  BY <1>1 DEF PoolIsSound
<1>3. PinsMatch(pool', held') /\ NothingIsLost(pool', held', files')
  BY <1>1 DEF NothingIsLost, PinsMatch
<1>4. PoolTypeOK'
  BY <1>2 DEF PoolInv, PoolType, PoolTypeOK
<1> QED BY <1>1, <1>3, <1>4 DEF PoolInv

(* Destroying the pool keeps the invariant, and the contents if no write   *)
(* fails.                                                                  *)
LEMMA DestroyKeeps ==
  ASSUME PoolInv, Destroy
  PROVE  PoolInv' /\ (writeFaults' = 0 => ContentsOf(pool', files') = ContentsOf(pool, files))
<1>0. /\ \A u \in Users : held[u] = Idle
      /\ open' = FALSE /\ pool' = EmptyPool /\ held' = held /\ readFaults' = readFaults
  BY DEF Destroy
<1>1. PICK bad \in SUBSET Dirty : page_writes(Dirty, bad)
  BY DEF Destroy
<1>2. /\ files' \in [Pages -> PageData] /\ writeFaults' \in 0 .. MaxWriteFaults
      /\ writeFaults' = 0 => writeFaults = 0 /\ bad = {}
      /\ \A f \in Dirty \ bad : files'[pool.frames[f].page] = pool.frames[f].data
      /\ \A x \in Pages : (\A f \in Dirty \ bad : pool.frames[f].page # x) => files'[x] = files[x]
  BY <1>1, FlushWrites
<1>3. PoolInv'
  BY <1>0, <1>2, EmptyInvNext, PoolParts
<1>4. ASSUME writeFaults' = 0 PROVE ContentsOf(pool', files') = ContentsOf(pool, files)
  <2>0. PoolIsSound(pool) /\ PoolIsSound(pool') /\ \A f \in Frames : ~pool'.frames[f].is_valid
    BY <1>0, EmptyIsSound, PoolParts
  <2>1. /\ NothingIsLost(pool, held, files)
        /\ \A f \in Dirty : files'[pool.frames[f].page] = pool.frames[f].data
        /\ \A x \in Pages : (\A f \in Dirty : pool.frames[f].page # x) => files'[x] = files[x]
    BY <1>2, <1>4, PoolParts
  <2>2. ASSUME NEW x \in Pages, NEW v, ContentIs(pool, files, x, v) PROVE ContentIs(pool', files', x, v)
    <3>1. CASE \A g \in Frames : ~(pool.frames[g].is_valid /\ pool.frames[g].page = x)
      <4>1. files'[x] = files[x]
        BY <2>1, <3>1 DEF Dirty
      <4> QED BY <2>0, <2>2, <3>1, <4>1 DEF ContentIs
    <3>2. CASE \E g \in Frames : pool.frames[g].is_valid /\ pool.frames[g].page = x
      <4>1. PICK g \in Frames : pool.frames[g].is_valid /\ pool.frames[g].page = x /\ pool.frames[g].data = v
        BY <2>2, <3>2 DEF ContentIs
      <4>2. CASE pool.frames[g].is_dirty
        <5>1. files'[x] = v
          BY <2>1, <4>1, <4>2 DEF Dirty
        <5> QED BY <2>0, <5>1 DEF ContentIs
      <4>3. CASE ~pool.frames[g].is_dirty
        <5>1. \A f \in Dirty : f \in Frames /\ f # g /\ pool.frames[f].is_valid
          BY <4>3 DEF Dirty
        <5>2. \A f \in Dirty : pool.frames[f].page # x
          BY <2>0, <4>1, <5>1, OneFrameEach
        <5>3. files'[x] = v
          BY <1>0, <2>1, <4>1, <4>3, <5>2 DEF NothingIsLost
        <5> QED BY <2>0, <5>3 DEF ContentIs
      <4> QED BY <4>2, <4>3
    <3> QED BY <3>1, <3>2
  <2> QED BY <2>0, <2>2, ContentsKept
<1> QED BY <1>3, <1>4

(* So does creating it again.                                              *)
LEMMA CreateKeeps ==
  ASSUME PoolInv, Create
  PROVE  PoolInv' /\ ContentsOf(pool', files') = ContentsOf(pool, files)
<1>1. pool = EmptyPool /\ \A u \in Users : held[u] = Idle
  BY DEF Create, PoolInv
<1>2. pool' = EmptyPool /\ open' \in BOOLEAN /\ UNCHANGED <<files, held, readFaults, writeFaults>>
  BY DEF Create
<1>3. PoolInv'
  BY <1>1, <1>2, EmptyInvNext, PoolParts
<1> QED BY <1>1, <1>2, <1>3

-----------------------------------------------------------------------------
(* The theorems about the buffer pool                                      *)

(* Every step of the pool keeps the invariant, and once no write fails it  *)
(* changes the contents of the pages only where a user writes.             *)
LEMMA PoolStep ==
  ASSUME PoolInv, PoolNext
  PROVE  /\ PoolInv'
         /\ writeFaults' = 0 =>
              \/ ContentsOf(pool', files') = ContentsOf(pool, files)
              \/ \E u \in Users, v \in PageData :
                   Write(u, v) /\ ContentsOf(pool', files') = [ContentsOf(pool, files) EXCEPT ![held[u].page] = v]
<1>1. ASSUME NEW u \in Users, NEW p \in Pages, FetchHit(u, p) \/ FetchMiss(u, p) \/ FetchReadFails(u, p)
      PROVE  PoolInv' /\ (writeFaults' = 0 => ContentsOf(pool', files') = ContentsOf(pool, files))
  BY <1>1, HitKeeps, MissKeeps, ReadFailsKeeps
<1>2. ASSUME NEW u \in Users, NEW v \in PageData, Write(u, v)
      PROVE  PoolInv' /\ ContentsOf(pool', files') = [ContentsOf(pool, files) EXCEPT ![held[u].page] = v]
  BY <1>2, WriteKeeps
<1>3. ASSUME NEW u \in Users, MarkDirty(u) \/ Unpin(u)
      PROVE  PoolInv' /\ ContentsOf(pool', files') = ContentsOf(pool, files)
  BY <1>3, MarkKeeps, UnpinKeeps
<1>4. ASSUME NEW p \in Pages, FlushPage(p)
      PROVE  PoolInv' /\ ContentsOf(pool', files') = ContentsOf(pool, files)
  <2>1. PICK bad \in SUBSET {FrameOf(p)} :
          page_writes({FrameOf(p)}, bad) /\ pool' = Cleaned({FrameOf(p)} \ bad)
    BY <1>4 DEF FlushPage
  <2>2. open = TRUE /\ {FrameOf(p)} \subseteq Dirty /\ UNCHANGED <<held, open, readFaults>>
    BY <1>4, PoolParts DEF FlushPage
  <2> QED BY <2>1, <2>2, FlushKeeps
<1>5. ASSUME FlushAll PROVE PoolInv' /\ ContentsOf(pool', files') = ContentsOf(pool, files)
  <2>1. PICK bad \in SUBSET Dirty : page_writes(Dirty, bad) /\ pool' = Cleaned(Dirty \ bad)
    BY <1>5 DEF FlushAll
  <2>2. open = TRUE /\ UNCHANGED <<held, open, readFaults>>
    BY <1>5, PoolParts DEF FlushAll
  <2> QED BY <2>1, <2>2, FlushKeeps
<1>6. CASE \E u \in Users :
             \/ \E p \in Pages : FetchHit(u, p) \/ FetchMiss(u, p) \/ FetchReadFails(u, p)
             \/ \E v \in PageData : Write(u, v)
             \/ MarkDirty(u)
             \/ Unpin(u)
  BY <1>1, <1>2, <1>3, <1>6
<1>7. CASE (\E p \in Pages : FlushPage(p)) \/ FlushAll
  BY <1>4, <1>5, <1>7
<1>8. CASE Destroy
  BY <1>8, DestroyKeeps
<1>9. CASE Create
  BY <1>9, CreateKeeps
<1> QED BY <1>6, <1>7, <1>8, <1>9 DEF PoolNext

(* The invariant holds of a new pool.                                      *)
LEMMA PoolStarts ==
  ASSUME PoolInit PROVE PoolInv
<1>1. PoolIsSound(pool) /\ \A f \in Frames : ~pool.frames[f].is_valid
  BY EmptyIsSound DEF PoolInit
<1>2. pool \in PoolType
  BY <1>1 DEF PoolIsSound
<1>3. held = [u \in Users |-> Idle] /\ open = TRUE /\ files \in [Pages -> PageData]
  BY DEF PoolInit
<1>4. readFaults \in 0 .. MaxReadFaults /\ writeFaults \in 0 .. MaxWriteFaults
  BY FaultsAssumption DEF PoolInit
<1>5. PinsMatch(pool, held) /\ NothingIsLost(pool, held, files)
  BY <1>1, <1>3 DEF NothingIsLost, PinsMatch
<1>6. PoolTypeOK
  BY <1>2, <1>3, <1>4 DEF PoolType, PoolTypeOK
<1> QED BY <1>1, <1>3, <1>5, <1>6 DEF PoolInv

(* The invariant of the buffer pool holds for any number of frames, pages   *)
(* and users, however they collide in the map.                             *)
THEOREM PoolInvHolds == PoolSpec => []PoolInv
<1>1. PoolInit => PoolInv
  BY PoolStarts
<1>2. PoolInv /\ [PoolNext]_poolVars => PoolInv'
  <2> SUFFICES ASSUME PoolInv, [PoolNext]_poolVars PROVE PoolInv'
    OBVIOUS
  <2>1. CASE PoolNext
    BY <2>1, PoolStep
  <2>2. CASE UNCHANGED poolVars
    BY <2>2 DEF EmptyPool, NothingIsLost, PinsMatch, Holders, PoolInv, PoolTypeOK, poolVars
  <2> QED BY <2>1, <2>2
<1> QED BY <1>1, <1>2, PTL DEF PoolSpec

(* The map of a sound pool finds every page, and nothing else is in it.    *)
LEMMA MapFinds ==
  ASSUME PoolInv PROVE MapFindsEveryPage
<1>0. PoolIsSound(pool)
  BY PoolParts
<1> DEFINE used == {c \in Buckets : pool.map[c] # Free}
<1>1. \A f \in Valid : map_find(pool.map, pool.frames[f].page) # NoBucket /\ FrameOf(pool.frames[f].page) = f
  <2> SUFFICES ASSUME NEW f \in Valid
               PROVE  map_find(pool.map, pool.frames[f].page) # NoBucket /\ FrameOf(pool.frames[f].page) = f
    OBVIOUS
  <2>1. f \in Frames /\ pool.frames[f].is_valid
    BY DEF Valid
  <2>2. pool.frames[f].page \in Pages
    BY <1>0, <2>1, EntryOf
  <2> QED BY <1>0, <2>1, <2>2, FindsTheFrame DEF FrameOf
<1>2. \A b \in used : pool.map[b].frame \in Valid
  BY <1>0, EntryAt DEF Valid
<1>3. \A f \in Valid : \E b \in used : pool.map[b].frame = f
  BY <1>0, EntryOf DEF Valid
<1>4. {pool.map[b].frame : b \in used} = Valid
  <2> HIDE DEF used
  <2> QED BY <1>2, <1>3
<1>5. Cardinality(used) = Cardinality(Valid)
  <2>1. PICK fn : fn = [c \in used |-> pool.map[c].frame]
    OBVIOUS
  <2>2. \A a, b \in used : pool.map[a].frame = pool.map[b].frame => a = b
    BY <1>0, OneEntryPerFrame
  <2>3. used \subseteq Buckets /\ IsFiniteSet(Buckets)
    BY Capacity, FS_Interval
  <2> HIDE DEF used
  <2>4. fn \in [used -> Valid] /\ (\A a, b \in used : fn[a] = fn[b] => a = b) /\ \A f \in Valid : \E b \in used : fn[b] = f
    BY <1>2, <1>3, <2>1, <2>2
  <2>5. fn \in Bijection(used, Valid)
    BY <2>4, Fun_IsBij
  <2>6. ExistsBijection(used, Valid)
    BY <2>5, Fun_ExistsBij
  <2> QED BY <2>3, <2>6, FS_Bijection, FS_Subset
<1> QED BY <1>1, <1>4, <1>5 DEF MapFindsEveryPage

(* The list of a sound pool threads its valid frames.                      *)
LEMMA ListThreads ==
  ASSUME PoolInv PROVE ListThreadsValidFrames
<1>0. PoolIsSound(pool) /\ Valid = ValidIn(pool)
  BY PoolParts DEF Valid, ValidIn
<1>1. PICK s, n : Links(pool, s, n) /\ Lists(ValidIn(pool), s, n)
  BY <1>0 DEF PoolIsSound
<1>l. /\ n \in Nat /\ s \in [1 .. n -> Frames]
      /\ \A i, j \in 1 .. n : s[i] = s[j] => i = j
      /\ pool.head = (IF n = 0 THEN FRAME_NONE ELSE s[1])
      /\ \A i \in 1 .. n : /\ pool.frames[s[i]].prev = (IF i = 1 THEN FRAME_NONE ELSE s[i - 1])
                           /\ pool.frames[s[i]].next = (IF i = n THEN FRAME_NONE ELSE s[i + 1])
  BY <1>1 DEF Links
<1>2. n <= NumFrames
  BY <1>1, ListIsShort
<1>n. NumFrames \in Nat
  BY FramesAssumption
<1>at. PICK at : at = FromTail(pool)
  OBVIOUS
<1>3. /\ \A i \in 0 .. n - 1 : at[i] = s[n - i]
      /\ \A i \in n .. NumFrames : at[i] = FRAME_NONE
  BY <1>1, <1>at, WalkIsTheList
<1>w. PICK walk : walk = {i \in 0 .. NumFrames : at[i] # FRAME_NONE}
  OBVIOUS
<1>4. \A i \in 0 .. n - 1 : n - i \in 1 .. n /\ at[i] \in Frames /\ at[i] # FRAME_NONE /\ i \in 0 .. NumFrames
  BY <1>l, <1>2, <1>3, <1>n, NoneIsNoFrame
<1>5. walk = 0 .. n - 1
  <2>1. \A i \in 0 .. NumFrames : i \in 0 .. n - 1 \/ i \in n .. NumFrames
    BY <1>l, <1>2, <1>n
  <2> QED BY <1>3, <1>4, <1>w, <2>1
<1>6. \A f \in Valid : f \in Frames /\ \E i \in 1 .. n : s[i] = f
  BY <1>0, <1>1 DEF Lists, ValidIn
<1>7. \A i \in 1 .. n : s[i] \in Valid
  BY <1>0, <1>1, <1>l DEF Lists
<1>8. {at[i] : i \in walk} = Valid
  <2>1. \A i \in walk : at[i] \in Valid
    BY <1>3, <1>4, <1>5, <1>7
  <2>2. ASSUME NEW f \in Valid PROVE \E i \in walk : at[i] = f
    <3>1. PICK j \in 1 .. n : s[j] = f
      BY <1>6
    <3>2. n - j \in 0 .. n - 1 /\ n - (n - j) = j
      BY <1>l
    <3> QED BY <1>3, <1>5, <3>1, <3>2
  <2> QED BY <2>1, <2>2
<1>9. Cardinality(walk) = n
  <2>1. 0 \in Int /\ n - 1 \in Int /\ (IF 0 > n - 1 THEN 0 ELSE (n - 1) - 0 + 1) = n
    BY <1>l
  <2> QED BY <1>5, <2>1, FS_Interval
<1>10. Cardinality(Valid) = n
  <2>1. s \in [1 .. n -> Valid] /\ \A f \in Valid : \E i \in 1 .. n : s[i] = f
    BY <1>l, <1>6, <1>7
  <2>2. s \in Bijection(1 .. n, Valid)
    BY <1>l, <2>1, Fun_IsBij
  <2>3. ExistsBijection(1 .. n, Valid)
    BY <2>2, Fun_ExistsBij
  <2> QED BY <1>l, <2>3, FS_CountingElements
<1>11. pool.head = IF walk = {} THEN FRAME_NONE ELSE at[Cardinality(walk) - 1]
  <2>1. CASE n = 0
    <3>1. walk = {}
      BY <1>5, <2>1
    <3> QED BY <1>l, <2>1, <3>1
  <2>2. CASE n # 0
    <3>1. n - 1 \in 0 .. n - 1 /\ n - (n - 1) = 1
      BY <1>l, <2>2
    <3>2. walk # {} /\ Cardinality(walk) - 1 = n - 1
      BY <1>5, <1>9, <3>1
    <3>3. at[n - 1] = s[1]
      BY <1>3, <3>1
    <3> QED BY <1>l, <2>2, <3>2, <3>3
  <2> QED BY <2>1, <2>2
<1>12. ASSUME NEW f \in Valid, pool.frames[f].prev # FRAME_NONE
       PROVE  pool.frames[pool.frames[f].prev].next = f
  <2>1. PICK i \in 1 .. n : s[i] = f
    BY <1>6
  <2>2. i # 1 /\ pool.frames[f].prev = s[i - 1]
    BY <1>l, <1>12, <2>1
  <2>3. i - 1 \in 1 .. n /\ i - 1 # n /\ (i - 1) + 1 = i
    BY <1>l, <2>2
  <2> QED BY <1>l, <2>1, <2>2, <2>3
<1> QED BY <1>8, <1>9, <1>10, <1>11, <1>12, <1>at, <1>w DEF ListThreadsValidFrames

(* The frames, the page map and the LRU list agree after every operation,   *)
(* for every number of frames and every set of pages.                      *)
THEOREM MapAndListAgreeHolds == PoolSpec => []MapAndListAgree
<1>1. PoolInv => MapAndListAgree
  BY ListThreads, MapFinds DEF MapAndListAgree, PoolInv
<1> QED BY <1>1, PoolInvHolds, PTL

(* A frame that a caller holds is never reused, and the pin counts are the *)
(* numbers of holders.                                                     *)
THEOREM PinsProtectTheirFramesHolds == PoolSpec => []PinsProtectTheirFrames
<1>1. ASSUME PoolInv PROVE PinsProtectTheirFrames
  <2>1. \A u \in Users : held[u] # Idle => held[u].frame \in Valid /\ pool.frames[held[u].frame].page = held[u].page
    BY <1>1, HolderHasAPool DEF Valid
  <2>2. \A f \in Valid : pool.frames[f].pin_count = Cardinality({u \in Users : held[u] # Idle /\ held[u].frame = f})
    BY <1>1, PoolParts DEF Holders, PinsMatch, Valid
  <2> QED BY <2>1, <2>2 DEF PinsProtectTheirFrames
<1> QED BY <1>1, PoolInvHolds, PTL

(* Until a write fails, the pool implements the page store.                *)
THEOREM PoolIsAPageStore == PoolSpec => ImplementsPageStore
<1>c. Contents = ContentsOf(pool, files)
  BY DEF Contents, ContentsOf, Valid, ValidIn
<1>d. Contents' = ContentsOf(pool', files')
  BY DEF Contents, ContentsOf, Valid, ValidIn
<1>1. PoolInit => Store!Init
  <2> SUFFICES ASSUME PoolInit PROVE Store!Init
    OBVIOUS
  <2>1. \A f \in Frames : ~pool.frames[f].is_valid
    BY EmptyIsSound DEF PoolInit
  <2>2. Contents = files
    <3>1. Contents = [p \in Pages |-> files[p]]
      BY <2>1 DEF Contents, Valid
    <3> QED BY <3>1 DEF PoolInit
  <2>3. Holds = [u \in Users |-> NoPage]
    BY DEF Holds, PoolInit
  <2> QED BY <2>2, <2>3 DEF PoolInit, Store!Init
<1>2. PoolInv /\ [PoolNext]_poolVars => [writeFaults' = 0 => Store!Next \/ UNCHANGED Store!vars]_poolVars
  <2> SUFFICES ASSUME PoolInv, PoolNext, writeFaults' = 0 PROVE Store!Next \/ UNCHANGED Store!vars
    OBVIOUS
  <2>0. held \in HeldType /\ PoolInv' /\ held' \in HeldType
    BY PoolParts, PoolStep DEF HeldType, PoolInv, PoolTypeOK
  <2>1. \/ Contents' = Contents
        \/ \E u \in Users, v \in PageData : Write(u, v) /\ Contents' = [Contents EXCEPT ![held[u].page] = v]
    BY <1>c, <1>d, PoolStep
  <2>2. \A u \in Users : held[u] # Idle => held[u].page \in Pages /\ held[u].page # NoPage
    BY HolderHasAPool, PagesAssumption
  <2>h. \A u \in Users : Holds[u] = IF held[u] = Idle THEN NoPage ELSE held[u].page
    BY DEF Holds
  <2>3. CASE \E u \in Users, v \in PageData : Write(u, v) /\ Contents' = [Contents EXCEPT ![held[u].page] = v]
    <3>1. PICK u \in Users, v \in PageData : Write(u, v) /\ Contents' = [Contents EXCEPT ![held[u].page] = v]
      BY <2>3
    <3>2. held[u] # Idle
      BY <3>1 DEF Write
    <3>b. PICK b \in BOOLEAN : b = TRUE
      OBVIOUS
    <3>3. held' = Marked(held, u, b)
      BY <3>1, <3>b DEF Marked, Write
    <3>4. /\ \A w \in Users : held[w] # Idle <=> held'[w] # Idle
          /\ \A w \in Users : held[w] # Idle => held'[w].page = held[w].page
      BY <2>0, <3>2, <3>3, HolderStays
    <3>5. Holds' = Holds
      BY <3>4 DEF Holds
    <3>6. Holds[u] # NoPage /\ Holds[u] = held[u].page
      BY <2>2, <2>h, <3>2
    <3>7. Store!Modify(u, v)
      BY <3>1, <3>5, <3>6 DEF Store!Modify
    <3> QED BY <3>7 DEF Store!Next
  <2>4. CASE Contents' = Contents
    <3>1. ASSUME NEW u \in Users, NEW p \in Pages, FetchHit(u, p) \/ FetchMiss(u, p) PROVE Store!Next
      <4>1. held[u] = Idle /\ PoolIsSound(pool)
        BY <3>1, PoolParts DEF FetchHit, FetchMiss
      <4>2. \E f \in Frames : Hold(u, p, f)
        <5>1. CASE FetchHit(u, p)
          <6>1. FrameOf(p) \in Frames /\ Hold(u, p, FrameOf(p))
            BY <4>1, <5>1, FindsTheFrame DEF FetchHit, FrameOf
          <6> QED BY <6>1
        <5>2. CASE FetchMiss(u, p)
          <6>1. find_victim(pool) \in Frames /\ Hold(u, p, find_victim(pool))
            BY <4>1, <5>2, VictimIsUnpinned DEF FetchMiss
          <6> QED BY <6>1
        <5> QED BY <3>1, <5>1, <5>2
      <4>3. PICK f \in Frames : held' = Holding(held, u, p, f)
        BY <4>2 DEF Hold, Holding
      <4>5. held'[u] # Idle /\ held'[u].page = p /\ \A w \in Users : w # u => held'[w] = held[w]
        BY <2>0, <4>1, <4>3, HolderComes
      <4>6. Holds' = [Holds EXCEPT ![u] = p]
        BY <4>5 DEF Holds
      <4>7. Holds[u] = NoPage
        BY <2>h, <4>1
      <4> QED BY <2>4, <4>6, <4>7 DEF Store!Fetch, Store!Next
    <3>2. ASSUME NEW u \in Users, Unpin(u) PROVE Store!Next
      <4>1. held[u] # Idle /\ held' = Released(held, u)
        BY <3>2 DEF Released, Unpin
      <4>2. held'[u] = Idle /\ \A w \in Users : w # u => held'[w] = held[w]
        BY <2>0, <4>1 DEF HeldType, Released
      <4>3. Holds' = [Holds EXCEPT ![u] = NoPage]
        BY <4>2 DEF Holds
      <4>4. Holds[u] # NoPage
        BY <2>2, <2>h, <4>1
      <4> QED BY <2>4, <4>3, <4>4 DEF Store!Next, Store!Release
    <3>3. ASSUME NEW u \in Users, NEW b \in BOOLEAN, held[u] # Idle, held' = Marked(held, u, b) PROVE UNCHANGED Store!vars
      <4>1. /\ \A w \in Users : held[w] # Idle <=> held'[w] # Idle
            /\ \A w \in Users : held[w] # Idle => held'[w].page = held[w].page
        BY <2>0, <3>3, HolderStays
      <4>2. Holds' = Holds
        BY <4>1 DEF Holds
      <4> QED BY <2>4, <4>2 DEF Store!vars
    <3>4. ASSUME NEW u \in Users, MarkDirty(u) \/ \E v \in PageData : Write(u, v) PROVE UNCHANGED Store!vars
      <4>1. held[u] # Idle /\ \E b \in BOOLEAN : held' = Marked(held, u, b)
        BY <3>4 DEF Marked, MarkDirty, Write
      <4> QED BY <3>3, <4>1
    <3>5. ASSUME held' = held PROVE UNCHANGED Store!vars
      BY <2>4, <3>5 DEF Holds, Store!vars
    <3>6. ASSUME \/ \E u \in Users, p \in Pages : FetchReadFails(u, p)
                 \/ \E p \in Pages : FlushPage(p)
                 \/ FlushAll \/ Destroy \/ Create
          PROVE  held' = held
      BY <3>6 DEF Create, Destroy, FetchReadFails, FlushAll, FlushPage
    <3> QED BY <3>1, <3>2, <3>4, <3>5, <3>6 DEF PoolNext
  <2> QED BY <2>1, <2>3, <2>4
<1> QED BY <1>1, <1>2, PoolInvHolds, PTL DEF ImplementsPageStore, PoolSpec
-----------------------------------------------------------------------------
(* The write-ahead log                                                     *)

\* An append, as the log keeps it.
LogEntry == [lsn : Nat \ {INVALID_LSN}, data_size : DataSizes, start : Nat,
             written : Nat \ {0}, acked : BOOLEAN]

\* Appends that follow one another in the file, none longer than its record.
IsLog(e) ==
  /\ e \in Seq(LogEntry)
  /\ \A i \in 1 .. Len(e) : e[i].written <= CellsOf(e[i].data_size)
  /\ \A i \in 1 .. Len(e) : e[i].start = IF i = 1 THEN 0 ELSE End(e[i - 1])

\* The handle, and the counts of what has failed.
WalHandle == [open : BOOLEAN, next_lsn : Nat \ {0}, flushed_lsn : Nat]
FailureCounts == [write : Nat, sync : Nat, close : Nat, crash : Nat, power : Nat]

\* The shapes of the variables, as values so that the next ones have them too.
WellFormed(e, w, s, f) ==
  /\ IsLog(e) /\ w \in WalHandle /\ f \in FailureCounts
  /\ s \in Nat /\ s <= FileSize(e)

\* The first n appends are complete.
AllWhole(e, n) == \A i \in 1 .. n : Complete(e[i])

\* The LSNs grow up to the first append that was cut short, that one included.
LsnsGrow(e) ==
  \A i, j \in 1 .. Len(e) : i < j /\ AllWhole(e, j - 1) => e[i].lsn < e[j].lsn

\* The next LSN is above those.
NextIsAbove(e, w) ==
  \A i \in 1 .. Len(e) : AllWhole(e, i) => e[i].lsn < w.next_lsn

\* What is on stable storage as long as the log was never left without a sync.
SyncedSoFar(e, w, s) ==
  IF w.open
  THEN \A i \in 1 .. Len(e) : e[i].lsn <= w.flushed_lsn /\ e[i].acked => End(e[i]) <= s
  ELSE s = FileSize(e)

\* The inductive invariant of the log.
WalInv ==
  /\ WellFormed(records, wal, synced, failures)
  /\ LsnsGrow(records)
  /\ wal.open => NextIsAbove(records, wal) /\ wal.flushed_lsn < wal.next_lsn
  /\ failures.crash = 0 /\ failures.close = 0 => SyncedSoFar(records, wal, synced)

(* The fields of an append, and the place it takes in the file.            *)
LEMMA AppendFields ==
  ASSUME NEW e, IsLog(e), NEW i \in 1 .. Len(e)
  PROVE  /\ Len(e) \in Nat /\ DOMAIN e = 1 .. Len(e) /\ e[i] \in LogEntry
         /\ e[i].lsn \in Nat /\ e[i].lsn # 0 /\ e[i].data_size \in Nat /\ e[i].start \in Nat
         /\ e[i].written \in Nat /\ e[i].written > 0 /\ e[i].acked \in BOOLEAN
         /\ CellsOf(e[i].data_size) \in Nat /\ CellsOf(e[i].data_size) = 2 + 2 * e[i].data_size
         /\ e[i].written <= CellsOf(e[i].data_size)
         /\ End(e[i]) \in Nat /\ e[i].start < End(e[i]) /\ End(e[i]) = e[i].start + e[i].written
<1>1. Len(e) \in Nat /\ DOMAIN e = 1 .. Len(e) /\ e[i] \in LogEntry
  BY DEF IsLog
<1>2. /\ e[i].lsn \in Nat /\ e[i].lsn # 0 /\ e[i].data_size \in Nat /\ e[i].start \in Nat
      /\ e[i].written \in Nat /\ e[i].written # 0 /\ e[i].acked \in BOOLEAN
  BY <1>1, SizesAssumption DEF LogEntry, INVALID_LSN
<1>3. e[i].written <= CellsOf(e[i].data_size)
  BY DEF IsLog
<1>4. CellsOf(e[i].data_size) \in Nat /\ CellsOf(e[i].data_size) = 2 + 2 * e[i].data_size
  BY <1>2 DEF CellsOf, HEADER
<1> QED BY <1>1, <1>2, <1>3, <1>4 DEF End

(* An append ends before a later one begins.                               *)
LEMMA EndsInOrder ==
  ASSUME NEW e, IsLog(e), NEW i \in 1 .. Len(e), NEW j \in 1 .. Len(e), i < j
  PROVE  End(e[i]) <= e[j].start
<1>0. Len(e) \in Nat
  BY DEF IsLog
<1> DEFINE S == {k \in Nat : i < k /\ k <= Len(e) /\ ~(End(e[i]) <= e[k].start)}
<1>1. SUFFICES ASSUME S # {} PROVE FALSE
  <2>1. j \in Nat /\ j \notin S
    BY <1>0, <1>1
  <2> QED BY <1>0, <2>1
<1>2. PICK k \in S : \A l \in S : k <= l
  <2> S \subseteq Nat
    OBVIOUS
  <2> HIDE DEF S
  <2> QED BY <1>1, LeastIsLeast
<1>3. k \in 1 .. Len(e) /\ k # 1 /\ k - 1 \in 1 .. Len(e) /\ k - 1 \in Nat /\ i <= k - 1
  BY <1>0, <1>2
<1>4. e[k].start = End(e[k - 1])
  BY <1>3 DEF IsLog
<1>5. CASE k - 1 = i
  BY <1>2, <1>3, <1>4, <1>5, AppendFields
<1>6. CASE k - 1 # i
  <2>1. End(e[i]) <= e[k - 1].start
    <3>1. k - 1 \notin S
      BY <1>2, <1>3
    <3> QED BY <1>0, <1>3, <1>6, <3>1
  <2>2. /\ e[k - 1].start < End(e[k - 1]) /\ e[k - 1].start \in Nat /\ End(e[k - 1]) \in Nat
        /\ End(e[i]) \in Nat
    BY <1>3, AppendFields
  <2>3. End(e[i]) <= e[k].start
    BY <1>4, <2>1, <2>2
  <2> QED BY <1>2, <2>3
<1> QED BY <1>5, <1>6

(* The file ends where the last append does.                               *)
LEMMA FileEnds ==
  ASSUME NEW e, IsLog(e)
  PROVE  /\ FileSize(e) \in Nat
         /\ \A i \in 1 .. Len(e) : End(e[i]) <= FileSize(e)
         /\ Len(e) # 0 => FileSize(e) = End(e[Len(e)])
         /\ Len(e) = 0 => FileSize(e) = 0
<1>0. Len(e) \in Nat /\ (Len(e) = 0 <=> e = <<>>)
  BY EmptySeq DEF IsLog
<1>1. CASE Len(e) = 0
  BY <1>0, <1>1 DEF FileSize
<1>2. CASE Len(e) # 0
  <2>1. Len(e) \in 1 .. Len(e) /\ FileSize(e) = End(e[Len(e)])
    BY <1>0, <1>2 DEF FileSize
  <2>2. ASSUME NEW i \in 1 .. Len(e) PROVE End(e[i]) <= FileSize(e)
    <3>1. CASE i = Len(e)
      BY <2>1, <3>1, AppendFields
    <3>2. CASE i # Len(e)
      <4>1. End(e[i]) <= e[Len(e)].start
        BY <1>0, <2>1, <3>2, EndsInOrder
      <4> QED BY <2>1, <4>1, AppendFields
    <3> QED BY <3>1, <3>2
  <2> QED BY <1>2, <2>1, <2>2, AppendFields
<1> QED BY <1>1, <1>2

(* The header at the start of an append is its own.                        *)
LEMMA HeaderAt ==
  ASSUME NEW e, IsLog(e), NEW i \in 1 .. Len(e), HEADER <= e[i].written
  PROVE  /\ IsHeader(e, e[i].start) /\ HeaderOf(e, e[i].start) = i
         /\ RecordEnd(e, e[i].start) = e[i].start + CellsOf(e[i].data_size)
<1>1. DOMAIN e = 1 .. Len(e)
  BY AppendFields
<1>2. ASSUME NEW j \in 1 .. Len(e), e[j].start = e[i].start PROVE j = i
  <2>1. CASE i < j
    BY <1>2, <2>1, EndsInOrder, AppendFields
  <2>2. CASE j < i
    BY <1>2, <2>2, EndsInOrder, AppendFields
  <2> QED BY <2>1, <2>2
<1>3. HasHeader(e[i], e[i].start)
  BY DEF HasHeader
<1>4. HeaderOf(e, e[i].start) = i
  BY <1>1, <1>2, <1>3 DEF HeaderOf, HasHeader
<1> QED BY <1>1, <1>3, <1>4 DEF IsHeader, RecordEnd

(* A cell is known by the append it lies in.                               *)
LEMMA CellAt ==
  ASSUME NEW e, IsLog(e), NEW i \in 1 .. Len(e), NEW c \in Nat, e[i].start <= c, c < End(e[i])
  PROVE  Cell(e, c) = [of |-> i, at |-> c - e[i].start]
<1>1. DOMAIN e = 1 .. Len(e)
  BY AppendFields
<1>2. ASSUME NEW j \in 1 .. Len(e), e[j].start <= c, c < End(e[j]) PROVE j = i
  <2>1. CASE i < j
    BY <1>2, <2>1, EndsInOrder, AppendFields
  <2>2. CASE j < i
    BY <1>2, <2>2, EndsInOrder, AppendFields
  <2> QED BY <2>1, <2>2
<1>3. i = CHOOSE j \in DOMAIN e : e[j].start <= c /\ c < End(e[j])
  BY <1>1, <1>2
<1> QED BY <1>3 DEF Cell

(* A reader that goes from place to place: the function of its turns exists. *)
LEMMA TurnsExist ==
  ASSUME NEW g \in [Nat -> Nat], NEW n \in Nat
  PROVE  \E at \in [0 .. n -> Nat] : at[0] = 0 /\ \A k \in 1 .. n : at[k] = g[at[k - 1]]
<1> DEFINE P(m) == \E at \in [0 .. m -> Nat] : at[0] = 0 /\ \A k \in 1 .. m : at[k] = g[at[k - 1]]
           S == {m \in Nat : ~P(m)}
<1>1. SUFFICES ASSUME S # {} PROVE FALSE
  BY <1>1
<1>2. PICK m \in S : m \in Nat /\ \A l \in S : m <= l
  <2> S \subseteq Nat
    OBVIOUS
  <2> HIDE DEF S
  <2> QED BY <1>1, LeastIsLeast
<1>3. P(0)
  <2>1. [k \in 0 .. 0 |-> 0] \in [0 .. 0 -> Nat] /\ [k \in 0 .. 0 |-> 0][0] = 0
    OBVIOUS
  <2>2. 1 .. 0 = {}
    OBVIOUS
  <2> QED BY <2>1, <2>2
<1>4. m # 0 /\ m - 1 \in Nat /\ m - 1 \notin S
  <2>1. m # 0
    BY <1>2, <1>3
  <2>2. m - 1 \in Nat /\ ~(m <= m - 1)
    BY <1>2, <2>1
  <2> HIDE DEF S
  <2> QED BY <1>2, <2>1, <2>2
<1>5. PICK a \in [0 .. m - 1 -> Nat] : a[0] = 0 /\ \A k \in 1 .. m - 1 : a[k] = g[a[k - 1]]
  BY <1>4
<1> DEFINE b == [k \in 0 .. m |-> IF k = m THEN g[a[m - 1]] ELSE a[k]]
<1>6. b \in [0 .. m -> Nat]
  <2>1. m - 1 \in 0 .. m - 1 /\ a[m - 1] \in Nat
    <3>1. m - 1 \in 0 .. m - 1
      BY <1>4
    <3> QED BY <1>5, <3>1
  <2>2. \A k \in 0 .. m : k # m => k \in 0 .. m - 1 /\ a[k] \in Nat
    <3>1. \A k \in 0 .. m : k # m => k \in 0 .. m - 1
      BY <1>2
    <3> QED BY <1>5, <3>1
  <2> QED BY <2>1, <2>2
<1>7. b[0] = 0
  BY <1>2, <1>4, <1>5
<1>8. ASSUME NEW k \in 1 .. m PROVE b[k] = g[b[k - 1]]
  <2>1. k \in 0 .. m /\ k - 1 \in 0 .. m /\ k - 1 # m /\ b[k - 1] = a[k - 1]
    BY <1>2
  <2>2. k # m => k \in 1 .. m - 1
    BY <1>2
  <2> QED BY <1>5, <2>1, <2>2
<1>9. P(m)
  <2> HIDE DEF b
  <2> QED BY <1>6, <1>7, <1>8
<1> QED BY <1>2, <1>9

(* Where the first k appends end.                                          *)
PlaceAfter(e, k) == IF k = 0 THEN 0 ELSE End(e[k])

(* An append begins where the one before it ends.                          *)
LEMMA PlacesFollow ==
  ASSUME NEW e, IsLog(e), NEW k \in 1 .. Len(e)
  PROVE  PlaceAfter(e, k - 1) = e[k].start /\ PlaceAfter(e, k) = End(e[k]) /\ k - 1 \in 0 .. Len(e)
<1>1. Len(e) \in Nat
  BY AppendFields
<1> QED BY <1>1 DEF PlaceAfter, IsLog

(* A header in the file belongs to an append; what its record takes is a number. *)
LEMMA HeadersAreAppends ==
  ASSUME NEW e, IsLog(e), NEW p, IsHeader(e, p)
  PROVE  /\ HeaderOf(e, p) \in 1 .. Len(e) /\ e[HeaderOf(e, p)].start = p
         /\ p \in Nat /\ RecordEnd(e, p) \in Nat
<1>1. DOMAIN e = 1 .. Len(e)
  BY DEF IsLog
<1>2. HeaderOf(e, p) \in 1 .. Len(e) /\ HasHeader(e[HeaderOf(e, p)], p)
  BY <1>1 DEF IsHeader, HeaderOf
<1>3. e[HeaderOf(e, p)].start = p
  BY <1>2 DEF HasHeader
<1>4. p \in Nat /\ CellsOf(e[HeaderOf(e, p)].data_size) \in Nat
  BY <1>2, <1>3, AppendFields
<1> QED BY <1>2, <1>3, <1>4 DEF RecordEnd

(* The turns of wal_open's scan.                                           *)
LEMMA ScanTurns ==
  ASSUME NEW e, IsLog(e)
  PROVE  /\ ScanAt(e)[0] = 0
         /\ \A k \in 1 .. Len(e) :
              ScanAt(e)[k] = IF IsHeader(e, ScanAt(e)[k - 1]) THEN RecordEnd(e, ScanAt(e)[k - 1])
                             ELSE ScanAt(e)[k - 1]
<1>0. Len(e) \in Nat
  BY DEF IsLog
<1> DEFINE g == [p \in Nat |-> IF IsHeader(e, p) THEN RecordEnd(e, p) ELSE p]
<1>1. g \in [Nat -> Nat]
  BY HeadersAreAppends
<1>2. PICK a \in [0 .. Len(e) -> Nat] : a[0] = 0 /\ \A k \in 1 .. Len(e) : a[k] = g[a[k - 1]]
  <2> HIDE DEF g
  <2> QED BY <1>0, <1>1, TurnsExist
<1>3. \A k \in 0 .. Len(e) : k # 0 => k \in 1 .. Len(e) /\ k - 1 \in 0 .. Len(e)
  BY <1>0
<1>4. a = [k \in 0 .. Len(e) |->
            IF k = 0 THEN 0
            ELSE IF IsHeader(e, a[k - 1]) THEN RecordEnd(e, a[k - 1]) ELSE a[k - 1]]
  BY <1>2, <1>3
<1>5. \E at : at = [k \in 0 .. Len(e) |->
                     IF k = 0 THEN 0
                     ELSE IF IsHeader(e, at[k - 1]) THEN RecordEnd(e, at[k - 1]) ELSE at[k - 1]]
  BY <1>4
<1>6. ScanAt(e) = [k \in 0 .. Len(e) |->
                    IF k = 0 THEN 0
                    ELSE IF IsHeader(e, ScanAt(e)[k - 1]) THEN RecordEnd(e, ScanAt(e)[k - 1])
                         ELSE ScanAt(e)[k - 1]]
  BY <1>5 DEF ScanAt
<1>7. PICK q : q = ScanAt(e)
  OBVIOUS
<1>8. q = [k \in 0 .. Len(e) |->
            IF k = 0 THEN 0 ELSE IF IsHeader(e, q[k - 1]) THEN RecordEnd(e, q[k - 1]) ELSE q[k - 1]]
  BY <1>6, <1>7
<1>9. q[0] = 0 /\ \A k \in 1 .. Len(e) : q[k] = IF IsHeader(e, q[k - 1]) THEN RecordEnd(e, q[k - 1]) ELSE q[k - 1]
  <2>1. 0 \in 0 .. Len(e) /\ \A k \in 1 .. Len(e) : k \in 0 .. Len(e) /\ k # 0
    BY <1>0
  <2> QED BY <1>8, <2>1
<1> QED BY <1>7, <1>9

(* The turns of wal_recover's replay.                                      *)
LEMMA ReplayTurns ==
  ASSUME NEW e, IsLog(e)
  PROVE  /\ ReplayAt(e)[0] = 0
         /\ \A k \in 1 .. Len(e) :
              ReplayAt(e)[k] = IF IsRecord(e, ReplayAt(e)[k - 1]) THEN RecordEnd(e, ReplayAt(e)[k - 1])
                               ELSE ReplayAt(e)[k - 1]
<1>0. Len(e) \in Nat
  BY DEF IsLog
<1> DEFINE g == [p \in Nat |-> IF IsRecord(e, p) THEN RecordEnd(e, p) ELSE p]
<1>1. g \in [Nat -> Nat]
  BY HeadersAreAppends DEF IsRecord
<1>2. PICK a \in [0 .. Len(e) -> Nat] : a[0] = 0 /\ \A k \in 1 .. Len(e) : a[k] = g[a[k - 1]]
  <2> HIDE DEF g
  <2> QED BY <1>0, <1>1, TurnsExist
<1>3. \A k \in 0 .. Len(e) : k # 0 => k \in 1 .. Len(e) /\ k - 1 \in 0 .. Len(e)
  BY <1>0
<1>4. a = [k \in 0 .. Len(e) |->
            IF k = 0 THEN 0
            ELSE IF IsRecord(e, a[k - 1]) THEN RecordEnd(e, a[k - 1]) ELSE a[k - 1]]
  BY <1>2, <1>3
<1>5. \E at : at = [k \in 0 .. Len(e) |->
                     IF k = 0 THEN 0
                     ELSE IF IsRecord(e, at[k - 1]) THEN RecordEnd(e, at[k - 1]) ELSE at[k - 1]]
  BY <1>4
<1>6. ReplayAt(e) = [k \in 0 .. Len(e) |->
                      IF k = 0 THEN 0
                      ELSE IF IsRecord(e, ReplayAt(e)[k - 1]) THEN RecordEnd(e, ReplayAt(e)[k - 1])
                           ELSE ReplayAt(e)[k - 1]]
  BY <1>5 DEF ReplayAt
<1>7. PICK q : q = ReplayAt(e)
  OBVIOUS
<1>8. q = [k \in 0 .. Len(e) |->
            IF k = 0 THEN 0 ELSE IF IsRecord(e, q[k - 1]) THEN RecordEnd(e, q[k - 1]) ELSE q[k - 1]]
  BY <1>6, <1>7
<1>9. q[0] = 0 /\ \A k \in 1 .. Len(e) : q[k] = IF IsRecord(e, q[k - 1]) THEN RecordEnd(e, q[k - 1]) ELSE q[k - 1]
  <2>1. 0 \in 0 .. Len(e) /\ \A k \in 1 .. Len(e) : k \in 0 .. Len(e) /\ k # 0
    BY <1>0
  <2> QED BY <1>8, <2>1
<1> QED BY <1>7, <1>9

(* A complete append is a record to both readers.                          *)
LEMMA WholeIsARecord ==
  ASSUME NEW e, IsLog(e), NEW i \in 1 .. Len(e), Complete(e[i])
  PROVE  /\ IsHeader(e, e[i].start) /\ HeaderOf(e, e[i].start) = i
         /\ IsRecord(e, e[i].start) /\ RecordEnd(e, e[i].start) = End(e[i])
<1>1. HEADER <= e[i].written /\ e[i].written = CellsOf(e[i].data_size)
  BY AppendFields DEF Complete, HEADER
<1>2. /\ IsHeader(e, e[i].start) /\ HeaderOf(e, e[i].start) = i
      /\ RecordEnd(e, e[i].start) = End(e[i])
  BY <1>1, HeaderAt DEF End
<1>3. End(e[i]) <= FileSize(e) /\ e[i].lsn # INVALID_LSN
  BY FileEnds, AppendFields DEF INVALID_LSN
<1> QED BY <1>2, <1>3 DEF IsRecord

(* Up to the first append cut short, each turn of the scan is at the next append. *)
LEMMA ScanMeets ==
  ASSUME NEW e, IsLog(e), NEW m \in 0 .. Len(e), AllWhole(e, m), NEW k \in 0 .. m
  PROVE  ScanAt(e)[k] = PlaceAfter(e, k)
<1>0. Len(e) \in Nat /\ m \in Nat
  BY DEF IsLog
<1> DEFINE S == {n \in Nat : n <= m /\ ScanAt(e)[n] # PlaceAfter(e, n)}
<1>1. SUFFICES ASSUME S # {} PROVE FALSE
  <2>1. k \in Nat /\ k <= m /\ k \notin S
    BY <1>0, <1>1
  <2> QED BY <2>1
<1>2. PICK n \in S : n \in Nat /\ n <= m /\ \A l \in S : n <= l
  <2> S \subseteq Nat /\ \A n \in S : n <= m
    OBVIOUS
  <2> HIDE DEF S
  <2> QED BY <1>1, LeastIsLeast
<1>3. n # 0
  BY <1>2, ScanTurns DEF PlaceAfter
<1>4. n \in 1 .. Len(e) /\ n \in 1 .. m /\ n - 1 \in Nat /\ n - 1 <= m /\ ~(n <= n - 1)
  BY <1>0, <1>2, <1>3
<1>5. ScanAt(e)[n - 1] = PlaceAfter(e, n - 1)
  BY <1>2, <1>4
<1>6. ScanAt(e)[n - 1] = e[n].start /\ PlaceAfter(e, n) = End(e[n])
  BY <1>4, <1>5, PlacesFollow
<1>7. IsHeader(e, e[n].start) /\ RecordEnd(e, e[n].start) = End(e[n])
  BY <1>4, WholeIsARecord DEF AllWhole
<1>8. ScanAt(e)[n] = PlaceAfter(e, n)
  BY <1>4, <1>6, <1>7, ScanTurns
<1> QED BY <1>2, <1>8

(* And so is each turn of the replay.                                      *)
LEMMA ReplayMeets ==
  ASSUME NEW e, IsLog(e), NEW m \in 0 .. Len(e), AllWhole(e, m), NEW k \in 0 .. m
  PROVE  ReplayAt(e)[k] = PlaceAfter(e, k)
<1>0. Len(e) \in Nat /\ m \in Nat
  BY DEF IsLog
<1> DEFINE S == {n \in Nat : n <= m /\ ReplayAt(e)[n] # PlaceAfter(e, n)}
<1>1. SUFFICES ASSUME S # {} PROVE FALSE
  <2>1. k \in Nat /\ k <= m /\ k \notin S
    BY <1>0, <1>1
  <2> QED BY <2>1
<1>2. PICK n \in S : n \in Nat /\ n <= m /\ \A l \in S : n <= l
  <2> S \subseteq Nat /\ \A n \in S : n <= m
    OBVIOUS
  <2> HIDE DEF S
  <2> QED BY <1>1, LeastIsLeast
<1>3. n # 0
  BY <1>2, ReplayTurns DEF PlaceAfter
<1>4. n \in 1 .. Len(e) /\ n \in 1 .. m /\ n - 1 \in Nat /\ n - 1 <= m /\ ~(n <= n - 1)
  BY <1>0, <1>2, <1>3
<1>5. ReplayAt(e)[n - 1] = PlaceAfter(e, n - 1)
  BY <1>2, <1>4
<1>6. ReplayAt(e)[n - 1] = e[n].start /\ PlaceAfter(e, n) = End(e[n])
  BY <1>4, <1>5, PlacesFollow
<1>7. IsRecord(e, e[n].start) /\ RecordEnd(e, e[n].start) = End(e[n])
  BY <1>4, WholeIsARecord DEF AllWhole
<1>8. ReplayAt(e)[n] = PlaceAfter(e, n)
  BY <1>4, <1>6, <1>7, ReplayTurns
<1> QED BY <1>2, <1>8

(* The highest LSN of the scan is at least that of every complete append it *)
(* meets.                                                                  *)
LEMMA HighestLsn ==
  ASSUME NEW e, IsLog(e)
  PROVE  max_lsn(e) \in Nat /\ \A i \in 1 .. Len(e) : AllWhole(e, i) => e[i].lsn <= max_lsn(e)
<1>0. Len(e) \in Nat
  BY DEF IsLog
<1> DEFINE places == {ScanAt(e)[k] : k \in 0 .. Len(e)}
           lsns == {e[HeaderOf(e, p)].lsn : p \in {q \in places : IsHeader(e, q)}}
           all == {e[i].lsn : i \in 1 .. Len(e)}
           f == [i \in 1 .. Len(e) |-> e[i].lsn]
<1>1. lsns \subseteq all
  BY HeadersAreAppends
<1>2. all \subseteq Nat
  BY AppendFields
<1>3. IsFiniteSet(all)
  <2>1. f \in Surjection(1 .. Len(e), all)
    BY DEF Surjection
  <2>2. IsFiniteSet(1 .. Len(e))
    BY <1>0, FS_Interval
  <2> HIDE DEF f, all
  <2> QED BY <2>1, <2>2, FS_Surjection
<1>4. max_lsn(e) = CHOOSE m \in lsns \cup {0} : \A l \in lsns : l <= m
  BY DEF max_lsn
<1>5. ASSUME NEW i \in 1 .. Len(e), AllWhole(e, i) PROVE e[i].lsn \in lsns
  <2>1. i - 1 \in 0 .. Len(e) /\ i \in 0 .. Len(e) /\ i - 1 \in 0 .. i /\ PlaceAfter(e, i - 1) = e[i].start
    BY <1>0, PlacesFollow
  <2>2. ScanAt(e)[i - 1] = e[i].start
    BY <1>5, <2>1, ScanMeets
  <2>3. IsHeader(e, e[i].start) /\ HeaderOf(e, e[i].start) = i
    BY <1>5, WholeIsARecord DEF AllWhole
  <2>4. e[i].start \in places
    BY <2>1, <2>2
  <2> QED BY <2>3, <2>4
<1> HIDE DEF lsns, all, f, places
<1>6. \E m \in lsns \cup {0} : \A l \in lsns : l <= m
  <2>1. CASE lsns = {}
    BY <2>1
  <2>2. CASE lsns # {}
    <3>1. IsFiniteSet(lsns) /\ lsns \subseteq Int
      <4>1. lsns \in SUBSET all
        BY <1>1
      <4>2. IsFiniteSet(lsns)
        BY <1>3, <4>1, FS_Subset
      <4> QED BY <1>1, <1>2, <4>2
    <3> QED BY <2>2, <3>1, FiniteHasGreatest
  <2> QED BY <2>1, <2>2
<1>7. max_lsn(e) \in lsns \cup {0} /\ \A l \in lsns : l <= max_lsn(e)
  BY <1>4, <1>6
<1>8. max_lsn(e) \in Nat
  <2>1. lsns \cup {0} \subseteq Nat
    BY <1>1, <1>2
  <2>2. max_lsn(e) \in lsns \cup {0}
    BY <1>7, Zenon
  <2> HIDE DEF max_lsn
  <2> QED BY <2>1, <2>2
<1> QED BY <1>5, <1>7, <1>8

(* How many appends are complete when only the last can be cut short.      *)
LEMMA HowManyWhole ==
  ASSUME NEW e, IsLog(e), \A i \in 1 .. Len(e) : i < Len(e) => Complete(e[i])
  PROVE  \E m \in 0 .. Len(e) :
           /\ AllWhole(e, m) /\ Len(e) <= m + 1
           /\ m # Len(e) => ~Complete(e[m + 1])
           /\ {j \in 1 .. Len(e) : Complete(e[j])} = 1 .. m
<1>0. Len(e) \in Nat
  BY DEF IsLog
<1>1. CASE Len(e) = 0 \/ Complete(e[Len(e)])
  <2>1. AllWhole(e, Len(e))
    BY <1>0, <1>1 DEF AllWhole
  <2>2. {j \in 1 .. Len(e) : Complete(e[j])} = 1 .. Len(e)
    BY <2>1 DEF AllWhole
  <2> QED BY <1>0, <2>1, <2>2
<1>2. CASE Len(e) # 0 /\ ~Complete(e[Len(e)])
  <2>1. PICK m \in 0 .. Len(e) : m + 1 = Len(e) /\ m \in Nat
    <3>1. Len(e) - 1 \in 0 .. Len(e) /\ Len(e) - 1 \in Nat /\ Len(e) - 1 + 1 = Len(e)
      BY <1>0, <1>2
    <3> QED BY <3>1
  <2>2. \A j \in 1 .. Len(e) : j \in 1 .. m <=> j < Len(e)
    BY <1>0, <2>1
  <2>3. \A j \in 1 .. m : j \in 1 .. Len(e) /\ j < Len(e)
    BY <1>0, <2>1
  <2>4. \A j \in 1 .. Len(e) : j < Len(e) \/ j = Len(e)
    BY <1>0
  <2>5. AllWhole(e, m)
    BY <2>3 DEF AllWhole
  <2>6. {j \in 1 .. Len(e) : Complete(e[j])} = 1 .. m
    BY <1>2, <2>2, <2>3, <2>4
  <2> QED BY <1>0, <1>2, <2>1, <2>5, <2>6
<1> QED BY <1>1, <1>2

(* There is no record where the appends end, nor where one is cut short.   *)
LEMMA NoRecordThere ==
  ASSUME NEW e, IsLog(e), NEW m \in 0 .. Len(e), Len(e) <= m + 1, m # Len(e) => ~Complete(e[m + 1])
  PROVE  ~IsRecord(e, PlaceAfter(e, m))
<1>0. Len(e) \in Nat /\ m \in Nat
  BY DEF IsLog
<1>1. CASE m = Len(e)
  <2>1. PlaceAfter(e, m) = FileSize(e)
    BY <1>1, FileEnds DEF PlaceAfter
  <2>2. SUFFICES ASSUME IsHeader(e, FileSize(e)) PROVE FALSE
    BY <2>1, <2>2 DEF IsRecord
  <2>3. PICK i \in 1 .. Len(e) : e[i].start = FileSize(e)
    BY <2>2, HeadersAreAppends
  <2>4. e[i].start \in Nat /\ End(e[i]) \in Nat /\ e[i].start < End(e[i])
    BY AppendFields
  <2>5. End(e[i]) <= FileSize(e) /\ FileSize(e) \in Nat
    BY FileEnds
  <2> QED BY <2>3, <2>4, <2>5
<1>2. CASE m # Len(e)
  <2>1. m + 1 \in 1 .. Len(e) /\ m + 1 = Len(e) /\ m + 1 - 1 = m
    BY <1>0, <1>2
  <2>2. PICK j \in 1 .. Len(e) : j = m + 1 /\ j = Len(e) /\ j - 1 = m
    BY <2>1
  <2>3. PlaceAfter(e, m) = e[j].start /\ FileSize(e) = End(e[j])
    <3>1. PlaceAfter(e, j - 1) = e[j].start
      BY PlacesFollow
    <3>2. Len(e) # 0
      BY <1>0, <2>1
    <3> QED BY <2>2, <3>1, <3>2, FileEnds
  <2>4. SUFFICES ASSUME IsRecord(e, e[j].start) PROVE FALSE
    BY <2>3
  <2>5. IsHeader(e, e[j].start) /\ RecordEnd(e, e[j].start) <= End(e[j])
    BY <2>3, <2>4 DEF IsRecord
  <2>6. PICK i \in 1 .. Len(e) : e[i].start = e[j].start /\ HeaderOf(e, e[j].start) = i /\ HEADER <= e[i].written
    BY <2>5 DEF IsHeader, HeaderOf, HasHeader, IsLog
  <2>7. i = j
    <3>1. i <= j
      BY <1>0, <2>2
    <3>2. ~(i < j)
      <4>1. e[i].start < End(e[i]) /\ e[i].start \in Nat /\ End(e[i]) \in Nat
        BY AppendFields
      <4>2. i < j => End(e[i]) <= e[j].start
        BY EndsInOrder
      <4> QED BY <2>6, <4>1, <4>2
    <3> QED BY <3>1, <3>2
  <2>8. RecordEnd(e, e[j].start) = e[j].start + CellsOf(e[j].data_size)
    BY <2>6, <2>7 DEF RecordEnd
  <2>9. CellsOf(e[j].data_size) <= e[j].written
    <3>1. /\ End(e[j]) = e[j].start + e[j].written /\ e[j].start \in Nat /\ e[j].written \in Nat
          /\ CellsOf(e[j].data_size) \in Nat
      BY AppendFields
    <3> QED BY <2>5, <2>8, <3>1
  <2>10. e[j].written <= CellsOf(e[j].data_size) /\ e[j].written \in Nat /\ CellsOf(e[j].data_size) \in Nat
    BY AppendFields
  <2>11. Complete(e[j])
    BY <2>9, <2>10 DEF Complete
  <2> QED BY <1>2, <2>2, <2>11
<1> QED BY <1>1, <1>2

(* A complete append is replayed with its own images.                      *)
LEMMA ReplayedIntact ==
  ASSUME IsLog(records), NEW i \in 1 .. Len(records), Complete(records[i])
  PROVE  Replayed(records, records[i].start) = Intact(i)
<1>1. HeaderOf(records, records[i].start) = i
  BY WholeIsARecord
<1>2. /\ records[i].data_size \in Nat /\ records[i].start \in Nat
      /\ End(records[i]) = records[i].start + 2 + 2 * records[i].data_size
  <2>1. /\ records[i].data_size \in Nat /\ records[i].start \in Nat /\ records[i].written \in Nat
        /\ End(records[i]) = records[i].start + records[i].written
        /\ CellsOf(records[i].data_size) = 2 + 2 * records[i].data_size
    BY AppendFields
  <2>2. records[i].written = CellsOf(records[i].data_size)
    BY DEF Complete
  <2> QED BY <2>1, <2>2
<1>3. ASSUME NEW j \in 1 .. 2 * records[i].data_size
      PROVE  Cell(records, records[i].start + HEADER + j - 1) = [of |-> i, at |-> HEADER + j - 1]
  <2>1. PICK c \in Nat : c = records[i].start + HEADER + j - 1
    <3>1. records[i].start + 2 + j - 1 \in Nat
      BY <1>2
    <3> QED BY <3>1 DEF HEADER
  <2>2. records[i].start <= c /\ c < End(records[i]) /\ c - records[i].start = HEADER + j - 1
    BY <1>2, <2>1 DEF HEADER
  <2>3. Cell(records, c) = [of |-> i, at |-> c - records[i].start]
    BY <2>2, CellAt
  <2> QED BY <2>1, <2>2, <2>3
<1>4. [j \in 1 .. 2 * records[i].data_size |-> Cell(records, records[i].start + HEADER + j - 1)]
        = [j \in 1 .. 2 * records[i].data_size |-> [of |-> i, at |-> HEADER + j - 1]]
  BY <1>3
<1> QED BY <1>1, <1>4 DEF Replayed, Intact

(* The replay is the complete appends, in order.                           *)
LEMMA ReplayIsWhole ==
  ASSUME IsLog(records), NothingBehindATear
  PROVE  wal_recover = [i \in 1 .. Cardinality({j \in DOMAIN records : Complete(records[j])}) |-> Intact(i)]
<1>0. Len(records) \in Nat /\ DOMAIN records = 1 .. Len(records)
  BY DEF IsLog
<1>1. PICK m \in 0 .. Len(records) :
        /\ AllWhole(records, m) /\ Len(records) <= m + 1
        /\ m # Len(records) => ~Complete(records[m + 1])
        /\ {j \in 1 .. Len(records) : Complete(records[j])} = 1 .. m
  BY <1>0, HowManyWhole DEF NothingBehindATear
<1>2. m \in Nat /\ m <= Len(records)
  BY <1>0
<1>a. Len(records) <= m + 1
  BY <1>1, Zenon
<1>3. ASSUME NEW k \in 1 .. m
      PROVE  ReplayAt(records)[k - 1] = records[k].start /\ IsRecord(records, records[k].start)
             /\ Replayed(records, ReplayAt(records)[k - 1]) = Intact(k)
  <2>1. k \in 1 .. Len(records) /\ k - 1 \in 0 .. m
    BY <1>0, <1>2
  <2>2. Complete(records[k])
    BY <1>1 DEF AllWhole
  <2>3. ReplayAt(records)[k - 1] = PlaceAfter(records, k - 1)
    BY <1>1, <2>1, ReplayMeets
  <2>4. ReplayAt(records)[k - 1] = records[k].start
    BY <2>1, <2>3, PlacesFollow
  <2> QED BY <2>1, <2>2, <2>4, WholeIsARecord, ReplayedIntact
<1>4. ~IsRecord(records, ReplayAt(records)[m]) /\ ReplayAt(records)[m] = PlaceAfter(records, m)
  <2>1. m \in 0 .. m
    BY <1>2
  <2>2. ReplayAt(records)[m] = PlaceAfter(records, m)
    BY <1>1, <2>1, ReplayMeets
  <2> QED BY <1>1, <2>2, NoRecordThere
<1>5. m # Len(records) => ~IsRecord(records, ReplayAt(records)[m + 1]) /\ m + 1 = Len(records)
  <2>1. ASSUME m # Len(records)
        PROVE  m + 1 \in 1 .. Len(records) /\ m + 1 = Len(records) /\ m + 1 - 1 = m
    <3>1. \A l, n \in Nat : n <= l /\ l <= n + 1 /\ n # l => n + 1 \in 1 .. l /\ n + 1 = l /\ n + 1 - 1 = n
      OBVIOUS
    <3> QED BY <1>0, <1>2, <1>a, <2>1, <3>1, Zenon
  <2>2. m # Len(records) => ReplayAt(records)[m + 1] = ReplayAt(records)[m]
    BY <1>4, <2>1, ReplayTurns
  <2> QED BY <1>4, <2>1, <2>2
<1> DEFINE turns == {k \in 0 .. Len(records) : IsRecord(records, ReplayAt(records)[k])}
<1>6. turns = 0 .. m - 1
  <2>1. ASSUME NEW k \in 0 .. m - 1 PROVE k \in turns
    <3>1. PICK l \in 1 .. m : l = k + 1 /\ l - 1 = k
      BY <1>2
    <3>2. IsRecord(records, ReplayAt(records)[k])
      BY <1>3, <3>1
    <3>3. k \in 0 .. Len(records)
      BY <1>0, <1>2
    <3> QED BY <3>2, <3>3
  <2>2. ASSUME NEW k \in turns PROVE k \in 0 .. m - 1
    <3>1. k \in 0 .. Len(records) /\ IsRecord(records, ReplayAt(records)[k])
      OBVIOUS
    <3>2. k # m /\ ~(m # Len(records) /\ k = m + 1)
      BY <1>4, <1>5, <3>1
    <3> HIDE DEF turns
    <3>4. k \in Nat /\ k <= Len(records)
      BY <1>0, <3>1
    <3>5. \A l, n, j \in Nat : n <= l /\ l <= n + 1 /\ j <= l /\ j # n /\ ~(n # l /\ j = n + 1)
                               => j \in 0 .. n - 1
      OBVIOUS
    <3> QED BY <1>0, <1>2, <1>a, <3>2, <3>4, <3>5, Zenon
  <2> HIDE DEF turns
  <2> QED BY <2>1, <2>2
<1>7. Cardinality(turns) = m /\ Cardinality(1 .. m) = m
  <2>1. Cardinality(0 .. m - 1) = m
    BY <1>2, FS_Interval
  <2>2. Cardinality(1 .. m) = m
    BY <1>2, FS_Interval
  <2> QED BY <1>6, <2>1, <2>2
<1>8. wal_recover = [k \in 1 .. Cardinality(turns) |-> Replayed(records, ReplayAt(records)[k - 1])]
  BY DEF wal_recover
<1> HIDE DEF turns
<1>9. wal_recover = [k \in 1 .. m |-> Intact(k)]
  BY <1>3, <1>7, <1>8
<1> QED BY <1>0, <1>1, <1>7, <1>9

(* One more append at the end of the file, with an LSN above those of the  *)
(* complete ones.                                                          *)
LEMMA LogGrows ==
  ASSUME NEW e, IsLog(e), LsnsGrow(e), NEW x \in LogEntry, x.start = FileSize(e),
         x.written <= CellsOf(x.data_size),
         \A i \in 1 .. Len(e) : AllWhole(e, i) => e[i].lsn < x.lsn
  PROVE  /\ IsLog(Append(e, x)) /\ LsnsGrow(Append(e, x))
         /\ Len(Append(e, x)) = Len(e) + 1 /\ Append(e, x)[Len(e) + 1] = x
         /\ \A i \in 1 .. Len(e) : Append(e, x)[i] = e[i]
         /\ \A i \in 0 .. Len(e) : AllWhole(Append(e, x), i) <=> AllWhole(e, i)
         /\ FileSize(Append(e, x)) = End(x) /\ End(x) \in Nat /\ FileSize(e) \in Nat /\ FileSize(e) < End(x)
<1>0. e \in Seq(LogEntry) /\ Len(e) \in Nat
  BY DEF IsLog
<1>1. PICK f : f = Append(e, x)
  OBVIOUS
<1>2. /\ f \in Seq(LogEntry) /\ Len(f) = Len(e) + 1 /\ f[Len(e) + 1] = x
      /\ \A i \in 1 .. Len(e) : f[i] = e[i]
  BY <1>0, <1>1
<1>3. \A i \in 1 .. Len(f) : i \in 1 .. Len(e) \/ i = Len(e) + 1
  BY <1>0, <1>2
<1>4. ASSUME NEW i \in 1 .. Len(f) PROVE f[i].written <= CellsOf(f[i].data_size)
  BY <1>2, <1>3 DEF IsLog
<1>5. ASSUME NEW i \in 1 .. Len(f) PROVE f[i].start = IF i = 1 THEN 0 ELSE End(f[i - 1])
  <2>1. CASE i \in 1 .. Len(e)
    <3>1. i # 1 => i - 1 \in 1 .. Len(e)
      BY <1>0, <2>1
    <3> QED BY <1>2, <2>1, <3>1 DEF IsLog
  <2>2. CASE i = Len(e) + 1
    <3>1. i - 1 = Len(e) /\ (i # 1 => Len(e) # 0 /\ Len(e) \in 1 .. Len(e)) /\ (i = 1 => Len(e) = 0)
      BY <1>0, <2>2
    <3>2. f[i].start = FileSize(e)
      BY <1>2, <2>2
    <3> QED BY <1>2, <3>1, <3>2, FileEnds
  <2> QED BY <1>3, <2>1, <2>2
<1>6. IsLog(f)
  BY <1>2, <1>4, <1>5 DEF IsLog
<1>7. ASSUME NEW i \in 0 .. Len(e) PROVE AllWhole(f, i) <=> AllWhole(e, i)
  <2>1. \A k \in 1 .. i : k \in 1 .. Len(e)
    BY <1>0
  <2> QED BY <1>2, <2>1 DEF AllWhole
<1>8. ASSUME NEW i \in 1 .. Len(f), NEW j \in 1 .. Len(f), i < j, AllWhole(f, j - 1) PROVE f[i].lsn < f[j].lsn
  <2>1. i \in 1 .. Len(e) /\ j - 1 \in 0 .. Len(e) /\ i \in 1 .. j - 1
    BY <1>0, <1>2, <1>8
  <2>2. AllWhole(e, j - 1) /\ f[i] = e[i]
    BY <1>2, <1>7, <1>8, <2>1
  <2>3. CASE j \in 1 .. Len(e)
    BY <1>2, <1>8, <2>1, <2>2, <2>3 DEF LsnsGrow
  <2>4. CASE j = Len(e) + 1
    <3>1. \A k \in 1 .. i : k \in 1 .. j - 1
      BY <1>0, <2>1
    <3>2. AllWhole(e, i)
      BY <2>2, <3>1 DEF AllWhole
    <3> QED BY <1>2, <2>1, <2>2, <2>4, <3>2
  <2> QED BY <1>3, <2>3, <2>4
<1>9. LsnsGrow(f)
  BY <1>8 DEF LsnsGrow
<1>10. FileSize(f) = End(x) /\ End(x) \in Nat /\ FileSize(e) \in Nat /\ FileSize(e) < End(x)
  <2>1. Len(f) # 0 /\ Len(f) \in 1 .. Len(f)
    BY <1>0, <1>2
  <2>2. FileSize(f) = End(x)
    BY <1>2, <1>6, <2>1, FileEnds
  <2>3. x.start < End(x) /\ End(x) \in Nat
    <3>1. x.start \in Nat /\ x.written \in Nat /\ x.written # 0
      BY DEF LogEntry
    <3> QED BY <3>1 DEF End
  <2>4. FileSize(e) \in Nat
    BY FileEnds
  <2> QED BY <2>2, <2>3, <2>4
<1> QED BY <1>1, <1>2, <1>6, <1>7, <1>9, <1>10

(* What a cut at n keeps is the first appends.                             *)
LEMMA CutTakesTheFirst ==
  ASSUME NEW e, IsLog(e), NEW n \in Nat, n <= FileSize(e)
  PROVE  \E m \in 0 .. Len(e) :
           /\ {j \in 1 .. Len(e) : e[j].start < n} = 1 .. m
           /\ m = 0 => n = 0
           /\ m # 0 => n <= End(e[m])
<1>0. Len(e) \in Nat
  BY DEF IsLog
<1> DEFINE S == {j \in Nat : j \in 1 .. Len(e) /\ n <= e[j].start}
<1>1. \A j \in 1 .. Len(e) : e[j].start \in Nat /\ (e[j].start < n <=> j \notin S)
  <2>1. ASSUME NEW j \in 1 .. Len(e) PROVE e[j].start \in Nat /\ j \in Nat
    BY <1>0, AppendFields
  <2> QED BY <2>1
<1>2. CASE S = {}
  <2>1. {j \in 1 .. Len(e) : e[j].start < n} = 1 .. Len(e)
    BY <1>1, <1>2
  <2>2. Len(e) = 0 => n = 0
    BY FileEnds
  <2>3. Len(e) # 0 => n <= End(e[Len(e)])
    BY FileEnds
  <2>4. Len(e) \in 0 .. Len(e)
    BY <1>0
  <2> HIDE DEF S
  <2> QED BY <2>1, <2>2, <2>3, <2>4
<1>3. CASE S # {}
  <2>1. PICK l \in S : l \in Nat /\ \A j \in S : l <= j
    <3> S \subseteq Nat
      OBVIOUS
    <3> HIDE DEF S
    <3> QED BY <1>3, LeastIsLeast
  <2>2. l \in 1 .. Len(e) /\ n <= e[l].start
    BY <2>1
  <2>3. PICK m \in 0 .. Len(e) : m \in Nat /\ m = l - 1
    <3>1. l - 1 \in 0 .. Len(e) /\ l - 1 \in Nat
      BY <1>0, <2>2
    <3> QED BY <3>1
  <2>4. ASSUME NEW j \in 1 .. Len(e) PROVE j \in S <=> l <= j
    <3>1. j \in S => l <= j
      BY <2>1
    <3>2. ASSUME l < j PROVE j \in S
      <4>1. End(e[l]) <= e[j].start
        BY <2>2, <3>2, EndsInOrder
      <4>2. /\ e[l].start \in Nat /\ End(e[l]) \in Nat /\ e[l].start < End(e[l])
            /\ e[j].start \in Nat /\ j \in Nat
        BY <1>0, <2>2, AppendFields
      <4> QED BY <2>2, <4>1, <4>2
    <3> HIDE DEF S
    <3> QED BY <1>0, <2>1, <2>2, <3>1, <3>2
  <2> HIDE DEF S
  <2>5. {j \in 1 .. Len(e) : e[j].start < n} = 1 .. m
    <3>1. \A j \in 1 .. Len(e) : e[j].start < n <=> ~(l <= j)
      BY <1>1, <2>4
    <3>2. \A j \in 1 .. Len(e) : ~(l <= j) <=> j \in 1 .. m
      BY <1>0, <2>1, <2>3
    <3>3. \A j \in 1 .. m : j \in 1 .. Len(e)
      BY <1>0, <2>3
    <3> QED BY <3>1, <3>2, <3>3
  <2>6. e[l].start = IF l = 1 THEN 0 ELSE End(e[l - 1])
    BY <2>2 DEF IsLog
  <2>7. m = 0 => n = 0
    BY <2>1, <2>2, <2>3, <2>6
  <2>8. m # 0 => n <= End(e[m])
    BY <2>1, <2>2, <2>3, <2>6
  <2> QED BY <2>5, <2>7, <2>8
<1> QED BY <1>2, <1>3

\* An append of which the file keeps what lies before n.
Shortened(r, n) == [r EXCEPT !.written = IF End(r) <= n THEN @ ELSE n - r.start]

(* What is left of an append that begins before the cut.                   *)
LEMMA ShortenedFields ==
  ASSUME NEW e, IsLog(e), NEW i \in 1 .. Len(e), NEW n \in Nat, e[i].start < n
  PROVE  /\ Shortened(e[i], n) \in LogEntry
         /\ Shortened(e[i], n).start = e[i].start /\ Shortened(e[i], n).lsn = e[i].lsn
         /\ Shortened(e[i], n).data_size = e[i].data_size
         /\ Shortened(e[i], n).written <= CellsOf(e[i].data_size)
         /\ End(e[i]) <= n => Shortened(e[i], n) = e[i]
         /\ ~(End(e[i]) <= n) => End(Shortened(e[i], n)) = n
<1>1. PICK r \in LogEntry : r = e[i]
  BY AppendFields
<1>2. /\ r.start \in Nat /\ r.written \in Nat /\ r.written > 0 /\ End(r) \in Nat
      /\ r.written <= CellsOf(r.data_size) /\ CellsOf(r.data_size) \in Nat
      /\ End(r) = r.start + r.written /\ r.start < n
  BY <1>1, AppendFields
<1>3. PICK w : w = IF End(r) <= n THEN r.written ELSE n - r.start
  OBVIOUS
<1>4. w \in Nat \ {0} /\ w <= CellsOf(r.data_size) /\ (~(End(r) <= n) => r.start + w = n)
  BY <1>2, <1>3
<1>5. PICK t : t = [r EXCEPT !.written = w]
  OBVIOUS
<1>6. Shortened(r, n) = t
  BY <1>3, <1>5 DEF Shortened
<1>7. /\ t \in LogEntry /\ t.start = r.start /\ t.lsn = r.lsn /\ t.data_size = r.data_size /\ t.written = w
      /\ w = r.written => t = r
  BY <1>4, <1>5 DEF LogEntry
<1>8. /\ t \in LogEntry /\ t.start = r.start /\ t.lsn = r.lsn /\ t.data_size = r.data_size
      /\ t.written <= CellsOf(r.data_size)
      /\ End(r) <= n => t = r
      /\ ~(End(r) <= n) => End(t) = n
  BY <1>3, <1>4, <1>7 DEF End
<1> QED BY <1>1, <1>6, <1>8

(* A cut leaves a log that ends where it was cut.                          *)
LEMMA CutKeeps ==
  ASSUME IsLog(records), LsnsGrow(records), NEW n \in Nat, n <= FileSize(records)
  PROVE  IsLog(Cut(n)) /\ LsnsGrow(Cut(n)) /\ FileSize(Cut(n)) = n
<1>1. PICK e : e = records
  OBVIOUS
<1>2. IsLog(e) /\ LsnsGrow(e) /\ n <= FileSize(e) /\ Len(e) \in Nat /\ DOMAIN e = 1 .. Len(e)
  BY <1>1 DEF IsLog
<1>3. PICK m \in 0 .. Len(e) :
        /\ {j \in 1 .. Len(e) : e[j].start < n} = 1 .. m
        /\ m = 0 => n = 0
        /\ m # 0 => n <= End(e[m])
  BY <1>2, CutTakesTheFirst
<1>4. m \in Nat /\ \A i \in 1 .. m : i \in 1 .. Len(e) /\ (i # 1 => i - 1 \in 1 .. m)
  BY <1>2
<1>5. \A i \in 1 .. m : e[i].start < n
  BY <1>3
<1>6. PICK c : c = Cut(n)
  OBVIOUS
<1>7. c = [i \in 1 .. m |-> Shortened(e[i], n)]
  <2>1. Cardinality({j \in DOMAIN e : e[j].start < n}) = m
    <3>1. {j \in DOMAIN e : e[j].start < n} = 1 .. m
      BY <1>2, <1>3
    <3>2. Cardinality(1 .. m) = m
      BY <1>4, FS_Interval
    <3> QED BY <3>1, <3>2, Zenon
  <2> QED BY <1>1, <1>6, <2>1 DEF Cut, Shortened
<1>8. \A i \in 1 .. m : /\ c[i] \in LogEntry /\ c[i].start = e[i].start /\ c[i].lsn = e[i].lsn
                        /\ c[i].written <= CellsOf(c[i].data_size)
                        /\ End(e[i]) <= n => c[i] = e[i]
                        /\ ~(End(e[i]) <= n) => End(c[i]) = n
  BY <1>2, <1>4, <1>5, <1>7, ShortenedFields
<1>9. c \in Seq(LogEntry) /\ Len(c) = m
  <2>1. c \in [1 .. m -> LogEntry]
    BY <1>7, <1>8
  <2> QED BY <1>4, <2>1
<1>10. ASSUME NEW i \in 1 .. m, i # m PROVE c[i] = e[i]
  <2>1. m \in 1 .. Len(e) /\ m \in 1 .. m /\ i < m
    BY <1>2, <1>4, <1>10
  <2>2. End(e[i]) <= e[m].start /\ e[m].start < n
    BY <1>2, <1>4, <1>5, <2>1, EndsInOrder
  <2>3. End(e[i]) \in Nat /\ e[m].start \in Nat
    BY <1>2, <1>4, <2>1, AppendFields
  <2>4. End(e[i]) <= n
    BY <2>2, <2>3
  <2> QED BY <1>8, <2>4
<1>11. IsLog(c)
  <2>1. ASSUME NEW i \in 1 .. m PROVE c[i].start = IF i = 1 THEN 0 ELSE End(c[i - 1])
    <3>1. i # 1 => i - 1 \in 1 .. m /\ i - 1 # m
      BY <1>4
    <3>2. e[i].start = IF i = 1 THEN 0 ELSE End(e[i - 1])
      BY <1>2, <1>4 DEF IsLog
    <3> QED BY <1>8, <1>10, <3>1, <3>2
  <2> QED BY <1>8, <1>9, <2>1 DEF IsLog
<1>12. LsnsGrow(c)
  <2>1. ASSUME NEW i \in 1 .. m, NEW j \in 1 .. m, i < j, AllWhole(c, j - 1) PROVE c[i].lsn < c[j].lsn
    <3>1. \A k \in 1 .. j - 1 : k \in 1 .. m /\ k # m
      BY <1>4
    <3>2. AllWhole(e, j - 1)
      BY <1>10, <2>1, <3>1 DEF AllWhole
    <3> QED BY <1>2, <1>4, <1>8, <2>1, <3>2 DEF LsnsGrow
  <2> QED BY <1>9, <2>1 DEF LsnsGrow
<1>13. FileSize(c) = n
  <2>1. CASE m = 0
    BY <1>3, <1>9, <1>11, <2>1, FileEnds
  <2>2. CASE m # 0
    <3>1. m \in 1 .. m /\ m \in 1 .. Len(e)
      BY <1>4, <2>2
    <3>2. FileSize(c) = End(c[m])
      BY <1>9, <1>11, <2>2, FileEnds
    <3>3. n <= End(e[m]) /\ End(e[m]) \in Nat
      BY <1>2, <1>3, <2>2, <3>1, AppendFields
    <3>4. End(c[m]) = n
      BY <1>8, <3>1, <3>3
    <3> QED BY <3>2, <3>4
  <2> QED BY <2>1, <2>2
<1> QED BY <1>6, <1>11, <1>12, <1>13

(* The parts of the invariant that the shapes of the variables give.       *)
LEMMA WalTypes ==
  ASSUME WalInv
  PROVE  /\ IsLog(records) /\ LsnsGrow(records) /\ Len(records) \in Nat
         /\ wal \in WalHandle
         /\ wal.open \in BOOLEAN /\ wal.next_lsn \in Nat /\ wal.next_lsn # 0 /\ wal.flushed_lsn \in Nat
         /\ synced \in Nat /\ synced <= FileSize(records) /\ FileSize(records) \in Nat
         /\ failures \in FailureCounts
<1>1. IsLog(records) /\ LsnsGrow(records)
  BY DEF WalInv, WellFormed
<1>2. Len(records) \in Nat /\ FileSize(records) \in Nat
  BY <1>1, FileEnds DEF IsLog
<1>3. /\ wal \in WalHandle /\ failures \in FailureCounts
      /\ synced \in Nat /\ synced <= FileSize(records)
  BY DEF WalInv, WellFormed
<1> QED BY <1>1, <1>2, <1>3 DEF WalHandle

(* The type invariant follows.                                             *)
LEMMA WalTypeFollows ==
  ASSUME WalInv
  PROVE  WalTypeOK
<1>1. IsLog(records) /\ wal \in WalHandle /\ failures \in FailureCounts /\ synced \in 0 .. FileSize(records)
  BY WalTypes
<1>2. DOMAIN records = 1 .. Len(records) /\ records \in Seq(LogEntry)
  BY <1>1 DEF IsLog
<1> QED BY <1>1, <1>2 DEF WalTypeOK, IsLog, LogEntry, WalHandle, FailureCounts, INVALID_LSN

(* A fault is counted under its kind.                                      *)
LEMMA FaultIsCounted ==
  ASSUME NEW f \in FailureCounts
  PROVE  /\ [f EXCEPT !["write"] = @ + 1] \in FailureCounts
         /\ [f EXCEPT !["sync"] = @ + 1] \in FailureCounts
         /\ [f EXCEPT !["power"] = @ + 1] \in FailureCounts
         /\ [f EXCEPT !["crash"] = @ + 1] \in FailureCounts
         /\ [f EXCEPT !["close"] = @ + 1] \in FailureCounts
         /\ [f EXCEPT !["write"] = @ + 1].crash = f.crash /\ [f EXCEPT !["write"] = @ + 1].close = f.close
         /\ [f EXCEPT !["sync"] = @ + 1].crash = f.crash /\ [f EXCEPT !["sync"] = @ + 1].close = f.close
         /\ [f EXCEPT !["power"] = @ + 1].crash = f.crash /\ [f EXCEPT !["power"] = @ + 1].close = f.close
         /\ [f EXCEPT !["crash"] = @ + 1].crash # 0 /\ [f EXCEPT !["close"] = @ + 1].close # 0
  BY DEF FailureCounts

(* wal_append, and what it leaves when it fails or the process dies in it. *)
LEMMA AppendedRecord ==
  ASSUME WalInv, wal.open, NEW size \in DataSizes, NEW w \in Nat, w # 0, w <= CellsOf(size), NEW a \in BOOLEAN
  PROVE  /\ LogRecord(size, w, a) \in LogEntry
         /\ LogRecord(size, w, a).start = FileSize(records)
         /\ LogRecord(size, w, a).written = w
         /\ LogRecord(size, w, a).data_size = size
         /\ LogRecord(size, w, a).lsn = wal.next_lsn
         /\ w <= CellsOf(LogRecord(size, w, a).data_size)
         /\ \A i \in 1 .. Len(records) : AllWhole(records, i) => records[i].lsn < wal.next_lsn
<1>1. wal.next_lsn \in Nat /\ wal.next_lsn # 0 /\ FileSize(records) \in Nat
  BY WalTypes
<1>2. \A i \in 1 .. Len(records) : AllWhole(records, i) => records[i].lsn < wal.next_lsn
  BY DEF WalInv, NextIsAbove
<1> QED BY <1>1, <1>2 DEF LogRecord, LogEntry, INVALID_LSN

(* What an append does to the log, whatever comes of it.                   *)
LEMMA AppendChangesLog ==
  ASSUME WalInv, wal.open, NEW size \in DataSizes, NEW w \in Nat, w # 0, w <= CellsOf(size), NEW a \in BOOLEAN,
         records' = Append(records, LogRecord(size, w, a))
  PROVE  /\ IsLog(records') /\ LsnsGrow(records') /\ FileSize(records) < FileSize(records')
         /\ Len(records') = Len(records) + 1 /\ FileSize(records') \in Nat
         /\ \A i \in 1 .. Len(records) : records'[i] = records[i] /\ (AllWhole(records', i) <=> AllWhole(records, i))
         /\ records'[Len(records) + 1] = LogRecord(size, w, a)
<1>1. PICK x \in LogEntry : x = LogRecord(size, w, a)
  BY AppendedRecord
<1>2. x.start = FileSize(records) /\ x.written <= CellsOf(x.data_size) /\ x.lsn = wal.next_lsn
  BY <1>1, AppendedRecord
<1>3. \A i \in 1 .. Len(records) : AllWhole(records, i) => records[i].lsn < x.lsn
  BY <1>2, AppendedRecord
<1>4. IsLog(records) /\ LsnsGrow(records) /\ Len(records) \in Nat
  BY WalTypes
<1>5. /\ IsLog(Append(records, x)) /\ LsnsGrow(Append(records, x))
      /\ Len(Append(records, x)) = Len(records) + 1 /\ Append(records, x)[Len(records) + 1] = x
      /\ \A i \in 1 .. Len(records) : Append(records, x)[i] = records[i]
      /\ \A i \in 0 .. Len(records) : AllWhole(Append(records, x), i) <=> AllWhole(records, i)
      /\ FileSize(Append(records, x)) = End(x) /\ End(x) \in Nat /\ FileSize(records) < End(x)
  BY <1>2, <1>3, <1>4, LogGrows
<1>6. \A i \in 1 .. Len(records) : i \in 0 .. Len(records)
  BY <1>4
<1>7. records' = Append(records, x)
  BY <1>1
<1> QED BY <1>1, <1>5, <1>6, <1>7

(* wal_append keeps the invariant.                                         *)
LEMMA AppendKeepsWal ==
  ASSUME WalInv, NEW size \in DataSizes, wal_append(size)
  PROVE  WalInv'
<1>1. /\ wal.open /\ records' = Append(records, LogRecord(size, CellsOf(size), TRUE))
      /\ wal' = [wal EXCEPT !.next_lsn = @ + 1] /\ synced' = synced /\ failures' = failures
  BY DEF wal_append
<1>2. CellsOf(size) \in Nat /\ CellsOf(size) # 0 /\ CellsOf(size) <= CellsOf(size)
  <2>1. size \in Nat
    BY SizesAssumption
  <2> QED BY <2>1 DEF CellsOf, HEADER
<1>3. /\ IsLog(records') /\ LsnsGrow(records') /\ FileSize(records) < FileSize(records')
      /\ Len(records') = Len(records) + 1 /\ FileSize(records') \in Nat
      /\ \A i \in 1 .. Len(records) : records'[i] = records[i] /\ (AllWhole(records', i) <=> AllWhole(records, i))
      /\ records'[Len(records) + 1] = LogRecord(size, CellsOf(size), TRUE)
  BY <1>1, <1>2, AppendChangesLog
<1>4. /\ wal \in WalHandle
      /\ wal.next_lsn \in Nat /\ wal.flushed_lsn \in Nat /\ Len(records) \in Nat
      /\ synced \in Nat /\ synced <= FileSize(records) /\ FileSize(records) \in Nat
      /\ failures \in FailureCounts
  BY WalTypes
<1>5. /\ wal' \in WalHandle
      /\ wal'.open = wal.open /\ wal'.next_lsn = wal.next_lsn + 1 /\ wal'.flushed_lsn = wal.flushed_lsn
  <2>1. wal' = [wal EXCEPT !.next_lsn = @ + 1] /\ wal \in WalHandle
    BY <1>1, <1>4
  <2> QED BY <2>1 DEF WalHandle
<1>6. WellFormed(records', wal', synced', failures')
  <2>1. synced' \in Nat /\ synced' <= FileSize(records')
    <3>1. \A s, f, g \in Nat : s <= f /\ f < g => s <= g
      OBVIOUS
    <3> QED BY <1>1, <1>3, <1>4, <3>1, Zenon
  <2> QED BY <1>1, <1>3, <1>4, <1>5, <2>1 DEF WellFormed
<1>7. \A i \in 1 .. Len(records') : i \in 1 .. Len(records) \/ i = Len(records) + 1
  BY <1>3, <1>4
<1>8. records'[Len(records) + 1].lsn = wal.next_lsn
  BY <1>3 DEF LogRecord
<1>9. NextIsAbove(records', wal')
  <2>1. ASSUME NEW i \in 1 .. Len(records), AllWhole(records, i) PROVE records[i].lsn < wal.next_lsn + 1
    <3>1. records[i].lsn < wal.next_lsn
      BY <1>1, <2>1 DEF WalInv, NextIsAbove
    <3>2. records[i].lsn \in Nat
      BY WalTypes, AppendFields
    <3> QED BY <1>4, <3>1, <3>2
  <2>2. wal.next_lsn < wal.next_lsn + 1
    BY <1>4
  <2>3. ASSUME NEW i \in 1 .. Len(records'), AllWhole(records', i) PROVE records'[i].lsn < wal'.next_lsn
    BY <1>3, <1>5, <1>7, <1>8, <2>1, <2>2, <2>3, Zenon
  <2> QED BY <2>3 DEF NextIsAbove
<1>10. wal.flushed_lsn < wal.next_lsn /\ wal'.flushed_lsn < wal'.next_lsn
  <2>1. wal.flushed_lsn < wal.next_lsn
    BY <1>1 DEF WalInv
  <2> QED BY <1>4, <1>5, <2>1
<1>11. ASSUME failures'.crash = 0, failures'.close = 0 PROVE SyncedSoFar(records', wal', synced')
  <2>1. \A i \in 1 .. Len(records) :
          records[i].lsn <= wal.flushed_lsn /\ records[i].acked => End(records[i]) <= synced
    BY <1>1, <1>11 DEF WalInv, SyncedSoFar
  <2>2. ~(wal.next_lsn <= wal.flushed_lsn)
    BY <1>4, <1>10
  <2> QED BY <1>1, <1>3, <1>5, <1>7, <1>8, <2>1, <2>2 DEF SyncedSoFar
<1> QED BY <1>3, <1>6, <1>9, <1>10, <1>11 DEF WalInv

(* So does a write that fails.                                             *)
LEMMA AppendFailsKeepsWal ==
  ASSUME WalInv, NEW size \in DataSizes, NEW written \in 0 .. CellsOf(size) - 1, AppendFails(size, written)
  PROVE  WalInv'
<1>1. /\ wal.open /\ wal' = wal /\ synced' = synced /\ failures' = [failures EXCEPT !["write"] = @ + 1]
      /\ records' = IF written = 0 THEN records ELSE Append(records, LogRecord(size, written, FALSE))
  BY DEF AppendFails, Fault
<1>2. size \in Nat /\ CellsOf(size) \in Nat /\ written \in Nat /\ written < CellsOf(size)
  <2>1. size \in Nat
    BY SizesAssumption
  <2>2. CellsOf(size) \in Nat
    BY <2>1 DEF CellsOf, HEADER
  <2> QED BY <2>1, <2>2
<1>4. /\ wal \in WalHandle
      /\ wal.next_lsn \in Nat /\ wal.flushed_lsn \in Nat /\ Len(records) \in Nat /\ IsLog(records) /\ LsnsGrow(records)
      /\ synced \in Nat /\ synced <= FileSize(records) /\ FileSize(records) \in Nat
      /\ failures \in FailureCounts
  BY WalTypes
<1>5. /\ failures' \in FailureCounts
      /\ failures'.crash = failures.crash /\ failures'.close = failures.close
  BY <1>1, <1>4, FaultIsCounted
<1>6. wal.flushed_lsn < wal.next_lsn /\ NextIsAbove(records, wal)
  BY <1>1 DEF WalInv
<1>7. CASE written = 0
  <2>1. records' = records
    BY <1>1, <1>7
  <2>2. WellFormed(records', wal', synced', failures')
    BY <1>1, <1>4, <1>5, <2>1 DEF WellFormed
  <2> QED BY <1>1, <1>4, <1>5, <1>6, <2>1, <2>2 DEF WalInv
<1>8. CASE written # 0
  <2>1. records' = Append(records, LogRecord(size, written, FALSE)) /\ written <= CellsOf(size)
    <3>1. written <= CellsOf(size)
      BY <1>2
    <3> QED BY <1>1, <1>8, <3>1, Zenon
  <2>2. /\ IsLog(records') /\ LsnsGrow(records') /\ FileSize(records) < FileSize(records')
        /\ Len(records') = Len(records) + 1 /\ FileSize(records') \in Nat
        /\ \A i \in 1 .. Len(records) : records'[i] = records[i] /\ (AllWhole(records', i) <=> AllWhole(records, i))
        /\ records'[Len(records) + 1] = LogRecord(size, written, FALSE)
    BY <1>1, <1>2, <1>8, <2>1, AppendChangesLog
  <2>3. WellFormed(records', wal', synced', failures')
    <3>1. synced' \in Nat /\ synced' <= FileSize(records')
      <4>1. \A s, f, g \in Nat : s <= f /\ f < g => s <= g
        OBVIOUS
      <4> QED BY <1>1, <1>4, <2>2, <4>1, Zenon
    <3> QED BY <1>1, <1>4, <1>5, <2>2, <3>1 DEF WellFormed
  <2>4. \A i \in 1 .. Len(records') : i \in 1 .. Len(records) \/ i = Len(records) + 1
    BY <1>4, <2>2
  <2>5. ~AllWhole(records', Len(records) + 1)
    <3>1. ~Complete(records'[Len(records) + 1])
      BY <1>2, <2>2 DEF Complete, LogRecord
    <3>2. Len(records) + 1 \in 1 .. Len(records) + 1
      BY <1>4
    <3> QED BY <3>1, <3>2 DEF AllWhole
  <2>6. NextIsAbove(records', wal')
    BY <1>1, <1>6, <2>2, <2>4, <2>5 DEF NextIsAbove
  <2>7. ASSUME failures'.crash = 0, failures'.close = 0 PROVE SyncedSoFar(records', wal', synced')
    <3>1. \A i \in 1 .. Len(records) :
            records[i].lsn <= wal.flushed_lsn /\ records[i].acked => End(records[i]) <= synced
      BY <1>1, <1>5, <2>7 DEF WalInv, SyncedSoFar
    <3>2. ~records'[Len(records) + 1].acked
      BY <2>2 DEF LogRecord
    <3> QED BY <1>1, <2>2, <2>4, <3>1, <3>2 DEF SyncedSoFar
  <2> QED BY <1>1, <1>6, <2>2, <2>3, <2>6, <2>7 DEF WalInv
<1> QED BY <1>7, <1>8

(* And a death of the process, in an append or not.                        *)
LEMMA DeathKeepsWal ==
  ASSUME WalInv, ProcessDies \/ \E size \in DataSizes : \E written \in 0 .. CellsOf(size) - 1 : CrashInAppend(size, written)
  PROVE  WalInv'
<1>1. /\ wal' = [wal EXCEPT !.open = FALSE] /\ synced' = synced /\ wal.open
      /\ failures' = [failures EXCEPT !["crash"] = @ + 1]
  BY DEF ProcessDies, CrashInAppend, Fault
<1>2. /\ wal \in WalHandle
      /\ IsLog(records) /\ LsnsGrow(records)
      /\ synced \in Nat /\ synced <= FileSize(records) /\ FileSize(records) \in Nat
      /\ failures \in FailureCounts
  BY WalTypes
<1>3. /\ failures' \in FailureCounts
      /\ failures'.crash # 0
  BY <1>1, <1>2, FaultIsCounted
<1>4. wal' \in WalHandle /\ ~wal'.open
  BY <1>1, <1>2 DEF WalHandle
<1>5. IsLog(records') /\ LsnsGrow(records') /\ synced' <= FileSize(records')
  <2>1. CASE ProcessDies
    BY <1>1, <1>2, <2>1 DEF ProcessDies
  <2>2. CASE \E size \in DataSizes : \E written \in 0 .. CellsOf(size) - 1 : CrashInAppend(size, written)
    <3>1. PICK size \in DataSizes : \E written \in 0 .. CellsOf(size) - 1 : CrashInAppend(size, written)
      BY <2>2
    <3>2. PICK written \in 0 .. CellsOf(size) - 1 : CrashInAppend(size, written)
      BY <3>1
    <3>3. written > 0 /\ records' = Append(records, LogRecord(size, written, FALSE))
      BY <3>2 DEF CrashInAppend
    <3>4. written \in Nat /\ written # 0 /\ written <= CellsOf(size)
      <4>1. size \in Nat
        BY SizesAssumption
      <4>2. CellsOf(size) \in Nat
        BY <4>1 DEF CellsOf, HEADER
      <4> QED BY <3>3, <4>2
    <3>5. /\ IsLog(records') /\ LsnsGrow(records') /\ FileSize(records) < FileSize(records')
          /\ FileSize(records') \in Nat
      BY <1>1, <3>3, <3>4, AppendChangesLog
    <3> QED BY <1>1, <1>2, <3>5
  <2> QED BY <2>1, <2>2
<1>6. WellFormed(records', wal', synced', failures')
  BY <1>1, <1>2, <1>3, <1>4, <1>5 DEF WellFormed
<1> QED BY <1>3, <1>4, <1>5, <1>6 DEF WalInv

(* wal_flush, whether its fsync fails or not, and wal_close.               *)
LEMMA FlushKeepsWal ==
  ASSUME WalInv, wal_flush \/ FlushFails \/ wal_close
  PROVE  WalInv'
<1>1. /\ wal \in WalHandle
      /\ wal.next_lsn \in Nat /\ wal.next_lsn # 0 /\ IsLog(records) /\ LsnsGrow(records)
      /\ synced \in Nat /\ synced <= FileSize(records) /\ FileSize(records) \in Nat
      /\ failures \in FailureCounts
  BY WalTypes
<1>2. wal.open /\ records' = records
  BY DEF wal_flush, FlushFails, wal_close
<1>3. wal.flushed_lsn < wal.next_lsn /\ NextIsAbove(records, wal)
  BY <1>2 DEF WalInv
<1>4. CASE wal_flush
  <2>1. synced' = FileSize(records) /\ wal' = [wal EXCEPT !.flushed_lsn = wal.next_lsn - 1] /\ failures' = failures
    BY <1>4 DEF wal_flush, Flushed
  <2>2. /\ wal' \in WalHandle
        /\ wal'.open /\ wal'.next_lsn = wal.next_lsn /\ wal'.flushed_lsn = wal.next_lsn - 1
    BY <1>1, <1>2, <2>1 DEF WalHandle
  <2>3. WellFormed(records', wal', synced', failures')
    BY <1>1, <1>2, <2>1, <2>2 DEF WellFormed
  <2>4. NextIsAbove(records', wal') /\ wal'.flushed_lsn < wal'.next_lsn
    BY <1>1, <1>2, <1>3, <2>2 DEF NextIsAbove
  <2>5. SyncedSoFar(records', wal', synced')
    BY <1>1, <1>2, <2>1, <2>2, FileEnds DEF SyncedSoFar
  <2> QED BY <1>1, <1>2, <2>2, <2>3, <2>4, <2>5 DEF WalInv
<1>5. CASE FlushFails
  <2>1. synced' = synced /\ wal' = wal /\ failures' = [failures EXCEPT !["sync"] = @ + 1]
    BY <1>5 DEF FlushFails, Fault
  <2>2. /\ failures' \in FailureCounts
        /\ failures'.crash = failures.crash /\ failures'.close = failures.close
    BY <1>1, <2>1, FaultIsCounted
  <2>3. WellFormed(records', wal', synced', failures')
    BY <1>1, <1>2, <2>1, <2>2 DEF WellFormed
  <2> QED BY <1>1, <1>2, <1>3, <2>1, <2>2, <2>3 DEF WalInv
<1>6. CASE wal_close
  <2>1. /\ wal' = [wal EXCEPT !.open = FALSE]
        /\ \/ synced' = FileSize(records) /\ failures' = failures
           \/ synced' = synced /\ failures' = [failures EXCEPT !["close"] = @ + 1]
    BY <1>6 DEF wal_close, Flushed, Fault
  <2>2. wal' \in WalHandle /\ ~wal'.open
    BY <1>1, <2>1 DEF WalHandle
  <2>3. /\ failures' \in FailureCounts
        /\ failures'.close = 0 => synced' = FileSize(records)
    BY <1>1, <2>1, FaultIsCounted
  <2>4. WellFormed(records', wal', synced', failures')
    <3>1. synced' \in Nat /\ synced' <= FileSize(records')
      BY <1>1, <1>2, <2>1
    <3> QED BY <1>1, <1>2, <2>2, <2>3, <3>1 DEF WellFormed
  <2>5. failures'.close = 0 => SyncedSoFar(records', wal', synced')
    BY <1>2, <2>2, <2>3 DEF SyncedSoFar
  <2> QED BY <1>1, <1>2, <2>2, <2>4, <2>5 DEF WalInv
<1> QED BY <1>4, <1>5, <1>6

(* wal_open goes on above every LSN of the complete appends.               *)
LEMMA OpenKeepsWal ==
  ASSUME WalInv, wal_open
  PROVE  WalInv'
<1>1. /\ ~wal.open /\ records' = records /\ synced' = synced /\ failures' = failures
      /\ wal' = [open |-> TRUE, next_lsn |-> max_lsn(records) + 1, flushed_lsn |-> max_lsn(records)]
  BY DEF wal_open
<1>2. /\ IsLog(records) /\ LsnsGrow(records)
      /\ synced \in Nat /\ synced <= FileSize(records) /\ FileSize(records) \in Nat
      /\ failures \in FailureCounts
  BY WalTypes
<1>3. PICK h \in Nat : h = max_lsn(records) /\ \A i \in 1 .. Len(records) : AllWhole(records, i) => records[i].lsn <= h
  BY <1>2, HighestLsn
<1>4. /\ wal' \in WalHandle
      /\ wal'.open /\ wal'.next_lsn = h + 1 /\ wal'.flushed_lsn = h
  BY <1>1, <1>3 DEF WalHandle
<1>5. WellFormed(records', wal', synced', failures')
  BY <1>1, <1>2, <1>4 DEF WellFormed
<1>6. NextIsAbove(records', wal') /\ wal'.flushed_lsn < wal'.next_lsn
  <2>1. \A i \in 1 .. Len(records) : records[i].lsn \in Nat
    BY <1>2, AppendFields
  <2> QED BY <1>1, <1>3, <1>4, <2>1 DEF NextIsAbove
<1>7. ASSUME failures'.crash = 0, failures'.close = 0 PROVE SyncedSoFar(records', wal', synced')
  <2>1. synced = FileSize(records)
    BY <1>1, <1>7 DEF WalInv, SyncedSoFar
  <2> QED BY <1>1, <1>2, <1>4, <2>1, FileEnds DEF SyncedSoFar
<1> QED BY <1>1, <1>2, <1>5, <1>6, <1>7 DEF WalInv

(* A loss of power leaves a shorter log, all of it on stable storage.      *)
LEMMA PowerLossKeepsWal ==
  ASSUME WalInv, PowerLoss
  PROVE  WalInv'
<1>1. /\ wal' = [wal EXCEPT !.open = FALSE] /\ failures' = [failures EXCEPT !["power"] = @ + 1]
      /\ \E n \in synced .. FileSize(records) : records' = Cut(n) /\ synced' = n
  BY DEF PowerLoss, Fault
<1>2. /\ wal \in WalHandle
      /\ IsLog(records) /\ LsnsGrow(records) /\ synced \in Nat /\ FileSize(records) \in Nat
      /\ failures \in FailureCounts
  BY WalTypes
<1>3. PICK n \in Nat : n <= FileSize(records) /\ records' = Cut(n) /\ synced' = n
  BY <1>1, <1>2
<1>4. IsLog(records') /\ LsnsGrow(records') /\ FileSize(records') = n
  BY <1>2, <1>3, CutKeeps
<1>5. failures' \in FailureCounts
  BY <1>1, <1>2, FaultIsCounted
<1>6. wal' \in WalHandle /\ ~wal'.open
  BY <1>1, <1>2 DEF WalHandle
<1>7. WellFormed(records', wal', synced', failures')
  BY <1>3, <1>4, <1>5, <1>6 DEF WellFormed
<1> QED BY <1>3, <1>4, <1>6, <1>7 DEF WalInv, SyncedSoFar

(* wal_create leaves an empty log.                                         *)
LEMMA WalStarts == WalInit => WalInv
<1>1. SUFFICES ASSUME WalInit PROVE WalInv
  OBVIOUS
<1>2. /\ records = <<>> /\ synced = 0
      /\ wal = [open |-> TRUE, next_lsn |-> 1, flushed_lsn |-> 0]
      /\ failures = [write |-> 0, sync |-> 0, close |-> 0, crash |-> 0, power |-> 0]
  BY <1>1 DEF WalInit
<1>3. Len(records) = 0 /\ 1 .. 0 = {} /\ records \in Seq(LogEntry)
  BY <1>2
<1>4. IsLog(records) /\ LsnsGrow(records) /\ NextIsAbove(records, wal) /\ FileSize(records) = 0
  BY <1>2, <1>3 DEF IsLog, LsnsGrow, NextIsAbove, FileSize
<1>5. WellFormed(records, wal, synced, failures)
  BY <1>2, <1>4 DEF WellFormed, WalHandle, FailureCounts
<1> QED BY <1>2, <1>3, <1>4, <1>5 DEF WalInv, SyncedSoFar

(* Every step keeps the invariant.                                         *)
LEMMA WalStep == WalInv /\ [WalNext]_walVars => WalInv'
<1>1. SUFFICES ASSUME WalInv, [WalNext]_walVars PROVE WalInv'
  OBVIOUS
<1>2. CASE UNCHANGED walVars
  BY <1>1, <1>2 DEF walVars, WalInv
<1>3. ASSUME NEW size \in DataSizes, wal_append(size) PROVE WalInv'
  BY <1>1, <1>3, AppendKeepsWal
<1>4. ASSUME NEW size \in DataSizes, NEW written \in 0 .. CellsOf(size) - 1, AppendFails(size, written) PROVE WalInv'
  BY <1>1, <1>4, AppendFailsKeepsWal
<1>5. ASSUME ProcessDies \/ \E size \in DataSizes : \E written \in 0 .. CellsOf(size) - 1 : CrashInAppend(size, written)
      PROVE  WalInv'
  BY <1>1, <1>5, DeathKeepsWal
<1>6. ASSUME wal_flush \/ FlushFails \/ wal_close PROVE WalInv'
  BY <1>1, <1>6, FlushKeepsWal
<1>7. ASSUME wal_open PROVE WalInv'
  BY <1>1, <1>7, OpenKeepsWal
<1>8. ASSUME PowerLoss PROVE WalInv'
  BY <1>1, <1>8, PowerLossKeepsWal
<1> QED BY <1>1, <1>2, <1>3, <1>4, <1>5, <1>6, <1>7, <1>8, Zenon DEF WalNext

(* The inductive invariant of the log holds through failing writes and     *)
(* fsyncs, deaths of the process and losses of power (wal.c).              *)
THEOREM WalInvHolds == WalSpec => []WalInv
<1>1. WalInit => WalInv
  BY WalStarts
<1>2. WalInv /\ [WalNext]_walVars => WalInv'
  BY WalStep
<1> QED BY <1>1, <1>2, PTL DEF WalSpec

(* The replay of wal_recover is exactly the complete records and the LSNs  *)
(* grow, until something is appended behind a record that was cut short.   *)
THEOREM ReplayIsTheLogHolds == WalSpec => []ReplayIsTheLog
<1>1. WalInv => ReplayIsTheLog
  <2>1. SUFFICES ASSUME WalInv PROVE ReplayIsTheLog
    OBVIOUS
  <2>2. WalTypeOK /\ IsLog(records) /\ LsnsGrow(records) /\ DOMAIN records = 1 .. Len(records) /\ Len(records) \in Nat
    BY <2>1, WalTypes, WalTypeFollows DEF IsLog
  <2>3. ASSUME NothingBehindATear, NEW i \in DOMAIN records, NEW j \in DOMAIN records, i < j
        PROVE  records[i].lsn < records[j].lsn
    <3>1. \A k \in 1 .. j - 1 : k \in DOMAIN records /\ k < Len(records)
      BY <2>2
    <3>2. AllWhole(records, j - 1)
      BY <2>3, <3>1 DEF NothingBehindATear, AllWhole
    <3> QED BY <2>2, <2>3, <3>2 DEF LsnsGrow
  <2> QED BY <2>2, <2>3, ReplayIsWhole DEF ReplayIsTheLog
<1> QED BY <1>1, WalInvHolds, PTL

(* What flushed_lsn covers is on stable storage, as long as the log was    *)
(* never left without a sync (wal_flush, wal_close, wal_open).             *)
THEOREM FlushedIsDurableHolds == WalSpec => []FlushedIsDurable
<1>1. WalInv => FlushedIsDurable
  BY DEF WalInv, WellFormed, SyncedSoFar, FlushedIsDurable, IsLog
<1> QED BY <1>1, WalInvHolds, PTL
=============================================================================
