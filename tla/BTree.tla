------------------------------- MODULE BTree -------------------------------
(***************************************************************************)
(* The B+ tree index of server/storage/btree.c: nodes on the heap, leaves  *)
(* chained by next pointers, splits on the way back from an insertion,     *)
(* deletion without rebalancing, and the index file written in pre-order   *)
(* by btree_save and read back by btree_open.  The table's write lock is   *)
(* held around every call, so a call is one step.                          *)
(*                                                                         *)
(* A node is a record in the sequence tree.nodes and a pointer is its      *)
(* index, 0 for NULL.  Key positions count from 0 as in the code.          *)
(***************************************************************************)
EXTENDS Integers, Sequences, FiniteSets, SequencesExt

CONSTANTS
  Keys,             \* the keys in use, a set of naturals
  Values,           \* record pointers
  Order,            \* tree->order
  Torn,             \* an index file that was not written to its end
  MaxNodes,         \* bound on the nodes allocated since the last open
  MaxFaults,        \* bound on calls that fail
  MaxSaves          \* bound on saves of the index

ASSUME OrderAssumption == Order \in Nat /\ Order >= 3
ASSUME KeysAssumption == Keys \subseteq Nat

VARIABLES
  tree,     \* root, nodes, size (an unsigned count: -1 is its wrapped value), dirty
  open,     \* the handle exists
  file,     \* the index file: size and the nodes in pre-order, or Torn
  result,   \* the answer of the last changing call
  faults,   \* what has failed: split (no memory for it), root (none for a new
            \* root), fopen, write or close of the index file
  saves     \* how often the index was saved

vars == <<tree, open, file, result, faults, saves>>

NULL == 0

Leaf(keys, values, next) ==
  [is_leaf |-> TRUE, keys |-> keys, values |-> values, children |-> <<>>, next |-> next]
Internal(keys, children) ==
  [is_leaf |-> FALSE, keys |-> keys, values |-> <<>>, children |-> children, next |-> NULL]

num_keys(node) == Len(node.keys)
Front_(s, n) == SubSeq(s, 1, n)           \* the first n elements
From_(s, n) == SubSeq(s, n + 1, Len(s))   \* what follows them
-----------------------------------------------------------------------------
(* Searching                                                               *)

RECURSIVE Bisect(_, _, _, _)
Bisect(keys, target, lo, hi) ==
  IF lo >= hi THEN lo
  ELSE LET mid == (lo + hi) \div 2
       IN  IF keys[mid + 1] < target THEN Bisect(keys, target, mid + 1, hi)
           ELSE Bisect(keys, target, lo, mid)

key_lower_bound(keys, target) == Bisect(keys, target, 0, Len(keys))

HasAt(keys, pos, key) == pos < Len(keys) /\ keys[pos + 1] = key

key_find_exact(node, key) ==
  LET pos == key_lower_bound(node.keys, key)
  IN  IF HasAt(node.keys, pos, key) THEN pos ELSE -1

\* A descent to the left of a separator that equals the key.
mutChildFor(node, key) == key_lower_bound(node.keys, key)

\* The position of the child to descend to: right of a separator equal to key.
ChildFor(node, key) ==
  LET i == key_lower_bound(node.keys, key)
  IN  IF HasAt(node.keys, i, key) THEN i + 1 ELSE i

RECURSIVE Descend(_, _, _)
Descend(nodes, n, key) ==
  IF nodes[n].is_leaf THEN n
  ELSE Descend(nodes, nodes[n].children[ChildFor(nodes[n], key) + 1], key)

find_leaf(key) == Descend(tree.nodes, tree.root, key)

\* btree_search: the value, or -1.
btree_search(key) ==
  LET leaf == tree.nodes[find_leaf(key)]
      pos == key_find_exact(leaf, key)
  IN  IF pos < 0 THEN -1 ELSE leaf.values[pos + 1]

\* The <<key, value>> pairs on the leaf chain from n on.
RECURSIVE Entries(_, _)
Entries(nodes, n) ==
  IF n = NULL THEN <<>>
  ELSE LET leaf == nodes[n]
       IN  [j \in DOMAIN leaf.keys |-> <<leaf.keys[j], leaf.values[j]>>]
             \o Entries(nodes, leaf.next)

\* btree_range_scan: along the chain until a key passes high or max are found.
btree_range_scan(low, high, max) ==
  LET entries == Entries(tree.nodes, find_leaf(low))
      past == {i \in DOMAIN entries : entries[i][1] > high}
      end == IF past = {} THEN Len(entries) ELSE (CHOOSE i \in past : \A j \in past : i <= j) - 1
      hits == SelectSeq(Front_(entries, end), LAMBDA e : e[1] >= low)
  IN  Front_(hits, IF max < Len(hits) THEN max ELSE Len(hits))
-----------------------------------------------------------------------------
(* Inserting.  A step of the recursion returns the nodes it leaves, whether*)
(* it found the key, and the split it reports to its parent.  good is how  *)
(* many of the splits of this insertion get the memory they need: a failed *)
(* one ends the splitting, for its node reports no split.                  *)

NoSplit(nodes) == [error |-> 0, nodes |-> nodes, did_split |-> FALSE,
                   promoted_key |-> 0, new_node |-> NULL]

\* A split that forgets to link the new leaf into the chain.
mutSplitLeaf(nodes, n) ==
  LET leaf == nodes[n]
      mid == num_keys(leaf) \div 2
      left == Leaf(Front_(leaf.keys, mid), Front_(leaf.values, mid), leaf.next)
      right == Leaf(From_(leaf.keys, mid), From_(leaf.values, mid), leaf.next)
  IN  [error |-> 0, did_split |-> TRUE, promoted_key |-> right.keys[1],
       new_node |-> Len(nodes) + 1, nodes |-> Append([nodes EXCEPT ![n] = left], right)]

split_leaf(nodes, n) ==
  LET leaf == nodes[n]
      mid == num_keys(leaf) \div 2
      new == Len(nodes) + 1
      left == Leaf(Front_(leaf.keys, mid), Front_(leaf.values, mid), new)
      right == Leaf(From_(leaf.keys, mid), From_(leaf.values, mid), leaf.next)
  IN  [error |-> 0, did_split |-> TRUE, promoted_key |-> right.keys[1],
       new_node |-> new, nodes |-> Append([nodes EXCEPT ![n] = left], right)]

split_internal(nodes, n) ==
  LET node == nodes[n]
      mid == num_keys(node) \div 2
      left == Internal(Front_(node.keys, mid), Front_(node.children, mid + 1))
      right == Internal(From_(node.keys, mid + 1), From_(node.children, mid + 1))
  IN  [error |-> 0, did_split |-> TRUE, promoted_key |-> node.keys[mid + 1],
       new_node |-> Len(nodes) + 1, nodes |-> Append([nodes EXCEPT ![n] = left], right)]

\* A test that lets a node grow by one more key before it splits.
mutMustSplit(node) == num_keys(node) >= Order + 1

MustSplit(node) == num_keys(node) >= Order - 1

RECURSIVE insert_recursive(_, _, _, _, _)
insert_recursive(nodes, n, key, value, good) ==
  IF nodes[n].is_leaf
  THEN LET pos == key_lower_bound(nodes[n].keys, key)
           leaf == [nodes[n] EXCEPT !.keys = InsertAt(@, pos + 1, key),
                                    !.values = InsertAt(@, pos + 1, value)]
           grown == [nodes EXCEPT ![n] = leaf]
       IN  IF HasAt(nodes[n].keys, pos, key) THEN [NoSplit(nodes) EXCEPT !.error = -1]
           ELSE IF MustSplit(leaf) /\ good > 0 THEN split_leaf(grown, n)
           ELSE NoSplit(grown)
  ELSE LET child == nodes[n].children[ChildFor(nodes[n], key) + 1]
           below == insert_recursive(nodes, child, key, value, good)
           pos == key_lower_bound(nodes[n].keys, below.promoted_key)
           node == [nodes[n] EXCEPT !.keys = InsertAt(@, pos + 1, below.promoted_key),
                                    !.children = InsertAt(@, pos + 2, below.new_node)]
           grown == [below.nodes EXCEPT ![n] = node]
           used == Len(below.nodes) - Len(nodes)
       IN  IF below.error # 0 \/ ~below.did_split THEN [below EXCEPT !.did_split = FALSE]
           ELSE IF MustSplit(node) /\ good > used THEN split_internal(grown, n)
           ELSE NoSplit(grown)
-----------------------------------------------------------------------------
(* The index file: the size from the header and the nodes in pre-order.    *)

RECURSIVE write_node(_, _)
write_node(nodes, n) ==
  LET node == nodes[n]
  IN  <<[is_leaf |-> node.is_leaf, keys |-> node.keys, values |-> node.values]>>
        \o FlattenSeq([i \in DOMAIN node.children |-> write_node(nodes, node.children[i])])

Image == [size |-> tree.size, nodes |-> write_node(tree.nodes, tree.root)]

\* The place in the file behind the subtree that starts at p.
RECURSIVE EndOf(_, _)
RECURSIVE SkipTrees(_, _, _)
EndOf(img, p) == IF img[p].is_leaf THEN p + 1
                 ELSE SkipTrees(img, p + 1, Len(img[p].keys) + 1)
SkipTrees(img, p, count) == IF count = 0 THEN p ELSE SkipTrees(img, EndOf(img, p), count - 1)

\* A reader that links every leaf to the node behind it, also the last one.
mutLinkLeaves(img, p) == p + 1

\* link_leaves: the next leaf in the order of the keys, which is file order.
link_leaves(img, p) ==
  LET later == {q \in p + 1 .. Len(img) : img[q].is_leaf}
  IN  IF later = {} THEN NULL ELSE CHOOSE q \in later : \A r \in later : q <= r

\* read_node allocates in file order, so the node read at place p is node p.
read_node(img, p) ==
  IF img[p].is_leaf THEN Leaf(img[p].keys, img[p].values, link_leaves(img, p))
  ELSE Internal(img[p].keys,
                [i \in 1 .. Len(img[p].keys) + 1 |-> SkipTrees(img, p + 1, i - 1)])

\* A reader that takes the number of nodes for the size of the header.
mutLoaded(f) == [root |-> 1, nodes |-> [p \in DOMAIN f.nodes |-> read_node(f.nodes, p)],
                 size |-> Len(f.nodes), dirty |-> FALSE]

Loaded(f) == [root |-> 1, nodes |-> [p \in DOMAIN f.nodes |-> read_node(f.nodes, p)],
              size |-> f.size, dirty |-> FALSE]

\* A save that clears the dirty flag although a node was not written.
mutBtreeSave(bad) ==
  [file |-> IF bad = "" THEN Image ELSE IF bad = "fopen" THEN file ELSE Torn, dirty |-> FALSE]

\* btree_save: fopen "wb" empties the file unless it fails.  A failing fopen or
\* fwrite leaves the tree dirty; the result of fclose is not looked at.
btree_save(bad) ==
  [file |-> IF bad = "" THEN Image ELSE IF bad = "fopen" THEN file ELSE Torn,
   dirty |-> IF bad \in {"fopen", "write"} THEN tree.dirty ELSE FALSE]
-----------------------------------------------------------------------------
FaultKinds == {"split", "root", "fopen", "write", "close"}

\* A call of this kind fails; the bound counts kinds, a kind fails once.
Fails(kind) ==
  /\ Cardinality(faults) < MaxFaults /\ kind \notin faults
  /\ faults' = faults \cup {kind}

\* A save, with what goes wrong in it: nothing, or the fopen, a write or the fclose.
SaveWith(bad) ==
  /\ saves < MaxSaves
  /\ saves' = saves + 1
  /\ file' = btree_save(bad).file
  /\ IF bad = "" THEN UNCHANGED faults ELSE Fails(bad)

Empty == [root |-> 1, nodes |-> <<Leaf(<<>>, <<>>, NULL)>>, size |-> 0, dirty |-> FALSE]

\* btree_create, the initial file written.
Init ==
  /\ tree = Empty
  /\ open = TRUE
  /\ file = [size |-> 0, nodes |-> write_node(Empty.nodes, Empty.root)]
  /\ result = 0
  /\ faults = {} /\ saves = 0

Inserted(k, v, good) == insert_recursive(tree.nodes, tree.root, k, v, good)
AllGood == MaxNodes

\* The end of btree_insert: after a split of the root, a new root over both
\* halves; without memory for it the call gives up and returns -1.
FinishInsert(r, rootFails) ==
  LET root == Append(r.nodes, Internal(<<r.promoted_key>>, <<tree.root, r.new_node>>))
      grows == r.did_split /\ ~rootFails
      done == r.error = 0 /\ ~rootFails
  IN  /\ Len(root) <= MaxNodes
      /\ tree' = [root |-> IF grows THEN Len(root) ELSE tree.root,
                  nodes |-> IF grows THEN root ELSE r.nodes,
                  size |-> IF done THEN tree.size + 1 ELSE tree.size,
                  dirty |-> tree.dirty \/ done]
      /\ result' = IF done THEN 0 ELSE -1
      /\ UNCHANGED <<open, file, saves>>

Insert(k, v) ==
  /\ open
  /\ FinishInsert(Inserted(k, v, AllGood), FALSE)
  /\ UNCHANGED faults

\* The split after the first good ones gets no memory.
InsertSplitFails(k, v) ==
  /\ open
  /\ Fails("split")
  /\ \E good \in 0 .. MaxNodes :
       /\ good < Len(Inserted(k, v, AllGood).nodes) - Len(tree.nodes)
       /\ FinishInsert(Inserted(k, v, good), FALSE)

InsertRootFails(k, v) ==
  /\ open
  /\ Fails("root")
  /\ Inserted(k, v, AllGood).did_split
  /\ FinishInsert(Inserted(k, v, AllGood), TRUE)

btree_insert(k, v) == Insert(k, v) \/ InsertSplitFails(k, v) \/ InsertRootFails(k, v)

\* A deletion that forgets the value array.
mutDeleteAt(leaf, pos) == [leaf EXCEPT !.keys = RemoveAt(@, pos + 1),
                                       !.values = Front_(@, Len(@) - 1)]

DeleteAt(leaf, pos) == [leaf EXCEPT !.keys = RemoveAt(@, pos + 1),
                                    !.values = RemoveAt(@, pos + 1)]

Delete(k) ==
  /\ open
  /\ LET n == find_leaf(k)
         pos == key_find_exact(tree.nodes[n], k)
     IN  /\ tree' = IF pos < 0 THEN tree
                    ELSE [tree EXCEPT !.nodes[n] = DeleteAt(@, pos),
                                      !.size = @ - 1, !.dirty = TRUE]
         /\ result' = IF pos < 0 THEN -1 ELSE 0
  /\ UNCHANGED <<open, file, faults, saves>>

Update(k, v) ==
  /\ open
  /\ LET n == find_leaf(k)
         pos == key_find_exact(tree.nodes[n], k)
     IN  /\ tree' = IF pos < 0 THEN tree
                    ELSE [tree EXCEPT !.nodes[n].values[pos + 1] = v, !.dirty = TRUE]
         /\ result' = IF pos < 0 THEN -1 ELSE 0
  /\ UNCHANGED <<open, file, faults, saves>>

\* An explicit save.  Like the two callers in btree.c it saves a dirty tree: a
\* failing save of a clean one would leave the flag clear.
Save ==
  /\ open
  /\ tree.dirty
  /\ \E bad \in {"", "fopen", "write", "close"} :
       SaveWith(bad) /\ tree' = [tree EXCEPT !.dirty = btree_save(bad).dirty]
  /\ UNCHANGED <<open, result>>

\* btree_close: save what is dirty, then free the tree.
Close ==
  /\ open
  /\ \/ tree.dirty /\ \E bad \in {"", "fopen", "write", "close"} : SaveWith(bad)
     \/ ~tree.dirty /\ UNCHANGED <<file, faults, saves>>
  /\ tree' = Empty
  /\ open' = FALSE
  /\ UNCHANGED result

\* btree_open returns NULL for a file that ends too early.
Open ==
  /\ ~open
  /\ file # Torn
  /\ tree' = Loaded(file)
  /\ open' = TRUE
  /\ UNCHANGED <<file, result, faults, saves>>

Next ==
  \/ \E k \in Keys, v \in Values : btree_insert(k, v)
  \/ \E k \in Keys, v \in Values : Update(k, v)
  \/ \E k \in Keys : Delete(k)
  \/ Save
  \/ Close
  \/ Open

Spec == Init /\ [][Next]_vars
-----------------------------------------------------------------------------
(* Properties                                                              *)

RECURSIVE Leftmost(_, _)
Leftmost(nodes, n) ==
  IF nodes[n].is_leaf THEN n ELSE Leftmost(nodes, nodes[n].children[1])

\* What the leaf chain of a tree contains.
Content(t) == ToSet(Entries(t.nodes, Leftmost(t.nodes, t.root)))

\* What a program that has the index, or opens its file, works with.
Current == IF open THEN Content(tree) ELSE IF file = Torn THEN {} ELSE Content(Loaded(file))

\* The tree, the file and the counters have the shapes of btree_t, of the file
\* format and of the bounds; every child and next pointer is a node.
TypeOK ==
  /\ open \in BOOLEAN
  /\ tree.root \in DOMAIN tree.nodes /\ tree.size \in Int /\ tree.dirty \in BOOLEAN
  /\ \A n \in DOMAIN tree.nodes :
       LET node == tree.nodes[n]
       IN  /\ ToSet(node.keys) \subseteq Keys
           /\ node.is_leaf => ToSet(node.values) \subseteq Values
           /\ ToSet(node.children) \cup ({node.next} \ {NULL}) \subseteq DOMAIN tree.nodes
  /\ file = Torn \/ file.size \in Int
  /\ result \in {0, -1}
  /\ faults \subseteq FaultKinds /\ Cardinality(faults) <= MaxFaults /\ saves \in 0 .. MaxSaves

OMap == INSTANCE OrderedMap WITH content <- Current

\* btree_insert, btree_delete, btree_update, and closing and opening the index,
\* change what the leaf chain holds exactly as a map would, and answer so, also
\* when a split gets no memory, until a new root or the index file fails.
ImplementsOrderedMap ==
  OMap!Init /\ [][faults' \subseteq {"split"} => OMap!Next \/ UNCHANGED OMap!vars]_vars

\* The descent of btree_search finds every entry of the leaf chain and nothing
\* else, whatever splits and lazy deletions made of the separators, as long as
\* every new root got its memory.
SearchAgreesWithTheChain ==
  open /\ "root" \notin faults => \A k \in Keys :
    btree_search(k) = IF \E v \in Values : <<k, v>> \in Content(tree)
                      THEN CHOOSE v \in Values : <<k, v>> \in Content(tree) ELSE -1

\* btree_range_scan returns, in the order of the keys and up to max_results of
\* them, the values of exactly the keys in [low, high], likewise.
RangeScansAreExact ==
  open /\ "root" \notin faults => \A low \in Keys, high \in Keys :
    low <= high =>
      LET all == btree_range_scan(low, high, Cardinality(Keys))
      IN  /\ ToSet(all) = {e \in Content(tree) : e[1] \in low .. high}
          /\ \A i \in 1 .. Len(all) - 1 : all[i][1] < all[i + 1][1]
          /\ btree_range_scan(low, high, 1) = Front_(all, IF all = <<>> THEN 0 ELSE 1)

\* btree_size counts the entries, across failed splits and files read back, but
\* for the key of an insertion that got no memory for a new root.
SizeIsExact == open /\ "root" \notin faults => tree.size = Cardinality(Content(tree))

\* Between two calls every node has room for the key, and child, that an
\* insertion adds before it splits the node: node_create allocates order keys
\* and order + 1 children.  One failed split uses up the spare place of a node,
\* and the next insertion into the node gives it back.
NodesFitTheirArrays ==
  \A n \in DOMAIN tree.nodes :
    /\ num_keys(tree.nodes[n]) + 1 <= Order
    /\ ~tree.nodes[n].is_leaf => Len(tree.nodes[n].children) = num_keys(tree.nodes[n]) + 1

\* A tree whose dirty flag is clear is in its file, after saves that failed in
\* fopen or fwrite too: btree_close may free it without writing (btree.h: dirty
\* is "1 if unsaved changes exist").  A failing fclose or new root is not noticed.
CleanMeansSaved ==
  open /\ ~tree.dirty /\ faults \cap {"root", "close"} = {} =>
    /\ file # Torn
    /\ Content(Loaded(file)) = Content(tree) /\ file.size = tree.size

\* The tree is sound after every call: what the descent and the range scan of
\* btree.c find is what the leaf chain holds, the size counts it, and every node
\* has room for the next insertion, with splits that got no memory too.
TreeIsConsistent ==
  /\ TypeOK /\ NodesFitTheirArrays /\ SizeIsExact
  /\ SearchAgreesWithTheChain /\ RangeScansAreExact
=============================================================================
