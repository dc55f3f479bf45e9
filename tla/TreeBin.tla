------------------------------- MODULE TreeBin -------------------------------
(***************************************************************************)
(* The bitwise tries in which dlmalloc keeps its large free chunks         *)
(* (relibc/dlmalloc-rs/src/dlmalloc.rs): every node of the trie of a bin   *)
(* is the first of a ring of chunks of one size, its children hold the     *)
(* sizes that go on with a 0 and with a 1, and a node stays at any depth   *)
(* along the bits of its size.                                             *)
(*                                                                         *)
(* Dlmalloc takes these tries for a set that gives the best fit.  Sizes    *)
(* count units of malloc_alignment, in words of Width bits; which free     *)
(* chunk of memory a node is does not matter, so a chunk is a number.      *)
(***************************************************************************)
EXTENDS Naturals, FiniteSets

CONSTANTS
  Width,        \* bits of a usize
  Shift,        \* TREEBIN_SHIFT
  NTreeBins,    \* NTREEBINS
  Sizes,        \* sizes of the chunks freed
  MaxChunks     \* chunks in the tries at a time

VARIABLES
  node,         \* the TreeChunk at every chunk
  treebins,     \* the root of every bin
  treemap       \* the bins that are marked

vars == <<node, treebins, treemap>>

Null == 0
Chunk == 1..MaxChunks
Index == 0..(NTreeBins - 1)
Bin(idx) == MaxChunks + 1 + idx     \* &treebins[idx], which a root has for its parent
Large == (2^Shift)..(2^Width - 1)

(* Memory that is in no trie: insert_large_chunk writes all that is read.   *)
NoNode == [size |-> 0, index |-> 0, child |-> [b \in {0, 1} |-> Null],
           parent |-> Null, next |-> Null, prev |-> Null]

-----------------------------------------------------------------------------
compute_tree_index(size) ==
  LET x == size \div 2^Shift
      k == CHOOSE i \in 0..Width : 2^i <= x /\ x < 2^(i + 1)
  IN  IF x = 0 THEN 0
      ELSE IF 2 * k >= NTreeBins THEN NTreeBins - 1
      ELSE 2 * k + ((size \div 2^((k + Shift) - 1)) % 2)

(* Mutant: one bit of the size is skipped.                                  *)
leftshift_long(x) == IF x = NTreeBins - 1 THEN 0 ELSE Width - (((x \div 2) + Shift) - 2)

leftshift_for_tree_index(x) ==
  IF x = NTreeBins - 1 THEN 0 ELSE (Width - 1) - (((x \div 2) + Shift) - 2)

Shifted(bits, n) == (bits * 2^n) % 2^Width
TopBit(bits) == bits \div 2^(Width - 1)
FirstBits(size) == Shifted(size, leftshift_for_tree_index(compute_tree_index(size)))

-----------------------------------------------------------------------------
(* The node of this size, or the one that has no child yet where it goes.   *)
RECURSIVE Place(_, _, _)
Place(t, k, size) ==
  LET c == node[t].child[TopBit(k)]
  IN  IF node[t].size = size \/ c = Null THEN [t |-> t, side |-> TopBit(k)]
      ELSE Place(c, Shifted(k, 1), size)

insert_large_chunk(chunk, size) ==
  LET idx == compute_tree_index(size)
      new == [NoNode EXCEPT !.size = size, !.index = idx, !.next = chunk, !.prev = chunk]
      place == Place(treebins[idx], FirstBits(size), size)
      f == node[place.t].prev
  IN  IF idx \notin treemap
      THEN /\ treemap' = treemap \cup {idx}
           /\ treebins' = [treebins EXCEPT ![idx] = chunk]
           /\ node' = [node EXCEPT ![chunk] = [new EXCEPT !.parent = Bin(idx)]]
      ELSE /\ node' = IF node[place.t].size # size
                      THEN [node EXCEPT ![chunk] = [new EXCEPT !.parent = place.t],
                                        ![place.t].child[place.side] = chunk]
                      ELSE [node EXCEPT ![chunk] = [new EXCEPT !.prev = f, !.next = place.t],
                                        ![f].next = chunk,
                                        ![place.t].prev = chunk]
           /\ UNCHANGED <<treebins, treemap>>

(* Mutant: a node without a right child counts as a leaf.                   *)
RightOnly(t) == [t |-> t, side |-> 1]

(* The right child, or the left one if there is none: the parent and side.  *)
RightFirst(t) == [t |-> t, side |-> IF node[t].child[1] # Null THEN 1 ELSE 0]
At(slot) == node[slot.t].child[slot.side]

RECURSIVE LastLeaf(_)
LastLeaf(slot) ==
  IF At(slot) = Null \/ At(RightFirst(At(slot))) = Null THEN slot ELSE LastLeaf(RightFirst(At(slot)))

(* n with r in the place of chunk below parent xp, over its children.       *)
Adopt(n, xp, chunk, r) ==
  LET side == IF n[xp].child[0] = chunk THEN 0 ELSE 1
      below == IF xp \in Chunk THEN [n EXCEPT ![xp].child[side] = r] ELSE n
      kids == {b \in {0, 1} : n[chunk].child[b] # Null}
  IN  IF r = Null THEN below
      ELSE [c \in Chunk |->
             IF c = r
             THEN [below[c] EXCEPT !.parent = xp,
                     !.child = [b \in {0, 1} |-> IF b \in kids THEN n[chunk].child[b] ELSE @[b]]]
             ELSE IF \E b \in kids : c = n[chunk].child[b] THEN [below[c] EXCEPT !.parent = r]
             ELSE below[c]]

(* What takes the place of chunk: the next of its ring, or a leaf below it. *)
Detach(chunk) ==
  IF node[chunk].next # chunk
  THEN LET f == node[chunk].prev
           r == node[chunk].next
       IN  [r |-> r, node |-> [node EXCEPT ![f].next = r, ![r].prev = f]]
  ELSE LET slot == LastLeaf(RightFirst(chunk))
       IN  [r |-> At(slot), node |-> [node EXCEPT ![slot.t].child[slot.side] = Null]]

unlink_large_chunk(chunk) ==
  LET xp == node[chunk].parent
      d == Detach(chunk)
      idx == node[chunk].index
      root == xp # Null /\ treebins[idx] = chunk
  IN  /\ node' = [IF xp = Null THEN d.node ELSE Adopt(d.node, xp, chunk, d.r)
                    EXCEPT ![chunk] = NoNode]
      /\ treebins' = IF root THEN [treebins EXCEPT ![idx] = d.r] ELSE treebins
      /\ treemap' = IF root /\ d.r = Null THEN treemap \ {idx} ELSE treemap

-----------------------------------------------------------------------------
leftmost_child(t) == IF node[t].child[0] = Null THEN node[t].child[1] ELSE node[t].child[0]

(* v, or t if it fits size more closely.                                    *)
Better(v, t, size) ==
  IF node[t].size >= size /\ (v = Null \/ node[t].size < node[v].size) THEN t ELSE v

RECURSIVE LeftmostWalk(_, _, _)
LeftmostWalk(v, t, size) ==
  IF t = Null THEN v ELSE LeftmostWalk(Better(v, t, size), leftmost_child(t), size)

(* Down the bits of size; rst is the deepest right subtree not taken.       *)
RECURSIVE Down(_, _, _, _, _)
Down(v, t, rst, bits, size) ==
  LET w == Better(v, t, size)
      right == node[t].child[1]
      c == node[t].child[TopBit(bits)]
      rest == IF right # Null /\ right # c THEN right ELSE rst
  IN  IF w # Null /\ node[w].size = size THEN [v |-> w, t |-> t]
      ELSE IF c = Null THEN [v |-> w, t |-> rest]
      ELSE Down(w, c, rest, Shifted(bits, 1), size)

Root(bins) == IF bins = {} THEN Null ELSE treebins[CHOOSE i \in bins : \A j \in bins : i <= j]

(* The chunk tmalloc_large finds for size, before it looks at dv.           *)
tmalloc_large(size) ==
  LET idx == compute_tree_index(size)
      d == IF treebins[idx] = Null THEN [v |-> Null, t |-> Null]
           ELSE Down(Null, treebins[idx], Null, FirstBits(size), size)
      t == IF d.t = Null /\ d.v = Null THEN Root({i \in treemap : i > idx}) ELSE d.t
  IN  LeftmostWalk(d.v, t, size)

(* The chunk tmalloc_small splits, for any size below the large ones.       *)
tmalloc_small == LeftmostWalk(Null, Root(treemap), 0)

-----------------------------------------------------------------------------
Free == {c \in Chunk : node[c].size # 0}

Insert(c, size) ==
  /\ c \notin Free
  /\ \A b \in Chunk : b < c => b \in Free
  /\ insert_large_chunk(c, size)

Unlink(c) == c \in Free /\ unlink_large_chunk(c)

Init ==
  /\ node = [c \in Chunk |-> NoNode]
  /\ treebins = [i \in Index |-> Null]
  /\ treemap = {}

Next == \E c \in Chunk : (\E size \in Sizes : Insert(c, size)) \/ Unlink(c)

Spec == Init /\ [][Next]_vars

-----------------------------------------------------------------------------
TypeOK ==
  /\ \A c \in Chunk : /\ node[c].size \in {0} \cup Large
                      /\ node[c].parent \in {Null} \cup Chunk \cup {Bin(i) : i \in Index}
                      /\ \A b \in {0, 1} : node[c].child[b] \in {Null} \cup Chunk
  /\ treebins \in [Index -> {Null} \cup Chunk]
  /\ treemap \subseteq Index

RECURSIVE Below(_)
Below(t) == IF t = Null THEN {} ELSE {t} \cup Below(node[t].child[0]) \cup Below(node[t].child[1])

Trie == UNION {Below(treebins[i]) : i \in Index}

(* The tries hold together as chunks come and go: a bin is marked exactly   *)
(* when it has a root; every free chunk is a node of the trie of its bin or *)
(* in the ring of the node of its size; every node has the parent it hangs  *)
(* from; and the sizes below the left child are less than those below the   *)
(* right one (the assertions of check_treebin and check_tree).              *)
TriesHold ==
  /\ treemap = {i \in Index : treebins[i] # Null}
  /\ Trie \subseteq Free
  /\ \A i \in Index : \A t \in Below(treebins[i]) : node[t].index = i /\ compute_tree_index(node[t].size) = i
  /\ \A i \in treemap : node[treebins[i]].parent = Bin(i)
  /\ \A t \in Trie : \A b \in {0, 1} : node[t].child[b] # Null => node[node[t].child[b]].parent = t
  /\ \A t \in Trie : \A l \in Below(node[t].child[0]), r \in Below(node[t].child[1]) : node[l].size < node[r].size
  /\ \A c \in Free : /\ node[node[c].next].prev = c /\ node[node[c].next].size = node[c].size
                     /\ Cardinality({t \in Trie : node[t].size = node[c].size}) = 1
                     /\ c \in Trie <=> node[c].parent # Null

Least(cs) == IF cs = {} THEN 0 ELSE CHOOSE s \in {node[c].size : c \in cs} : \A c \in cs : s <= node[c].size

(* The searches give the best fit: for every large size the least free      *)
(* chunk that is large enough, for a small one the least of all, and none   *)
(* only if there is none.                                                   *)
BestFit ==
  /\ \A size \in Large : LET v == tmalloc_large(size)
                         IN  (IF v = Null THEN 0 ELSE node[v].size) = Least({c \in Free : node[c].size >= size})
  /\ Free # {} => node[tmalloc_small].size = Least(Free)
=============================================================================
