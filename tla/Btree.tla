------------------------------- MODULE Btree -------------------------------
(***************************************************************************)
(* The B-tree of btree.h, behind every index of the database: leaves in a  *)
(* doubly linked list under levels of tree nodes.  A tree node's slot      *)
(* leads to the entries up to its key, last to those after all its slots.  *)
(* Splits and the unlinking of leaves count modified up; an iterator       *)
(* trusts its leaf only as long as that has not happened (it.fresh).       *)
(* Entries are variable length (Size) and a node holds so many bytes.      *)
(***************************************************************************)
EXTENDS Integers, Sequences, FiniteSets, SequencesExt, FiniteSetsExt

CONSTANTS Keys,      \* the keys that are entered
          Size,      \* how much of a node an entry takes
          LeafCap,   \* how much a leaf holds
          TreeCap    \* how much a tree node holds

ASSUME KeysAssumption == Keys \subseteq Nat \ {0} /\ IsFiniteSet(Keys)
ASSUME SizeAssumption == \A k \in Keys : Size[k] \in Nat \ {0}
ASSUME CapAssumption == LeafCap \in Nat \ {0} /\ TreeCap \in Nat \ {0}

NIL == 0

VARIABLES node,    \* leaves and tree nodes by their address
          root,    \* root_
          levels,  \* treelevels, not counting the leaves
          nnodes,  \* the count of nodes, kept in the record of the table
          it,      \* an iterator: its leaf, its entry, and modified = valid
          failed   \* the key for which a verify() of a split failed

tree == <<node, root, levels, nnodes>>
bvars == <<tree, it, failed>>

LeafNode(s, n, p) == [slots |-> s, next |-> n, prev |-> p]
TreeNode(s, l) == [slots |-> s, last |-> l]

BInit == /\ node = [x \in {1} |-> LeafNode(<<>>, NIL, NIL)]
         /\ root = 1 /\ levels = 0 /\ nnodes = 1
         /\ it = [off |-> NIL, cur |-> NIL, fresh |-> TRUE]
         /\ failed = NIL

-----------------------------------------------------------------------------
(* Searching *)

\* lower_bound and upper_bound: positions in a leaf or among a node's keys.
LowerBound(s, k) == Min({i \in 1..Len(s) : s[i] >= k} \cup {Len(s) + 1})
UpperBound(s, k) == Min({i \in 1..Len(s) : s[i] > k} \cup {Len(s) + 1})

KeysOf(s) == [i \in DOMAIN s |-> s[i].key]

Child(t, k) == LET i == LowerBound(KeysOf(t.slots), k)
               IN  IF i <= Len(t.slots) THEN t.slots[i].adr ELSE t.last

\* The nodes from the root to the leaf where k is or would be.
Path(k) == LET p[i \in 0..levels] == IF i = 0 THEN root ELSE Child(node[p[i-1]], k)
           IN  p
LeafOf(k) == Path(k)[levels]

\* The nodes from the root down the last children.
LastPath(n) == LET down[i \in 0..levels] == IF i = 0 THEN root ELSE n[down[i-1]].last
               IN  down

Bytes(s) == FoldSeq(LAMBDA k, n : Size[k] + n, 0, s)

\* An address that nothing refers to; the file only grows.
Alloc(n) == Min(1..(Cardinality(DOMAIN n) + 2) \ (DOMAIN n \cup {it.off}))

\* f with t at x too.
Put(f, x, t) == [y \in DOMAIN f \cup {x} |-> IF y = x THEN t ELSE f[y]]

Stale == it' = [it EXCEPT !.fresh = FALSE]

-----------------------------------------------------------------------------
(* insert *)

Fits(s, k) == Bytes(s) + Size[k] <= LeafCap
TreeFits(s, k) == Bytes(KeysOf(s)) + Size[k] <= TreeCap

InsertKey(s, k) == InsertAt(s, LowerBound(s, k), k)
InsertSlot(s, k, off) == InsertAt(s, LowerBound(KeysOf(s), k), [key |-> k, adr |-> off])

\* Mutant: the percentages are the other way round.
PercentReversed(keys, k) == IF k < keys[1] THEN 25
                            ELSE IF k > keys[Len(keys)] THEN 75 ELSE 50

\* How much of a node stays on the right: less for a key at the end.
Percent(keys, k) == IF k < keys[1] THEN 75
                    ELSE IF k > keys[Len(keys)] THEN 25 ELSE 50

\* How many entries move to the new leaf on the left: until no more of it
\* remains free than the percentage.
Moves(s, k) ==
  {m \in 1..Len(s) : LeafCap - Bytes(SubSeq(s, 1, m)) <= (LeafCap * Percent(s, k)) \div 100}
Moved(s, k) == Min(Moves(s, k))

\* The leaf at off with the entry k split in two, the left half at l.
SplitLeaf(off, l, k) ==
  LET f == node[off]
      m == Moved(f.slots, k)
      lo == SubSeq(f.slots, 1, m)
      hi == SubSeq(f.slots, m + 1, Len(f.slots))
      inLeft == k <= lo[m]
      left == LeafNode(IF inLeft THEN InsertKey(lo, k) ELSE lo, off, f.prev)
      right == LeafNode(IF inLeft THEN hi ELSE InsertKey(hi, k), f.next, l)
  IN  [fits |-> IF inLeft THEN Fits(lo, k) ELSE Fits(hi, k),
       key |-> left.slots[Len(left.slots)],
       node |-> [n \in DOMAIN node \cup {l} |->
                   IF n = l THEN left ELSE IF n = off THEN right
                   ELSE IF n = f.prev THEN [node[n] EXCEPT !.next = l] ELSE node[n]]]

\* A key and the address of the node left of it go into tree node id, which
\* is split when they do not fit.  b.more: there is a key for the level above.
InsertUp(b, id) ==
  LET s == b.node[id].slots
      m == Len(s) - (Len(s) * Percent(KeysOf(s), b.key)) \div 100
      lo == SubSeq(s, 1, m)
      hi == SubSeq(s, m + 1, Len(s))
      inLeft == lo[m].key >= b.key
      left == IF inLeft THEN InsertSlot(lo, b.key, b.off) ELSE lo
      right == IF inLeft THEN hi ELSE InsertSlot(hi, b.key, b.off)
      up == left[Len(left)]
      l == Alloc(b.node)
  IN  IF ~b.more THEN b
      ELSE IF TreeFits(s, b.key)
      THEN [b EXCEPT !.node[id].slots = InsertSlot(s, b.key, b.off), !.more = FALSE]
      ELSE [more |-> TRUE, key |-> up.key, off |-> l, count |-> b.count + 1,
            fits |-> b.fits /\ s # <<>> /\ TreeFits(IF inLeft THEN lo ELSE hi, b.key),
            node |-> Put([b.node EXCEPT ![id].slots = right], l,
                         TreeNode(Front(left), up.adr))]

InsertFits(k) ==
  /\ k \notin ToSet(node[LeafOf(k)].slots)
  /\ Fits(node[LeafOf(k)].slots, k)
  /\ node' = [node EXCEPT ![LeafOf(k)].slots = InsertKey(@, k)]
  /\ UNCHANGED <<root, levels, nnodes, it, failed>>

\* What a split of the leaf for k leads to at each level, the root's last.
Split(k) ==
  LET p == Path(k)
      l == Alloc(node)
      c == SplitLeaf(p[levels], l, k)
      b[i \in 0..levels] ==
        IF i = levels
        THEN [more |-> TRUE, key |-> c.key, off |-> l, count |-> 1,
              fits |-> c.fits, node |-> c.node]
        ELSE InsertUp(b[i + 1], p[i])
  IN  b[0]

CanSplit(k) == LET s == node[LeafOf(k)].slots IN s # <<>> /\ Moves(s, k) # {}

\* Mutant: ++modified is missing.
InsertSplitsUncounted(k) ==
  /\ k \notin ToSet(node[LeafOf(k)].slots)
  /\ ~Fits(node[LeafOf(k)].slots, k)
  /\ CanSplit(k)
  /\ LET b == Split(k)
         r == Alloc(b.node)
     IN  /\ b.fits
         /\ IF b.more
            THEN /\ node' = Put(b.node, r, TreeNode(<<[key |-> b.key, adr |-> b.off]>>, root))
                 /\ root' = r
                 /\ levels' = levels + 1
                 /\ nnodes' = nnodes + b.count + 1
            ELSE /\ node' = b.node
                 /\ nnodes' = nnodes + b.count
                 /\ UNCHANGED <<root, levels>>
  /\ UNCHANGED <<it, failed>>

InsertSplits(k) ==
  /\ k \notin ToSet(node[LeafOf(k)].slots)
  /\ ~Fits(node[LeafOf(k)].slots, k)
  /\ CanSplit(k)
  /\ LET b == Split(k)
         r == Alloc(b.node)
     IN  /\ b.fits
         /\ IF b.more
            THEN /\ node' = Put(b.node, r, TreeNode(<<[key |-> b.key, adr |-> b.off]>>, root))
                 /\ root' = r
                 /\ levels' = levels + 1
                 /\ nnodes' = nnodes + b.count + 1
            ELSE /\ node' = b.node
                 /\ nnodes' = nnodes + b.count
                 /\ UNCHANGED <<root, levels>>
  /\ Stale
  /\ UNCHANGED failed

\* A verify() fails half way: the leaf has run empty before the left half is
\* full, or the entry does not fit in its half.  What the tree is then is left
\* out; the model ends.
InsertFails(k) ==
  /\ k \notin ToSet(node[LeafOf(k)].slots)
  /\ ~Fits(node[LeafOf(k)].slots, k)
  /\ node[LeafOf(k)].slots # <<>>
  /\ IF CanSplit(k) THEN ~Split(k).fits ELSE TRUE
  /\ failed' = k
  /\ UNCHANGED <<tree, it>>

-----------------------------------------------------------------------------
(* erase *)

Without(s, i) == SubSeq(s, 1, i - 1) \o SubSeq(s, i + 1, Len(s))

\* TreeNode::erase: the slot that k leads to; for last, the slot before it
\* becomes last.
EraseChild(t, k) ==
  LET n == Len(t.slots)
      i == LowerBound(KeysOf(t.slots), k)
  IN  IF n = 0 THEN TreeNode(<<>>, NIL)
      ELSE IF i > n THEN TreeNode(Front(t.slots), t.slots[n].adr)
      ELSE TreeNode(Without(t.slots, i), t.last)

EmptyTree(t) == t.slots = <<>> /\ t.last = NIL

Drop(f, S) == [x \in DOMAIN f \ S |-> f[x]]

EraseKey(k) ==
  /\ k \in ToSet(node[LeafOf(k)].slots)
  /\ Len(node[LeafOf(k)].slots) > 1 \/ levels = 0
  /\ node' = [node EXCEPT ![LeafOf(k)].slots = Without(@, LowerBound(@, k))]
  /\ UNCHANGED <<root, levels, nnodes, it, failed>>

\* Mutant: only the leaf before is told.
UnlinkNext(n, off) ==
  Drop([x \in DOMAIN n |->
          IF x # NIL /\ x = n[off].prev THEN [n[x] EXCEPT !.next = n[off].next]
          ELSE n[x]], {off})

\* LeafNode::unlink
Unlink(n, off) ==
  Drop([x \in DOMAIN n |->
          IF x # NIL /\ x = n[off].prev THEN [n[x] EXCEPT !.next = n[off].next]
          ELSE IF x # NIL /\ x = n[off].next THEN [n[x] EXCEPT !.prev = n[off].prev]
          ELSE n[x]], {off})

\* Mutant: a tree node is counted down before it is known to be empty.
EraseUpEarly(k) ==
  LET p == Path(k)
      e[i \in 0..levels] ==
        IF i = levels
        THEN [more |-> TRUE, count |-> 1, node |-> Unlink(node, p[levels])]
        ELSE LET b == e[i + 1]
                 t == EraseChild(b.node[p[i]], k)
             IN  IF ~b.more THEN b
                 ELSE IF i > 0 /\ EmptyTree(t)
                 THEN [more |-> TRUE, count |-> b.count + 1, node |-> Drop(b.node, {p[i]})]
                 ELSE [more |-> FALSE, count |-> b.count + 1,
                       node |-> [b.node EXCEPT ![p[i]] = t]]
  IN  e[0]

\* The nodes after the leaf of k has gone, and tree nodes left with nothing.
EraseUp(k) ==
  LET p == Path(k)
      e[i \in 0..levels] ==
        IF i = levels
        THEN [more |-> TRUE, count |-> 1, node |-> Unlink(node, p[levels])]
        ELSE LET b == e[i + 1]
                 t == EraseChild(b.node[p[i]], k)
             IN  IF ~b.more THEN b
                 ELSE IF i > 0 /\ EmptyTree(t)
                 THEN [more |-> TRUE, count |-> b.count + 1, node |-> Drop(b.node, {p[i]})]
                 ELSE [b EXCEPT !.more = FALSE, !.node[p[i]] = t]
  IN  e[0]

\* How many roots have only a last child.
OnlyLast(n) == Min({i \in 0..levels : i = levels \/ n[LastPath(n)[i]].slots # <<>>})

\* Roots with only a last child are skipped.
EraseLeaf(k) ==
  /\ node[LeafOf(k)].slots = <<k>> /\ levels > 0
  /\ LET e == EraseUp(k)
         down == LastPath(e.node)
         skip == OnlyLast(e.node)
     IN  /\ node' = Drop(e.node, {down[i] : i \in 0..(skip - 1)})
         /\ root' = down[skip]
         /\ levels' = levels - skip
         /\ nnodes' = nnodes - e.count - skip
  /\ Stale
  /\ UNCHANGED failed

-----------------------------------------------------------------------------
(* iterator *)

\* The entry after or before c, sequentially from the leaf at off.
After(off, c) ==
  LET s == node[off].slots
      i == UpperBound(s, c)
      n == node[off].next
  IN  IF i <= Len(s) THEN [off |-> off, cur |-> s[i], fresh |-> TRUE]
      ELSE IF n = NIL THEN [off |-> NIL, cur |-> c, fresh |-> TRUE]
      ELSE [off |-> n, cur |-> node[n].slots[1], fresh |-> TRUE]

Before(off, c) ==
  LET s == node[off].slots
      i == LowerBound(s, c)
      p == node[off].prev
  IN  IF i > 1 THEN [off |-> off, cur |-> s[i - 1], fresh |-> TRUE]
      ELSE IF p = NIL THEN [off |-> NIL, cur |-> c, fresh |-> TRUE]
      ELSE [off |-> p, cur |-> Last(node[p].slots), fresh |-> TRUE]

\* seek: on the first entry that is not less than k, or at the end.
Seek(k) ==
  LET s == node[LeafOf(k)].slots
      i == LowerBound(s, k)
  IN  IF s = <<>> THEN [it EXCEPT !.off = NIL]
      ELSE IF i <= Len(s) THEN [off |-> LeafOf(k), cur |-> s[i], fresh |-> TRUE]
      ELSE After(LeafOf(k), Last(s))

Locate(k) == /\ it' = Seek(k)
             /\ UNCHANGED <<tree, failed>>

ToLast ==
  /\ LET l == LastPath(node)[levels]
         s == node[l].slots
     IN  it' = IF s = <<>> THEN [off |-> NIL, cur |-> NIL, fresh |-> TRUE]
               ELSE [off |-> l, cur |-> Last(s), fresh |-> TRUE]
  /\ UNCHANGED <<tree, failed>>

\* Mutant: a step on from the key that seek found instead.
IncrementOn ==
  /\ it.off # NIL
  /\ LET a == IF it.fresh THEN it ELSE Seek(it.cur)
     IN  it' = IF a.off # NIL THEN After(a.off, a.cur) ELSE a
  /\ UNCHANGED <<tree, failed>>

\* operator++: when its key has gone, seek is on the next one already.
Increment ==
  /\ it.off # NIL
  /\ LET a == IF it.fresh THEN it ELSE Seek(it.cur)
     IN  it' = IF a.off # NIL /\ a.cur = it.cur THEN After(a.off, a.cur) ELSE a
  /\ UNCHANGED <<tree, failed>>

\* operator--: seek may have ended behind the last entry, at no leaf.  What
\* is then at address NIL is read as a leaf, and taken here for the end.
Decrement ==
  /\ it.off # NIL
  /\ LET a == IF it.fresh THEN it ELSE Seek(it.cur)
     IN  it' = IF a.off # NIL THEN Before(a.off, a.cur) ELSE a
  /\ UNCHANGED <<tree, failed>>

-----------------------------------------------------------------------------
BNext == /\ failed = NIL
         /\ \/ \E k \in Keys : \/ InsertFits(k) \/ InsertSplits(k) \/ InsertFails(k)
                               \/ EraseKey(k) \/ EraseLeaf(k) \/ Locate(k)
            \/ ToLast \/ Increment \/ Decrement

BSpec == BInit /\ [][BNext]_bvars

-----------------------------------------------------------------------------
Children(t) == Append([j \in DOMAIN t.slots |-> t.slots[j].adr], t.last)

\* The leaves from left to right, as the tree nodes have them, level by level.
Leaves ==
  LET row[i \in 0..levels] ==
        IF i = 0 THEN <<root>>
        ELSE FlattenSeq([j \in DOMAIN row[i-1] |-> Children(node[row[i-1][j]])])
  IN  row[levels]

Entries == UNION {ToSet(node[l].slots) : l \in ToSet(Leaves)}

BTypeOK ==
  /\ \A x \in DOMAIN node :
       \/ node[x] \in [slots : Seq(Keys), next : Nat, prev : Nat]
       \/ node[x] \in [slots : Seq([key : Keys, adr : Nat]), last : Nat]
  /\ root \in DOMAIN node /\ levels \in Nat /\ nnodes \in Nat
  /\ it \in [off : Nat, cur : Keys \cup {NIL}, fresh : BOOLEAN]
  /\ failed \in Keys \cup {NIL}

\* The list of the leaves is their order in the tree, the entries are in order
\* along it, each is where a search looks for it, and nnodes counts the nodes:
\* whatever splits, unlinked leaves and dropped roots there have been.
TreeSound ==
  LET ls == Leaves
      all == FlattenSeq([i \in DOMAIN ls |-> node[ls[i]].slots])
  IN  /\ \A i \in DOMAIN ls :
           /\ node[ls[i]].next = IF i = Len(ls) THEN NIL ELSE ls[i + 1]
           /\ node[ls[i]].prev = IF i = 1 THEN NIL ELSE ls[i - 1]
           /\ node[ls[i]].slots # <<>> \/ levels = 0
           /\ \A k \in ToSet(node[ls[i]].slots) : LeafOf(k) = ls[i]
      /\ \A i \in 1..(Len(all) - 1) : all[i] < all[i + 1]
      /\ nnodes = Cardinality(DOMAIN node)

\* An iterator that trusts its leaf is right to: its entry is in that leaf, or
\* would be if it has been erased.  So modified need not count the inserts and
\* erases that leave the nodes as they are.
FreshAtHome == it.fresh /\ it.off # NIL => LeafOf(it.cur) = it.off

\* To its users the tree is a sorted set, and its iterator is not disturbed by
\* what is inserted and erased between its steps.
Index == INSTANCE SortedIndex WITH
           EOF <- NIL, entries <- Entries,
           pos <- IF it.off = NIL THEN NIL ELSE it.cur
ImplementsIndex == Index!Spec

-----------------------------------------------------------------------------
(* What the code says of itself and does not do *)

\* btree.h:412 "verify(tleft->slots.back().key < key ? ...": after a split
\* there is room for the new entry.
SplitsFit == failed = NIL

\* btree.h:268 "get prev key sequentially": a step back goes to the entry
\* before, also when the last entry, where the iterator was, has been erased.
DecrementIsPrevious ==
  [][Decrement =>
       LET before == {k \in Entries : k < it.cur}
       IN  IF before = {} THEN it'.off = NIL
           ELSE it'.off # NIL /\ it'.cur = Max(before)]_bvars

=============================================================================
