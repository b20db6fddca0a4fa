---------------------------- MODULE BtreeProofs -----------------------------
(***************************************************************************)
(* Proofs about Btree, continued: the tree stays sound when leaves and     *)
(* the tree nodes above them go, the iterator lands on the entry it is     *)
(* to find, and the tree is a sorted set with a cursor.                    *)
(***************************************************************************)
EXTENDS BtreeSplitProofs

-----------------------------------------------------------------------------
(* The end of a leaf.  What was for the keys between its bounds is left to  *)
(* its neighbour: one of the two bounds, c, becomes the other, d.           *)

Ren(c, d, v) == IF v = c THEN d ELSE v

Ends(a, b, c, d) ==
  /\ a \in Nat /\ b \in Nat /\ a < b
  /\ (c = a /\ d = b) \/ (c = b /\ d = a)

\* T is t without its q-th slot.
Lacks(t, q, T) ==
  /\ T \in TreeNodes /\ q \in 1 .. Len(t.slots) /\ Len(T.slots) = Len(t.slots) - 1
  /\ \A i \in 1 .. Len(t.slots) - 1 :
       T.slots[i] = IF i < q THEN t.slots[i] ELSE t.slots[i + 1]

\* The i-th of some when the j-th is left out.
Past(j, i) == IF i < j THEN i ELSE i + 1

\* T is t without its j-th child.
Closed(t, T, j, a, b, c, d) ==
  /\ T \in TreeNodes /\ Keyed(T, a, b) /\ Len(T.slots) = Len(t.slots) - 1
  /\ Ends(Low(t, j, a), High(t, j, b), c, d) /\ a < c /\ c < b
  /\ \A i \in 1 .. Len(t.slots) :
       /\ Past(j, i) \in 1 .. Len(t.slots) + 1 /\ Past(j, i) # j
       /\ Kid(T, i) = Kid(t, Past(j, i))
       /\ Low(T, i, a) = Ren(c, d, Low(t, Past(j, i), a))
       /\ High(T, i, b) = Ren(c, d, High(t, Past(j, i), b))

LEMMA LacksKeyed ==
  ASSUME NEW t \in TreeNodes, NEW a \in Nat, NEW b \in Nat, Keyed(t, a, b),
         NEW q, NEW T, Lacks(t, q, T)
  PROVE  Keyed(T, a, b)
<1>1. PICK L : L = Len(t.slots)
  OBVIOUS
<1>2. L \in Nat /\ q \in 1 .. L
  BY <1>1, TreeNodeIs DEF Lacks
<1>3. /\ \A i, m \in 1 .. L : i < m => t.slots[i].key < t.slots[m].key
      /\ \A i \in 1 .. L : a < t.slots[i].key /\ t.slots[i].key < b
  BY <1>1, KeyedSays
<1>4. /\ T \in TreeNodes /\ Len(T.slots) = L - 1
      /\ \A i \in 1 .. L - 1 : T.slots[i] = t.slots[Past(q, i)]
  BY <1>1, <1>2 DEF Lacks, Past
<1>5. \A i \in 1 .. L - 1 : Past(q, i) \in 1 .. L
  BY <1>2 DEF Past
<1>6. \A i, m \in 1 .. L - 1 : i < m => Past(q, i) < Past(q, m)
  BY <1>2 DEF Past
<1>7. \A i, m \in 1 .. Len(T.slots) : i < m => T.slots[i].key < T.slots[m].key
  BY <1>3, <1>4, <1>5, <1>6
<1>8. \A i \in 1 .. Len(T.slots) : a < T.slots[i].key /\ T.slots[i].key < b
  BY <1>3, <1>4, <1>5
<1> QED
  BY <1>4, <1>7, <1>8, KeyedIf

LEMMA SlotLeaves ==
  ASSUME NEW t \in TreeNodes, NEW a \in Nat, NEW b \in Nat, a < b, Keyed(t, a, b),
         NEW j \in 1 .. Len(t.slots), NEW T, Lacks(t, j, T), T.last = t.last
  PROVE  Closed(t, T, j, a, b, t.slots[j].key, Low(t, j, a))
<1>1. PICK L, c, d : L = Len(t.slots) /\ c = t.slots[j].key /\ d = Low(t, j, a)
  OBVIOUS
<1>2. L \in Nat /\ j \in 1 .. L /\ j \in 1 .. L + 1 /\ \A i \in 1 .. L : t.slots[i].key \in Nat
  BY <1>1, TreeNodeIs
<1>3. /\ \A i, m \in 1 .. L : i < m => t.slots[i].key < t.slots[m].key
      /\ \A i \in 1 .. L : a < t.slots[i].key /\ t.slots[i].key < b
  BY <1>1, KeyedSays
<1>4. /\ T \in TreeNodes /\ Len(T.slots) = L - 1
      /\ \A i \in 1 .. L - 1 : T.slots[i] = IF i < j THEN t.slots[i] ELSE t.slots[i + 1]
  BY <1>1 DEF Lacks
<1>5. \A i \in 1 .. L : i # j => t.slots[i].key # c
  BY <1>1, <1>2, <1>3
<1>6. a < c /\ c < b /\ c \in Nat
  BY <1>1, <1>2, <1>3
<1>7. High(t, j, b) = c
  BY <1>1, <1>2 DEF High
<1>8. Ends(Low(t, j, a), High(t, j, b), c, d)
  <2>1. j \in 1 .. Len(t.slots) + 1
    BY <1>1, <1>2
  <2>2. /\ Low(t, j, a) \in Nat /\ High(t, j, b) \in Nat /\ Low(t, j, a) < High(t, j, b)
    BY <2>1, KidsInside
  <2> QED
    BY <1>1, <1>7, <2>2 DEF Ends
<1>9. ASSUME NEW i \in 1 .. L
      PROVE  /\ Past(j, i) \in 1 .. L + 1 /\ Past(j, i) # j
             /\ Kid(T, i) = Kid(t, Past(j, i))
             /\ Low(T, i, a) = Ren(c, d, Low(t, Past(j, i), a))
             /\ High(T, i, b) = Ren(c, d, High(t, Past(j, i), b))
  <2>1. CASE i < j
    <3>1. Past(j, i) = i /\ i \in 1 .. L - 1 /\ i <= L
      BY <1>2, <2>1 DEF Past
    <3>2. T.slots[i] = t.slots[i]
      BY <1>4, <2>1, <3>1
    <3>3. i # 1 => /\ i - 1 \in 1 .. L - 1 /\ i - 1 < j /\ i - 1 \in 1 .. L /\ i - 1 # j
      BY <1>2, <2>1
    <3>4. Low(T, i, a) = Low(t, i, a) /\ Low(t, i, a) # c
      BY <1>4, <1>5, <1>6, <3>3 DEF Low
    <3>5. High(T, i, b) = High(t, i, b) /\ High(t, i, b) # c
      BY <1>1, <1>2, <1>4, <1>5, <2>1, <3>1, <3>2 DEF High
    <3>6. Kid(T, i) = Kid(t, i)
      BY <1>1, <1>4, <3>1, <3>2 DEF Kid
    <3> QED
      BY <1>2, <2>1, <3>1, <3>4, <3>5, <3>6 DEF Ren
  <2>2. CASE i >= j
    <3>1. Past(j, i) = i + 1 /\ i + 1 \in 1 .. L + 1 /\ i + 1 # j /\ (i + 1) - 1 = i /\ i + 1 # 1
      BY <1>2, <2>2 DEF Past
    <3>2. Low(t, i + 1, a) = t.slots[i].key
      BY <3>1 DEF Low
    <3>3. Low(T, i, a) = Ren(c, d, Low(t, i + 1, a))
      <4>1. CASE i = j
        <5>1. Low(T, i, a) = Low(t, i, a)
          <6>1. i # 1 => i - 1 \in 1 .. L - 1 /\ i - 1 < j
            BY <1>2, <4>1
          <6> QED
            BY <1>4, <6>1 DEF Low
        <5> QED
          BY <1>1, <3>2, <4>1, <5>1 DEF Ren
      <4>2. CASE i # j
        <5>1. i - 1 \in 1 .. L - 1 /\ ~ (i - 1 < j) /\ (i - 1) + 1 = i /\ i # 1
          BY <1>2, <2>2, <4>2
        <5>2. Low(T, i, a) = t.slots[i].key
          BY <1>4, <5>1 DEF Low
        <5> QED
          BY <1>5, <3>2, <4>2, <5>2 DEF Ren
      <4> QED
        BY <4>1, <4>2
    <3>4. High(T, i, b) = Ren(c, d, High(t, i + 1, b))
      <4>1. CASE i = L
        <5>1. High(T, i, b) = b /\ High(t, i + 1, b) = b
          BY <1>1, <1>2, <1>4, <4>1 DEF High
        <5> QED
          BY <1>6, <5>1 DEF Ren
      <4>2. CASE i # L
        <5>1. i \in 1 .. L - 1 /\ ~ (i < j) /\ i + 1 \in 1 .. L
          BY <1>2, <2>2, <4>2
        <5>2. High(T, i, b) = t.slots[i + 1].key /\ High(t, i + 1, b) = t.slots[i + 1].key
          BY <1>1, <1>4, <5>1 DEF High
        <5> QED
          BY <1>5, <3>1, <5>1, <5>2 DEF Ren
      <4> QED
        BY <4>1, <4>2
    <3>5. Kid(T, i) = Kid(t, i + 1)
      <4>1. CASE i = L
        BY <1>1, <1>2, <1>4, <4>1 DEF Kid
      <4>2. CASE i # L
        <5>1. i \in 1 .. L - 1 /\ ~ (i < j) /\ i + 1 \in 1 .. L
          BY <1>2, <2>2, <4>2
        <5> QED
          BY <1>1, <1>4, <5>1 DEF Kid
      <4> QED
        BY <4>1, <4>2
    <3> QED
      BY <3>1, <3>3, <3>4, <3>5
  <2> QED
    BY <1>2, <2>1, <2>2
<1>10. Keyed(T, a, b)
  BY LacksKeyed
<1>11. Closed(t, T, j, a, b, c, d)
  BY <1>1, <1>4, <1>6, <1>8, <1>9, <1>10 DEF Closed
<1> QED
  BY <1>1, <1>11

LEMMA LastLeaves ==
  ASSUME NEW t \in TreeNodes, NEW a \in Nat, NEW b \in Nat, a < b, Keyed(t, a, b),
         NEW T, Lacks(t, Len(t.slots), T), T.last = t.slots[Len(t.slots)].adr
  PROVE  Closed(t, T, Len(t.slots) + 1, a, b, t.slots[Len(t.slots)].key, b)
<1>1. PICK L, j, c : L = Len(t.slots) /\ j = L + 1 /\ c = t.slots[L].key
  OBVIOUS
<1>2. L \in 1 .. L /\ L \in Nat /\ L # 0 /\ \A i \in 1 .. L : t.slots[i].key \in Nat
  BY <1>1, TreeNodeIs DEF Lacks
<1>3. /\ \A i, m \in 1 .. L : i < m => t.slots[i].key < t.slots[m].key
      /\ \A i \in 1 .. L : a < t.slots[i].key /\ t.slots[i].key < b
  BY <1>1, KeyedSays
<1>4. /\ T \in TreeNodes /\ Len(T.slots) = L - 1 /\ T.last = t.slots[L].adr
      /\ \A i \in 1 .. L - 1 : T.slots[i] = t.slots[i]
  BY <1>1, <1>2 DEF Lacks
<1>5. \A i \in 1 .. L : i # L => t.slots[i].key # c
  BY <1>1, <1>2, <1>3
<1>6. a < c /\ c < b /\ c \in Nat
  BY <1>1, <1>2, <1>3
<1>7. j # 1 /\ j - 1 = L /\ ~ (j <= L) /\ j \in 1 .. L + 1 /\ j \in Nat
  BY <1>1, <1>2
<1>8. Low(t, j, a) = c /\ High(t, j, b) = b
  BY <1>1, <1>7 DEF Low, High
<1>9. Ends(Low(t, j, a), High(t, j, b), c, b)
  BY <1>6, <1>8 DEF Ends
<1>10. ASSUME NEW i \in 1 .. L
       PROVE  /\ Past(j, i) \in 1 .. L + 1 /\ Past(j, i) # j
              /\ Kid(T, i) = Kid(t, Past(j, i))
              /\ Low(T, i, a) = Ren(c, b, Low(t, Past(j, i), a))
              /\ High(T, i, b) = Ren(c, b, High(t, Past(j, i), b))
  <2>1. Past(j, i) = i /\ i \in 1 .. L + 1 /\ i # j
    BY <1>1, <1>2 DEF Past
  <2>2. Low(T, i, a) = Low(t, i, a) /\ Low(t, i, a) # c
    <3>1. i # 1 => i - 1 \in 1 .. L - 1 /\ i - 1 \in 1 .. L /\ i - 1 # L
      BY <1>2
    <3> QED
      BY <1>4, <1>5, <1>6, <3>1 DEF Low
  <2>3. High(T, i, b) = Ren(c, b, High(t, i, b))
    <3>1. CASE i = L
      <4>1. High(T, i, b) = b
        BY <1>2, <1>4, <3>1 DEF High
      <4>2. High(t, i, b) = c
        BY <1>1, <1>2, <3>1 DEF High
      <4> QED
        BY <4>1, <4>2 DEF Ren
    <3>2. CASE i # L
      <4>1. i \in 1 .. L - 1
        BY <1>2, <3>2
      <4>2. High(T, i, b) = t.slots[i].key /\ High(t, i, b) = t.slots[i].key
        BY <1>1, <1>4, <4>1 DEF High
      <4> QED
        BY <1>5, <3>2, <4>2 DEF Ren
    <3> QED
      BY <3>1, <3>2
  <2>4. Kid(T, i) = Kid(t, i)
    <3>1. CASE i = L
      BY <1>1, <1>2, <1>4, <3>1 DEF Kid
    <3>2. CASE i # L
      <4>1. i \in 1 .. L - 1
        BY <1>2, <3>2
      <4> QED
        BY <1>1, <1>4, <4>1 DEF Kid
    <3> QED
      BY <3>1, <3>2
  <2> QED
    BY <2>1, <2>2, <2>3, <2>4 DEF Ren
<1>11. Keyed(T, a, b)
  BY LacksKeyed
<1>12. Closed(t, T, j, a, b, c, b)
  BY <1>1, <1>4, <1>6, <1>9, <1>10, <1>11 DEF Closed
<1> QED
  BY <1>1, <1>12

LEMMA EraseChildEmpty ==
  ASSUME NEW t \in TreeNodes, NEW k, t.slots = <<>>
  PROVE  EmptyTree(EraseChild(t, k))
BY DEF EraseChild, EmptyTree, TreeNode

LEMMA EraseChildIs ==
  ASSUME NEW t \in TreeNodes, NEW a \in Nat, NEW b \in Nat, a < b, Keyed(t, a, b),
         NEW k \in Nat, a < k, k <= b, t.slots # <<>>
  PROVE  \E j, c, d : /\ Finds(t, k, j, a, b)
                      /\ Closed(t, EraseChild(t, k), j, a, b, c, d)
<1>1. PICK L, j : L = Len(t.slots) /\ j = LowerBound(KeysOf(t.slots), k)
  OBVIOUS
<1>2. L \in Nat /\ L # 0 /\ t.slots \in Seq(Slot) /\ t.last \in Nat
  BY <1>1, TreeNodeIs
<1>3. Finds(t, k, j, a, b)
  BY <1>1, ChildIs
<1>4. j \in 1 .. L + 1
  BY <1>1, <1>3 DEF Finds
<1>5. CASE j > L
  <2>1. EraseChild(t, k) = TreeNode(Front(t.slots), t.slots[L].adr)
    BY <1>1, <1>2, <1>5 DEF EraseChild
  <2>2. PICK T : T = TreeNode(Front(t.slots), t.slots[L].adr)
    OBVIOUS
  <2>3. T.slots = SubSeq(t.slots, 1, L - 1) /\ T.last = t.slots[L].adr
    BY <1>1, <2>2 DEF TreeNode, Front
  <2>4. /\ T.slots \in Seq(Slot) /\ Len(T.slots) = L - 1
        /\ \A i \in 1 .. L - 1 : T.slots[i] = t.slots[i]
    <3>1. L - 1 \in 0 .. Len(t.slots)
      BY <1>1, <1>2
    <3> QED
      BY <1>2, <2>3, <3>1, PrefixIs
  <2>5. T \in TreeNodes
    <3>1. T.last \in Nat
      BY <1>1, <1>2, <2>3, TreeNodeIs
    <3> QED
      BY <2>2, <2>3, <2>4, <3>1 DEF TreeNode, TreeNodes
  <2>6. Lacks(t, Len(t.slots), T)
    <3>1. L \in 1 .. L /\ \A i \in 1 .. L - 1 : i < L
      BY <1>2
    <3> QED
      BY <1>1, <2>4, <2>5, <3>1 DEF Lacks
  <2>7. Closed(t, T, Len(t.slots) + 1, a, b, t.slots[Len(t.slots)].key, b)
    BY <1>1, <2>3, <2>6, LastLeaves
  <2>8. j = Len(t.slots) + 1
    BY <1>1, <1>2, <1>4, <1>5
  <2> QED
    BY <1>3, <2>1, <2>2, <2>7, <2>8
<1>6. CASE ~ (j > L)
  <2>1. EraseChild(t, k) = TreeNode(Without(t.slots, j), t.last)
    BY <1>1, <1>2, <1>6 DEF EraseChild
  <2>2. PICK T : T = TreeNode(Without(t.slots, j), t.last)
    OBVIOUS
  <2>3. T.slots = Without(t.slots, j) /\ T.last = t.last
    BY <2>2 DEF TreeNode
  <2>4. j \in 1 .. Len(t.slots)
    BY <1>1, <1>2, <1>4, <1>6
  <2>5. /\ T.slots \in Seq(Slot) /\ Len(T.slots) = Len(t.slots) - 1
        /\ \A i \in 1 .. Len(t.slots) - 1 :
             T.slots[i] = IF i < j THEN t.slots[i] ELSE t.slots[i + 1]
    <3>1. PICK s, u : s = t.slots /\ u = Without(s, j)
      OBVIOUS
    <3>2. s \in Seq(Slot) /\ j \in 1 .. Len(s)
      BY <1>2, <2>4, <3>1
    <3>3. /\ u \in Seq(Slot) /\ Len(u) = Len(s) - 1
          /\ \A i \in 1 .. Len(s) - 1 : u[i] = IF i < j THEN s[i] ELSE s[i + 1]
      BY <3>1, <3>2, WithoutIs
    <3>4. T.slots = u
      BY <2>3, <3>1
    <3> QED
      BY <3>1, <3>3, <3>4
  <2>6. T \in TreeNodes
    BY <1>2, <2>2, <2>3, <2>5 DEF TreeNode, TreeNodes
  <2>7. Lacks(t, j, T)
    BY <2>4, <2>5, <2>6 DEF Lacks
  <2>8. Closed(t, T, j, a, b, t.slots[j].key, Low(t, j, a))
    BY <2>3, <2>4, <2>7, SlotLeaves
  <2> QED
    BY <1>3, <2>1, <2>2, <2>8
<1> QED
  BY <1>5, <1>6

\* D holds a node of each height below H, all of them for the same keys.
Chain(n, D, lo, hi, ht, H, a, b) ==
  /\ D \subseteq DOMAIN n /\ \A p \in D : ht[p] < H /\ lo[p] = a /\ hi[p] = b
  /\ \A h \in 0 .. H - 1 : \E p \in D : ht[p] = h

LEMMA ChainApart ==
  ASSUME NEW lo, NEW hi, NEW ht, Maps(lo, lo, hi, ht), NEW n, NEW top \in Nat,
         Sound(n, lo, lo, hi, ht, top), NEW D, NEW H \in Nat, NEW a \in Nat, NEW b \in Nat,
         Chain(n, D, lo, hi, ht, H, a, b), NEW w \in DOMAIN n, ht[w] < H, w \notin D
  PROVE  hi[w] <= a \/ b <= lo[w]
<1>1. ht[w] \in Nat /\ lo[w] \in Nat /\ hi[w] \in Nat
  BY NodeFacts
<1>2. ht[w] \in 0 .. H - 1
  BY <1>1
<1>3. PICK p \in D : ht[p] = ht[w]
  BY <1>2 DEF Chain
<1>4. p \in DOMAIN n /\ lo[p] = a /\ hi[p] = b /\ p # w
  BY <1>3 DEF Chain
<1> QED
  BY <1>3, <1>4 DEF Sound, Disjoint

\* The bound c is d now for the nodes below height H.
Renamed(D, lo, hi, ht, H, c, d, lo2, hi2) ==
  /\ Maps(lo2, lo2, hi2, ht)
  /\ \A w \in D : IF ht[w] < H THEN lo2[w] = Ren(c, d, lo[w]) /\ hi2[w] = Ren(c, d, hi[w])
                  ELSE lo2[w] = lo[w] /\ hi2[w] = hi[w]

LEMMA RenamedExist ==
  ASSUME NEW lo, NEW hi, NEW ht, Maps(lo, lo, hi, ht), NEW D, D \subseteq Nat, NEW H,
         NEW c \in Nat, NEW d \in Nat
  PROVE  \E lo2, hi2 : Renamed(D, lo, hi, ht, H, c, d, lo2, hi2)
<1>1. PICK lo2, hi2 :
        /\ lo2 = [w \in Nat |-> IF ht[w] < H THEN Ren(c, d, lo[w]) ELSE lo[w]]
        /\ hi2 = [w \in Nat |-> IF ht[w] < H THEN Ren(c, d, hi[w]) ELSE hi[w]]
  OBVIOUS
<1>2. Maps(lo2, lo2, hi2, ht)
  BY <1>1 DEF Maps, Ren
<1>3. Renamed(D, lo, hi, ht, H, c, d, lo2, hi2)
  BY <1>1, <1>2 DEF Renamed
<1> QED
  BY <1>3

\* The nodes D have gone, leaf x of them, and y is T now.
Erased(n, x, D, y, T, n2) ==
  /\ DOMAIN n2 = DOMAIN n \ D /\ y \in DOMAIN n2 /\ n2[y] = T
  /\ \A w \in DOMAIN n2 :
       w # y => n2[w] = IF w = n[x].prev THEN [n[w] EXCEPT !.next = n[x].next]
                        ELSE IF w = n[x].next THEN [n[w] EXCEPT !.prev = n[x].prev]
                        ELSE n[w]

\* The j-th child of y has gone with all that was below it.
Gap(n, lo, hi, ht, top, D, H, a, b, c, d, x, y, j, T, lo2, hi2, n2) ==
  /\ Maps(lo, lo, hi, ht) /\ top \in Nat /\ Sound(n, lo, lo, hi, ht, top)
  /\ Chain(n, D, lo, hi, ht, H, a, b) /\ H \in Nat /\ H # 0
  /\ x \in D /\ ht[x] = 0
  /\ IsKid(n, ht, y, j, Kid(n[y], j)) /\ ht[y] = H /\ Kid(n[y], j) \in D
  /\ Closed(n[y], T, j, lo[y], hi[y], c, d)
  /\ a = Low(n[y], j, lo[y]) /\ b = High(n[y], j, hi[y])
  /\ Renamed(DOMAIN n, lo, hi, ht, H, c, d, lo2, hi2)
  /\ Erased(n, x, D, y, T, n2)

GapIs(n, lo, hi, ht, top, D, H, a, b, c, d, x, y, n2) ==
  /\ a \in Nat /\ b \in Nat /\ c \in Nat /\ d \in Nat /\ a < b
  /\ Ends(a, b, c, d)
  /\ c # 0 /\ c < INF /\ b <= INF /\ d <= INF
  /\ y \in DOMAIN n /\ lo[y] \in Nat /\ hi[y] \in Nat /\ lo[y] < c /\ c < hi[y]
  /\ lo[x] = a /\ hi[x] = b /\ x \in DOMAIN n /\ y \notin D
  /\ n[y] \in TreeNodes /\ H <= top
  /\ DOMAIN n2 = DOMAIN n \ D

LEMMA GapFacts ==
  ASSUME NEW n, NEW lo, NEW hi, NEW ht, NEW top, NEW D, NEW H, NEW a, NEW b, NEW c, NEW d,
         NEW x, NEW y, NEW j, NEW T, NEW lo2, NEW hi2, NEW n2,
         Gap(n, lo, hi, ht, top, D, H, a, b, c, d, x, y, j, T, lo2, hi2, n2)
  PROVE  GapIs(n, lo, hi, ht, top, D, H, a, b, c, d, x, y, n2)
<1>1. /\ Maps(lo, lo, hi, ht) /\ top \in Nat /\ Sound(n, lo, lo, hi, ht, top)
      /\ Ends(a, b, c, d) /\ lo[y] < c /\ c < hi[y]
      /\ y \in DOMAIN n /\ x \in DOMAIN n /\ lo[x] = a /\ hi[x] = b
      /\ ht[y] = H /\ H # 0 /\ \A p \in D : ht[p] < H
  BY DEF Gap, Closed, Chain, IsKid
<1>2. a \in Nat /\ b \in Nat /\ a < b /\ ((c = a /\ d = b) \/ (c = b /\ d = a))
  BY <1>1 DEF Ends
<1>3. c \in Nat /\ d \in Nat
  BY <1>2
<1>4. /\ lo[y] \in Nat /\ hi[y] \in Nat /\ hi[y] <= INF /\ ht[y] \in Nat /\ ht[y] <= top
      /\ ht[y] # 0 => n[y] \in TreeNodes
  BY <1>1, NodeFacts
<1>5. b <= INF
  BY <1>1, NodeFacts
<1>6. c # 0 /\ c < INF /\ d <= INF
  BY <1>1, <1>2, <1>3, <1>4, <1>5, INFType
<1>7. DOMAIN n2 = DOMAIN n \ D
  BY DEF Gap, Erased
<1>8. y \notin D
  <2> SUFFICES ASSUME y \in D PROVE FALSE
    OBVIOUS
  <2>1. ht[y] < H
    BY <1>1
  <2> QED
    BY <1>1, <1>4, <2>1
<1> QED
  BY <1>1, <1>2, <1>3, <1>4, <1>5, <1>6, <1>7, <1>8 DEF GapIs

\* A node that is left below H is on one side of the gap.
LEMMA GapSides ==
  ASSUME NEW n, NEW lo, NEW hi, NEW ht, NEW top, NEW D, NEW H, NEW a, NEW b, NEW c, NEW d,
         NEW x, NEW y, NEW j, NEW T, NEW lo2, NEW hi2, NEW n2,
         Gap(n, lo, hi, ht, top, D, H, a, b, c, d, x, y, j, T, lo2, hi2, n2),
         NEW w \in DOMAIN n, w \notin D, ht[w] < H
  PROVE  \/ /\ hi[w] <= a /\ lo[w] < a /\ lo2[w] = lo[w]
            /\ hi2[w] = IF hi[w] = a THEN d ELSE hi[w]
         \/ /\ b <= lo[w] /\ b < hi[w] /\ hi2[w] = hi[w]
            /\ lo2[w] = IF lo[w] = b THEN d ELSE lo[w]
<1>1. /\ Maps(lo, lo, hi, ht) /\ top \in Nat /\ Sound(n, lo, lo, hi, ht, top)
      /\ Chain(n, D, lo, hi, ht, H, a, b) /\ H \in Nat
      /\ Renamed(DOMAIN n, lo, hi, ht, H, c, d, lo2, hi2)
  BY DEF Gap
<1>2. a \in Nat /\ b \in Nat /\ a < b /\ ((c = a /\ d = b) \/ (c = b /\ d = a))
  <2>1. GapIs(n, lo, hi, ht, top, D, H, a, b, c, d, x, y, n2)
    BY GapFacts
  <2> QED
    BY <2>1 DEF GapIs, Ends
<1>3. hi[w] <= a \/ b <= lo[w]
  BY <1>1, <1>2, ChainApart
<1>4. lo[w] \in Nat /\ hi[w] \in Nat /\ lo[w] < hi[w]
  BY <1>1, NodeFacts
<1>5. lo2[w] = Ren(c, d, lo[w]) /\ hi2[w] = Ren(c, d, hi[w])
  BY <1>1 DEF Renamed
<1>6. CASE hi[w] <= a
  <2>1. lo[w] < a /\ lo[w] # a /\ lo[w] # b /\ hi[w] # b
    BY <1>2, <1>4, <1>6
  <2> QED
    BY <1>2, <1>5, <1>6, <2>1 DEF Ren
<1>7. CASE b <= lo[w]
  <2>1. b < hi[w] /\ hi[w] # a /\ hi[w] # b /\ lo[w] # a
    BY <1>2, <1>4, <1>7
  <2> QED
    BY <1>2, <1>5, <1>7, <2>1 DEF Ren
<1> QED
  BY <1>3, <1>6, <1>7

LEMMA GapTyped ==
  ASSUME NEW n, NEW lo, NEW hi, NEW ht, NEW top, NEW D, NEW H, NEW a, NEW b, NEW c, NEW d,
         NEW x, NEW y, NEW j, NEW T, NEW lo2, NEW hi2, NEW n2,
         Gap(n, lo, hi, ht, top, D, H, a, b, c, d, x, y, j, T, lo2, hi2, n2)
  PROVE  Typed(n2, lo2, hi2, ht, top) /\ Disjoint(n2, lo2, hi2, ht)
<1>1. /\ Maps(lo, lo, hi, ht) /\ top \in Nat /\ Sound(n, lo, lo, hi, ht, top)
      /\ Renamed(DOMAIN n, lo, hi, ht, H, c, d, lo2, hi2) /\ H \in Nat /\ H # 0 /\ ht[y] = H
      /\ Erased(n, x, D, y, T, n2) /\ T \in TreeNodes
  BY DEF Gap, Closed
<1>12. GapIs(n, lo, hi, ht, top, D, H, a, b, c, d, x, y, n2)
  BY GapFacts
<1>2. /\ a \in Nat /\ b \in Nat /\ c \in Nat /\ d \in Nat /\ a < b
      /\ (c = a /\ d = b) \/ (c = b /\ d = a)
      /\ b <= INF /\ x \in DOMAIN n /\ y \in DOMAIN n
      /\ DOMAIN n2 = DOMAIN n \ D
  BY <1>12 DEF GapIs, Ends
<1>3. a <= d /\ d <= b /\ d <= INF /\ INF \in Nat
  BY <1>2, INFType
<1>4. ASSUME NEW w \in DOMAIN n
      PROVE  /\ lo[w] \in Nat /\ hi[w] \in Nat /\ ht[w] \in Nat
             /\ lo[w] < hi[w] /\ hi[w] <= INF /\ ht[w] <= top
             /\ ht[w] = 0 => n[w] \in LeafNodes
             /\ ht[w] # 0 => n[w] \in TreeNodes
  BY <1>1, NodeFacts
<1>5. ASSUME NEW w \in DOMAIN n, ~ ht[w] < H
      PROVE  lo2[w] = lo[w] /\ hi2[w] = hi[w]
  BY <1>1, <1>5 DEF Renamed
<1>6. IsFiniteSet(DOMAIN n2) /\ DOMAIN n2 \subseteq Nat \ {0}
  <2>1. IsFiniteSet(DOMAIN n) /\ DOMAIN n \subseteq Nat \ {0}
    BY <1>1 DEF Sound, Typed
  <2> QED
    BY <1>2, <2>1, FS_Subset
<1>7. ASSUME NEW w \in DOMAIN n2
      PROVE  lo2[w] < hi2[w] /\ hi2[w] <= INF
  <2>1. w \in DOMAIN n /\ w \notin D
    BY <1>2
  <2>2. CASE ht[w] < H
    <3>1. CASE hi[w] <= a /\ lo[w] < a /\ lo2[w] = lo[w] /\ hi2[w] = IF hi[w] = a THEN d ELSE hi[w]
      BY <1>2, <1>3, <1>4, <2>1, <3>1
    <3>2. CASE b <= lo[w] /\ b < hi[w] /\ hi2[w] = hi[w] /\ lo2[w] = IF lo[w] = b THEN d ELSE lo[w]
      BY <1>2, <1>3, <1>4, <2>1, <3>2
    <3> QED
      BY <2>1, <2>2, <3>1, <3>2, GapSides
  <2>3. CASE ~ ht[w] < H
    BY <1>4, <1>5, <2>1, <2>3
  <2> QED
    BY <2>2, <2>3
<1>8. ASSUME NEW w \in DOMAIN n2
      PROVE  n2[w] \in IF ht[w] = 0 THEN LeafNodes ELSE TreeNodes
  <2>1. w \in DOMAIN n
    BY <1>2
  <2>2. CASE w = y
    BY <1>1, <2>2 DEF Erased
  <2>3. CASE w # y
    <3>1. n2[w] = IF w = n[x].prev THEN [n[w] EXCEPT !.next = n[x].next]
                  ELSE IF w = n[x].next THEN [n[w] EXCEPT !.prev = n[x].prev]
                  ELSE n[w]
      BY <1>1, <2>3 DEF Erased
    <3>2. ht[x] = 0 /\ n[x] \in LeafNodes /\ LeafSound(n, lo, hi, ht, top, x)
      BY <1>1, <1>2, NodeFacts DEF Gap
    <3>3. n[x].next \in Nat /\ n[x].prev \in Nat
      BY <3>2, LeafNodeIs
    <3>4. (w = n[x].prev \/ w = n[x].next) => ht[w] = 0
      <4>1. w # 0
        BY <1>6
      <4> QED
        BY <3>2, <4>1 DEF LeafSound, NIL
    <3>5. CASE ht[w] = 0
      <4>1. n[w] \in LeafNodes
        BY <1>4, <2>1, <3>5
      <4>2. [n[w] EXCEPT !.next = n[x].next] \in LeafNodes /\ [n[w] EXCEPT !.prev = n[x].prev] \in LeafNodes
        BY <3>3, <4>1 DEF LeafNodes
      <4> QED
        BY <3>1, <3>5, <4>1, <4>2
    <3>6. CASE ht[w] # 0
      BY <1>4, <2>1, <3>1, <3>4, <3>6
    <3> QED
      BY <3>5, <3>6
  <2> QED
    BY <2>2, <2>3
<1>9. Typed(n2, lo2, hi2, ht, top)
  <2>1. \A w \in DOMAIN n2 : ht[w] <= top
    BY <1>2, <1>4
  <2> QED
    BY <1>6, <1>7, <1>8, <2>1 DEF Typed
<1>10. ASSUME NEW v \in DOMAIN n2, NEW w \in DOMAIN n2, ht[v] = ht[w], v # w, hi[v] <= lo[w]
       PROVE  hi2[v] <= lo2[w]
  <2>1. v \in DOMAIN n /\ w \in DOMAIN n /\ v \notin D /\ w \notin D
    BY <1>2
  <2>2. /\ lo[v] \in Nat /\ hi[v] \in Nat /\ lo[w] \in Nat /\ hi[w] \in Nat
        /\ lo[v] < hi[v] /\ lo[w] < hi[w]
    BY <1>4, <2>1
  <2>3. CASE ht[v] < H
    <3>1. \/ /\ hi[v] <= a /\ lo[v] < a /\ lo2[v] = lo[v]
             /\ hi2[v] = IF hi[v] = a THEN d ELSE hi[v]
          \/ /\ b <= lo[v] /\ b < hi[v] /\ hi2[v] = hi[v]
             /\ lo2[v] = IF lo[v] = b THEN d ELSE lo[v]
      BY <2>1, <2>3, GapSides
    <3>2. \/ /\ hi[w] <= a /\ lo[w] < a /\ lo2[w] = lo[w]
             /\ hi2[w] = IF hi[w] = a THEN d ELSE hi[w]
          \/ /\ b <= lo[w] /\ b < hi[w] /\ hi2[w] = hi[w]
             /\ lo2[w] = IF lo[w] = b THEN d ELSE lo[w]
      BY <1>10, <2>1, <2>3, GapSides
    <3> QED
      BY <1>2, <1>3, <1>10, <2>2, <3>1, <3>2
  <2>4. CASE ~ ht[v] < H
    BY <1>5, <1>10, <2>1, <2>4
  <2> QED
    BY <2>3, <2>4
<1>11. Disjoint(n2, lo2, hi2, ht)
  <2>1. Disjoint(n, lo, hi, ht)
    BY <1>1 DEF Sound
  <2> QED
    BY <1>2, <1>10, <2>1 DEF Disjoint
<1> QED
  BY <1>9, <1>11

\* The neighbours of the leaf that has gone.
GapEnds(n, lo, hi, ht, a, b, d, x, lo2, hi2, n2) ==
  /\ IF b = INF THEN n[x].next = NIL
     ELSE /\ n[x].next \in DOMAIN n2 /\ ht[n[x].next] = 0
          /\ lo[n[x].next] = b /\ lo2[n[x].next] = d
  /\ IF a = 0 THEN n[x].prev = NIL
     ELSE /\ n[x].prev \in DOMAIN n2 /\ ht[n[x].prev] = 0
          /\ hi[n[x].prev] = a /\ hi2[n[x].prev] = d

LEMMA GapEndsAre ==
  ASSUME NEW n, NEW lo, NEW hi, NEW ht, NEW top, NEW D, NEW H, NEW a, NEW b, NEW c, NEW d,
         NEW x, NEW y, NEW j, NEW T, NEW lo2, NEW hi2, NEW n2,
         Gap(n, lo, hi, ht, top, D, H, a, b, c, d, x, y, j, T, lo2, hi2, n2)
  PROVE  GapEnds(n, lo, hi, ht, a, b, d, x, lo2, hi2, n2)
<1>1. /\ Maps(lo, lo, hi, ht) /\ top \in Nat /\ Sound(n, lo, lo, hi, ht, top)
      /\ H \in Nat /\ H # 0 /\ ht[x] = 0 /\ Chain(n, D, lo, hi, ht, H, a, b)
  BY DEF Gap
<1>2. GapIs(n, lo, hi, ht, top, D, H, a, b, c, d, x, y, n2)
  BY GapFacts
<1>3. /\ a \in Nat /\ b \in Nat /\ a < b /\ x \in DOMAIN n /\ lo[x] = a /\ hi[x] = b
      /\ DOMAIN n2 = DOMAIN n \ D
  BY <1>2 DEF GapIs
<1>4. LeafSound(n, lo, hi, ht, top, x)
  BY <1>1, <1>3, NodeFacts
<1>5. ASSUME NEW w \in DOMAIN n
      PROVE  lo[w] \in Nat /\ hi[w] \in Nat /\ lo[w] < hi[w]
  BY <1>1, NodeFacts
<1>6. \A w \in D : lo[w] = a /\ hi[w] = b
  BY <1>1 DEF Chain
<1>7. b = INF => n[x].next = NIL
  BY <1>3, <1>4 DEF LeafSound
<1>8. a = 0 => n[x].prev = NIL
  BY <1>3, <1>4 DEF LeafSound
<1>9. IF b = INF THEN n[x].next = NIL
       ELSE /\ n[x].next \in DOMAIN n2 /\ ht[n[x].next] = 0
            /\ lo[n[x].next] = b /\ lo2[n[x].next] = d
  <2>1. CASE b = INF
    BY <1>7, <2>1
  <2>2. CASE b # INF
    <3>1. n[x].next \in DOMAIN n /\ ht[n[x].next] = 0 /\ lo[n[x].next] = b
      BY <1>3, <1>4, <2>2 DEF LeafSound
    <3>2. PICK w : w = n[x].next
      OBVIOUS
    <3>3. w \in DOMAIN n /\ ht[w] = 0 /\ lo[w] = b /\ w \notin D
      BY <1>3, <1>6, <3>1, <3>2
    <3>4. lo2[w] = d
      <4>1. ~ (hi[w] <= a /\ lo[w] < a)
        BY <1>3, <3>3
      <4>2. ht[w] < H
        BY <1>1, <3>3
      <4> QED
        BY <3>3, <4>1, <4>2, GapSides
    <3> QED
      BY <1>3, <2>2, <3>2, <3>3, <3>4
  <2> QED
    BY <2>1, <2>2
<1>10. IF a = 0 THEN n[x].prev = NIL
       ELSE /\ n[x].prev \in DOMAIN n2 /\ ht[n[x].prev] = 0
            /\ hi[n[x].prev] = a /\ hi2[n[x].prev] = d
  <2>1. CASE a = 0
    BY <1>8, <2>1
  <2>2. CASE a # 0
    <3>1. n[x].prev \in DOMAIN n /\ ht[n[x].prev] = 0 /\ hi[n[x].prev] = a
      BY <1>3, <1>4, <2>2 DEF LeafSound
    <3>2. PICK w : w = n[x].prev
      OBVIOUS
    <3>3. w \in DOMAIN n /\ ht[w] = 0 /\ hi[w] = a /\ w \notin D
      BY <1>3, <1>6, <3>1, <3>2
    <3>4. hi2[w] = d
      <4>1. ~ (b <= lo[w] /\ b < hi[w])
        BY <1>3, <3>3
      <4>2. ht[w] < H
        BY <1>1, <3>3
      <4> QED
        BY <3>3, <4>1, <4>2, GapSides
    <3> QED
      BY <1>3, <2>2, <3>2, <3>3, <3>4
  <2> QED
    BY <2>1, <2>2
<1> QED
  BY <1>9, <1>10 DEF GapEnds

\* What the unlinking leaves of a leaf.
GapLinks(n, x, w, n2) ==
  /\ n2[w].slots = n[w].slots
  /\ n2[w].next = IF w = n[x].prev THEN n[x].next ELSE n[w].next
  /\ n2[w].prev = IF w # n[x].prev /\ w = n[x].next THEN n[x].prev ELSE n[w].prev

LEMMA GapLinksAre ==
  ASSUME NEW n, NEW lo, NEW hi, NEW ht, NEW top, NEW D, NEW H, NEW a, NEW b, NEW c, NEW d,
         NEW x, NEW y, NEW j, NEW T, NEW lo2, NEW hi2, NEW n2,
         Gap(n, lo, hi, ht, top, D, H, a, b, c, d, x, y, j, T, lo2, hi2, n2),
         NEW w \in DOMAIN n2, ht[w] = 0
  PROVE  GapLinks(n, x, w, n2) /\ n[w] \in LeafNodes /\ LeafSound(n, lo, hi, ht, top, w)
<1>1. /\ Maps(lo, lo, hi, ht) /\ top \in Nat /\ Sound(n, lo, lo, hi, ht, top)
      /\ H # 0 /\ ht[y] = H /\ Erased(n, x, D, y, T, n2)
  BY DEF Gap
<1>2. w \in DOMAIN n /\ w # y
  BY <1>1 DEF Erased
<1>3. n[w] \in LeafNodes /\ LeafSound(n, lo, hi, ht, top, w)
  BY <1>1, <1>2, NodeFacts
<1>4. n2[w] = IF w = n[x].prev THEN [n[w] EXCEPT !.next = n[x].next]
              ELSE IF w = n[x].next THEN [n[w] EXCEPT !.prev = n[x].prev]
              ELSE n[w]
  BY <1>1, <1>2 DEF Erased
<1>5. GapLinks(n, x, w, n2)
  BY <1>3, <1>4 DEF GapLinks, LeafNodes
<1> QED
  BY <1>3, <1>5

\* A leaf left of the gap.
LEMMA GapLeafBefore ==
  ASSUME NEW n, NEW lo, NEW hi, NEW ht, NEW top, NEW D, NEW H, NEW a, NEW b, NEW c, NEW d,
         NEW x, NEW y, NEW j, NEW T, NEW lo2, NEW hi2, NEW n2,
         Gap(n, lo, hi, ht, top, D, H, a, b, c, d, x, y, j, T, lo2, hi2, n2),
         NEW w \in DOMAIN n2, ht[w] = 0, hi[w] <= a, lo[w] < a, lo2[w] = lo[w],
         hi2[w] = IF hi[w] = a THEN d ELSE hi[w]
  PROVE  /\ IF hi2[w] = INF THEN n2[w].next = NIL
            ELSE n2[w].next \in DOMAIN n2 /\ ht[n2[w].next] = 0 /\ lo2[n2[w].next] = hi2[w]
         /\ IF lo2[w] = 0 THEN n2[w].prev = NIL
            ELSE n2[w].prev \in DOMAIN n2 /\ ht[n2[w].prev] = 0 /\ hi2[n2[w].prev] = lo2[w]
<1>1. /\ Maps(lo, lo, hi, ht) /\ top \in Nat /\ Sound(n, lo, lo, hi, ht, top)
      /\ H \in Nat /\ H # 0 /\ Chain(n, D, lo, hi, ht, H, a, b)
  BY DEF Gap
<1>2. GapIs(n, lo, hi, ht, top, D, H, a, b, c, d, x, y, n2)
  BY GapFacts
<1>3. /\ a \in Nat /\ b \in Nat /\ a < b /\ ((c = a /\ d = b) \/ (c = b /\ d = a))
      /\ c < INF /\ b <= INF
      /\ DOMAIN n2 = DOMAIN n \ D
  BY <1>2 DEF GapIs, Ends
<1>4. GapLinks(n, x, w, n2) /\ LeafSound(n, lo, hi, ht, top, w)
  BY GapLinksAre
<1>5. ASSUME NEW v \in DOMAIN n
      PROVE  lo[v] \in Nat /\ hi[v] \in Nat /\ lo[v] < hi[v] /\ v # 0 /\ v \in Nat
  BY <1>1, NodeFacts
<1>6. \A v \in D : lo[v] = a /\ hi[v] = b
  BY <1>1 DEF Chain
<1>7. GapEnds(n, lo, hi, ht, a, b, d, x, lo2, hi2, n2)
  BY GapEndsAre
<1>8. w \in DOMAIN n /\ lo[w] \in Nat /\ hi[w] \in Nat /\ w # 0
  BY <1>3, <1>5
<1>9. INF \in Nat
  BY INFType
<1>10. ASSUME NEW v \in DOMAIN n, ht[v] = 0, v \notin D
       PROVE  /\ lo[v] < a => lo2[v] = lo[v]
              /\ hi[v] < a => hi2[v] = hi[v]
  <2>1. CASE hi[v] <= a /\ lo[v] < a /\ lo2[v] = lo[v] /\ hi2[v] = IF hi[v] = a THEN d ELSE hi[v]
    <3>1. hi[v] < a => hi[v] # a
      BY <1>3, <1>5, <1>10
    <3> QED
      BY <2>1, <3>1
  <2>2. CASE b <= lo[v] /\ b < hi[v]
    <3>1. ~ lo[v] < a /\ ~ hi[v] < a
      BY <1>3, <1>5, <1>10, <2>2
    <3> QED
      BY <3>1
  <2>3. ht[v] < H
    BY <1>1, <1>10
  <2> QED
    BY <1>10, <2>1, <2>2, <2>3, GapSides
<1>11. ~ (w # n[x].prev /\ w = n[x].next)
  <2> SUFFICES ASSUME w = n[x].next PROVE FALSE
    OBVIOUS
  <2>1. b # INF
    BY <1>7, <1>8 DEF GapEnds, NIL
  <2>2. lo[w] = b
    BY <1>7, <2>1 DEF GapEnds
  <2> QED
    BY <1>3, <1>8, <2>2
<1>12. IF hi2[w] = INF THEN n2[w].next = NIL
       ELSE n2[w].next \in DOMAIN n2 /\ ht[n2[w].next] = 0 /\ lo2[n2[w].next] = hi2[w]
  <2>1. CASE hi[w] = a
    <3>1. a # 0
      BY <1>3, <1>8
    <3>2. PICK p : p = n[x].prev
      OBVIOUS
    <3>3. p \in DOMAIN n /\ ht[p] = 0 /\ hi[p] = a
      BY <1>3, <1>7, <3>1, <3>2 DEF GapEnds
    <3>4. For(n, lo, hi, w, a) /\ For(n, lo, hi, p, a)
      BY <1>3, <1>5, <1>8, <2>1, <3>3 DEF For
    <3>5. w = p
      BY <1>1, <1>3, <3>3, <3>4, OnlyOneFor DEF Maps
    <3>6. n2[w].next = n[x].next
      BY <1>4, <3>2, <3>5 DEF GapLinks
    <3>7. hi2[w] = d
      BY <2>1
    <3>8. CASE b = INF
      <4>1. d = INF
        BY <1>3, <3>8
      <4> QED
        BY <1>7, <3>6, <3>7, <3>8, <4>1 DEF GapEnds
    <3>9. CASE b # INF
      <4>1. d # INF
        BY <1>3, <1>9, <3>9
      <4> QED
        BY <1>7, <3>6, <3>7, <3>9, <4>1 DEF GapEnds
    <3> QED
      BY <3>8, <3>9
  <2>2. CASE hi[w] # a
    <3>1. hi[w] < a /\ hi2[w] = hi[w] /\ hi[w] # INF
      BY <1>3, <1>8, <1>9, <2>2
    <3>2. w # n[x].prev
      <4> SUFFICES ASSUME w = n[x].prev PROVE FALSE
        OBVIOUS
      <4>1. a # 0
        BY <1>3, <1>8
      <4> QED
        BY <1>7, <2>2, <4>1 DEF GapEnds
    <3>3. n2[w].next = n[w].next
      BY <1>4, <3>2 DEF GapLinks
    <3>4. PICK q : q = n[w].next
      OBVIOUS
    <3>5. q \in DOMAIN n /\ ht[q] = 0 /\ lo[q] = hi[w]
      BY <1>4, <3>1, <3>4 DEF LeafSound
    <3>6. q \notin D
      BY <1>6, <2>2, <3>5
    <3>7. lo2[q] = hi[w]
      BY <1>10, <3>1, <3>5, <3>6
    <3> QED
      BY <1>3, <3>1, <3>3, <3>4, <3>5, <3>6, <3>7
  <2> QED
    BY <2>1, <2>2
<1>13. IF lo2[w] = 0 THEN n2[w].prev = NIL
       ELSE n2[w].prev \in DOMAIN n2 /\ ht[n2[w].prev] = 0 /\ hi2[n2[w].prev] = lo2[w]
  <2>1. n2[w].prev = n[w].prev
    BY <1>4, <1>11 DEF GapLinks
  <2>2. CASE lo[w] = 0
    BY <1>4, <2>1, <2>2 DEF LeafSound
  <2>3. CASE lo[w] # 0
    <3>4. PICK q : q = n[w].prev
      OBVIOUS
    <3>5. q \in DOMAIN n /\ ht[q] = 0 /\ hi[q] = lo[w]
      BY <1>4, <2>3, <3>4 DEF LeafSound
    <3>6. q \notin D /\ hi[q] < a
      BY <1>3, <1>6, <1>8, <3>5
    <3>7. hi2[q] = lo[w]
      BY <1>10, <3>5, <3>6
    <3> QED
      BY <1>3, <2>1, <2>3, <3>4, <3>5, <3>6, <3>7
  <2> QED
    BY <2>2, <2>3
<1> QED
  BY <1>12, <1>13

\* A leaf right of the gap.
LEMMA GapLeafAfter ==
  ASSUME NEW n, NEW lo, NEW hi, NEW ht, NEW top, NEW D, NEW H, NEW a, NEW b, NEW c, NEW d,
         NEW x, NEW y, NEW j, NEW T, NEW lo2, NEW hi2, NEW n2,
         Gap(n, lo, hi, ht, top, D, H, a, b, c, d, x, y, j, T, lo2, hi2, n2),
         NEW w \in DOMAIN n2, ht[w] = 0, b <= lo[w], b < hi[w], hi2[w] = hi[w],
         lo2[w] = IF lo[w] = b THEN d ELSE lo[w]
  PROVE  /\ IF hi2[w] = INF THEN n2[w].next = NIL
            ELSE n2[w].next \in DOMAIN n2 /\ ht[n2[w].next] = 0 /\ lo2[n2[w].next] = hi2[w]
         /\ IF lo2[w] = 0 THEN n2[w].prev = NIL
            ELSE n2[w].prev \in DOMAIN n2 /\ ht[n2[w].prev] = 0 /\ hi2[n2[w].prev] = lo2[w]
<1>1. /\ Maps(lo, lo, hi, ht) /\ top \in Nat /\ Sound(n, lo, lo, hi, ht, top)
      /\ H \in Nat /\ H # 0 /\ Chain(n, D, lo, hi, ht, H, a, b)
  BY DEF Gap
<1>2. GapIs(n, lo, hi, ht, top, D, H, a, b, c, d, x, y, n2)
  BY GapFacts
<1>3. /\ a \in Nat /\ b \in Nat /\ a < b /\ ((c = a /\ d = b) \/ (c = b /\ d = a))
      /\ c < INF /\ c # 0 /\ b <= INF
      /\ DOMAIN n2 = DOMAIN n \ D
  BY <1>2 DEF GapIs, Ends
<1>4. GapLinks(n, x, w, n2) /\ LeafSound(n, lo, hi, ht, top, w)
  BY GapLinksAre
<1>5. ASSUME NEW v \in DOMAIN n
      PROVE  /\ lo[v] \in Nat /\ hi[v] \in Nat /\ lo[v] < hi[v] /\ hi[v] <= INF
             /\ v # 0 /\ v \in Nat
  BY <1>1, NodeFacts
<1>6. \A v \in D : lo[v] = a /\ hi[v] = b
  BY <1>1 DEF Chain
<1>7. GapEnds(n, lo, hi, ht, a, b, d, x, lo2, hi2, n2)
  BY GapEndsAre
<1>8. w \in DOMAIN n /\ lo[w] \in Nat /\ hi[w] \in Nat /\ w # 0 /\ hi[w] <= INF
  BY <1>3, <1>5
<1>9. INF \in Nat /\ b < INF
  BY <1>3, <1>8, INFType
<1>10. ASSUME NEW v \in DOMAIN n, ht[v] = 0, v \notin D
       PROVE  /\ b < lo[v] => lo2[v] = lo[v]
              /\ b < hi[v] => hi2[v] = hi[v]
  <2>1. CASE b <= lo[v] /\ b < hi[v] /\ hi2[v] = hi[v] /\ lo2[v] = IF lo[v] = b THEN d ELSE lo[v]
    <3>1. b < lo[v] => lo[v] # b
      BY <1>3, <1>5, <1>10
    <3> QED
      BY <2>1, <3>1
  <2>2. CASE hi[v] <= a /\ lo[v] < a
    <3>1. ~ b < lo[v] /\ ~ b < hi[v]
      BY <1>3, <1>5, <1>10, <2>2
    <3> QED
      BY <3>1
  <2>3. ht[v] < H
    BY <1>1, <1>10
  <2> QED
    BY <1>10, <2>1, <2>2, <2>3, GapSides
<1>11. w # n[x].prev
  <2> SUFFICES ASSUME w = n[x].prev PROVE FALSE
    OBVIOUS
  <2>1. a # 0
    BY <1>7, <1>8 DEF GapEnds, NIL
  <2>2. hi[w] = a
    BY <1>7, <2>1 DEF GapEnds
  <2> QED
    BY <1>3, <1>8, <2>2
<1>12. IF lo2[w] = 0 THEN n2[w].prev = NIL
       ELSE n2[w].prev \in DOMAIN n2 /\ ht[n2[w].prev] = 0 /\ hi2[n2[w].prev] = lo2[w]
  <2>1. CASE lo[w] = b
    <3>1. b # INF
      BY <1>3, <1>9
    <3>2. PICK p : p = n[x].next
      OBVIOUS
    <3>3. p \in DOMAIN n /\ ht[p] = 0 /\ lo[p] = b
      BY <1>3, <1>7, <3>1, <3>2 DEF GapEnds
    <3>4. For(n, lo, hi, w, b + 1) /\ For(n, lo, hi, p, b + 1)
      <4>1. lo[p] \in Nat /\ hi[p] \in Nat /\ lo[p] < hi[p]
        BY <1>5, <3>3
      <4>2. b < b + 1 /\ b + 1 <= hi[w] /\ b + 1 <= hi[p]
        BY <1>3, <1>8, <3>3, <4>1
      <4> QED
        BY <1>8, <2>1, <3>3, <4>2 DEF For
    <3>5. w = p
      <4>1. b + 1 \in Nat
        BY <1>3
      <4> QED
        BY <1>1, <3>3, <3>4, <4>1, OnlyOneFor DEF Maps
    <3>6. n2[w].prev = n[x].prev
      BY <1>4, <1>11, <3>2, <3>5 DEF GapLinks
    <3>7. lo2[w] = d
      BY <2>1
    <3>8. CASE a = 0
      <4>1. d = 0
        BY <1>3, <3>8
      <4> QED
        BY <1>7, <3>6, <3>7, <3>8, <4>1 DEF GapEnds
    <3>9. CASE a # 0
      <4>1. d # 0
        BY <1>3, <3>9
      <4> QED
        BY <1>7, <3>6, <3>7, <3>9, <4>1 DEF GapEnds
    <3> QED
      BY <3>8, <3>9
  <2>2. CASE lo[w] # b
    <3>1. b < lo[w] /\ lo2[w] = lo[w] /\ lo[w] # 0
      BY <1>3, <1>8, <2>2
    <3>2. w # n[x].next
      <4> SUFFICES ASSUME w = n[x].next PROVE FALSE
        OBVIOUS
      <4>1. b # INF
        BY <1>3, <1>9
      <4> QED
        BY <1>7, <2>2, <4>1 DEF GapEnds
    <3>3. n2[w].prev = n[w].prev
      BY <1>4, <3>2 DEF GapLinks
    <3>4. PICK q : q = n[w].prev
      OBVIOUS
    <3>5. q \in DOMAIN n /\ ht[q] = 0 /\ hi[q] = lo[w]
      BY <1>4, <3>1, <3>4 DEF LeafSound
    <3>6. q \notin D
      BY <1>6, <2>2, <3>5
    <3>7. hi2[q] = lo[w]
      BY <1>10, <3>1, <3>5, <3>6
    <3> QED
      BY <1>3, <3>1, <3>3, <3>4, <3>5, <3>6, <3>7
  <2> QED
    BY <2>1, <2>2
<1>13. IF hi2[w] = INF THEN n2[w].next = NIL
       ELSE n2[w].next \in DOMAIN n2 /\ ht[n2[w].next] = 0 /\ lo2[n2[w].next] = hi2[w]
  <2>1. n2[w].next = n[w].next
    BY <1>4, <1>11 DEF GapLinks
  <2>2. CASE hi[w] = INF
    BY <1>4, <2>1, <2>2 DEF LeafSound
  <2>3. CASE hi[w] # INF
    <3>4. PICK q : q = n[w].next
      OBVIOUS
    <3>5. q \in DOMAIN n /\ ht[q] = 0 /\ lo[q] = hi[w]
      BY <1>4, <2>3, <3>4 DEF LeafSound
    <3>6. q \notin D /\ b < lo[q]
      BY <1>3, <1>6, <1>8, <3>5
    <3>7. lo2[q] = hi[w]
      BY <1>10, <3>5, <3>6
    <3> QED
      BY <1>3, <2>1, <2>3, <3>4, <3>5, <3>6, <3>7
  <2> QED
    BY <2>2, <2>3
<1> QED
  BY <1>12, <1>13

LEMMA GapLeaf ==
  ASSUME NEW n, NEW lo, NEW hi, NEW ht, NEW top, NEW D, NEW H, NEW a, NEW b, NEW c, NEW d,
         NEW x, NEW y, NEW j, NEW T, NEW lo2, NEW hi2, NEW n2,
         Gap(n, lo, hi, ht, top, D, H, a, b, c, d, x, y, j, T, lo2, hi2, n2),
         NEW w \in DOMAIN n2, ht[w] = 0
  PROVE  LeafSound(n2, lo2, hi2, ht, top, w)
<1>1. Maps(lo, lo, hi, ht) /\ top \in Nat /\ Sound(n, lo, lo, hi, ht, top) /\ H \in Nat /\ H # 0
  BY DEF Gap
<1>2. GapIs(n, lo, hi, ht, top, D, H, a, b, c, d, x, y, n2)
  BY GapFacts
<1>3. /\ a \in Nat /\ b \in Nat /\ d \in Nat /\ a <= d /\ d <= b
      /\ DOMAIN n2 = DOMAIN n \ D
  <2>1. a \in Nat /\ b \in Nat /\ a < b /\ ((c = a /\ d = b) \/ (c = b /\ d = a))
    BY <1>2 DEF GapIs, Ends
  <2>2. DOMAIN n2 = DOMAIN n \ D
    BY <1>2 DEF GapIs
  <2> QED
    BY <2>1, <2>2
<1>4. w \in DOMAIN n /\ w \notin D /\ ht[w] < H
  BY <1>1, <1>3
<1>5. lo[w] \in Nat /\ hi[w] \in Nat
  BY <1>1, <1>4, NodeFacts
<1>6. GapLinks(n, x, w, n2) /\ n[w] \in LeafNodes /\ LeafSound(n, lo, hi, ht, top, w)
  BY GapLinksAre
<1>7. \/ /\ hi[w] <= a /\ lo[w] < a /\ lo2[w] = lo[w]
         /\ hi2[w] = IF hi[w] = a THEN d ELSE hi[w]
      \/ /\ b <= lo[w] /\ b < hi[w] /\ hi2[w] = hi[w]
         /\ lo2[w] = IF lo[w] = b THEN d ELSE lo[w]
  BY <1>4, GapSides
<1>8. lo2[w] \in Nat /\ hi2[w] \in Nat /\ lo2[w] <= lo[w] /\ hi[w] <= hi2[w]
  BY <1>3, <1>5, <1>7
<1>9. Within(n2[w].slots, lo2[w], hi2[w])
  <2>1. PICK s : s = n[w].slots
    OBVIOUS
  <2>2. s \in Seq(Keys) /\ Within(s, lo[w], hi[w])
    BY <1>6, <2>1, LeafNodeIs DEF LeafSound
  <2>3. \A i \in DOMAIN s : s[i] \in Nat
    BY <2>2, SeqOfKeys, MembersAre
  <2>4. Within(s, lo2[w], hi2[w])
    BY <1>5, <1>8, <2>2, <2>3 DEF Within
  <2> QED
    BY <1>6, <2>1, <2>4 DEF GapLinks
<1>10. Increasing(n2[w].slots) /\ (n2[w].slots # <<>> \/ top = 0)
  BY <1>6 DEF GapLinks, LeafSound
<1>11. /\ IF hi2[w] = INF THEN n2[w].next = NIL
          ELSE n2[w].next \in DOMAIN n2 /\ ht[n2[w].next] = 0 /\ lo2[n2[w].next] = hi2[w]
       /\ IF lo2[w] = 0 THEN n2[w].prev = NIL
          ELSE n2[w].prev \in DOMAIN n2 /\ ht[n2[w].prev] = 0 /\ hi2[n2[w].prev] = lo2[w]
  <2>1. CASE /\ hi[w] <= a /\ lo[w] < a /\ lo2[w] = lo[w]
             /\ hi2[w] = IF hi[w] = a THEN d ELSE hi[w]
    BY <2>1, GapLeafBefore
  <2>2. CASE /\ b <= lo[w] /\ b < hi[w] /\ hi2[w] = hi[w]
             /\ lo2[w] = IF lo[w] = b THEN d ELSE lo[w]
    BY <2>2, GapLeafAfter
  <2> QED
    BY <1>7, <2>1, <2>2
<1> QED
  BY <1>9, <1>10, <1>11 DEF LeafSound

\* Of the nodes that have gone only y had one as a child.
LEMMA GapOnlyKid ==
  ASSUME NEW n, NEW lo, NEW hi, NEW ht, NEW top, NEW D, NEW H, NEW a, NEW b, NEW c, NEW d,
         NEW x, NEW y, NEW j, NEW T, NEW lo2, NEW hi2, NEW n2,
         Gap(n, lo, hi, ht, top, D, H, a, b, c, d, x, y, j, T, lo2, hi2, n2),
         NEW w, NEW i, NEW u \in D, IsKid(n, ht, w, i, u), ht[w] = H
  PROVE  w = y /\ i = j
<1>1. /\ Maps(lo, lo, hi, ht) /\ top \in Nat /\ Sound(n, lo, lo, hi, ht, top)
      /\ Chain(n, D, lo, hi, ht, H, a, b) /\ ht[y] = H
      /\ IsKid(n, ht, y, j, Kid(n[y], j)) /\ Kid(n[y], j) \in D
  BY DEF Gap
<1>2. GapIs(n, lo, hi, ht, top, D, H, a, b, c, d, x, y, n2)
  BY GapFacts
<1>3. a \in Nat /\ b \in Nat /\ a < b
  BY <1>2 DEF GapIs
<1>5. PICK v : v = Kid(n[y], j)
  OBVIOUS
<1>6. IsKid(n, ht, w, i, u) /\ IsKid(n, ht, y, j, v) /\ u \in D /\ v \in D
  BY <1>1, <1>5
<1>7. ht[w] = ht[u] + 1 /\ ht[u] \in Nat /\ u \in DOMAIN n
  BY <1>1, <1>6, KidIs
<1>8. ht[y] = ht[v] + 1 /\ ht[v] \in Nat /\ v \in DOMAIN n
  BY <1>1, <1>6, KidIs
<1>9. lo[u] = a /\ hi[u] = b /\ lo[v] = a /\ hi[v] = b
  BY <1>1, <1>6 DEF Chain
<1>10. For(n, lo, hi, u, b) /\ For(n, lo, hi, v, b)
  BY <1>3, <1>7, <1>8, <1>9 DEF For
<1>11. ht[u] = ht[v]
  BY <1>1, <1>7, <1>8
<1>12. u = v
  BY <1>1, <1>3, <1>10, <1>11, OnlyOneFor DEF Maps
<1>13. IsKid(n, ht, y, j, u)
  BY <1>6, <1>12
<1> QED
  BY <1>1, <1>6, <1>13, OneParent DEF Maps

\* A kid of w as the tree now has it.
KidNow(t, i, n2, lo2, hi2, ht, w) ==
  /\ Kid(t, i) \in DOMAIN n2 /\ ht[Kid(t, i)] + 1 = ht[w]
  /\ lo2[Kid(t, i)] = Low(t, i, lo2[w]) /\ hi2[Kid(t, i)] = High(t, i, hi2[w])

KidWas(t, i, n, lo, hi, ht, w, z) ==
  /\ z = Kid(t, i) /\ z \in DOMAIN n /\ ht[z] + 1 = ht[w] /\ ht[z] \in Nat
  /\ lo[z] = Low(t, i, lo[w]) /\ hi[z] = High(t, i, hi[w])
  /\ lo[z] \in Nat /\ hi[z] \in Nat /\ lo[z] < hi[z]
  /\ lo[w] <= lo[z] /\ hi[z] <= hi[w]
  /\ i = 1 => lo[z] = lo[w]
  /\ i # 1 => lo[w] < lo[z]
  /\ i <= Len(t.slots) => hi[z] < hi[w]
  /\ ~ (i <= Len(t.slots)) => hi[z] = hi[w]

LEMMA KidWasIs ==
  ASSUME NEW lo, NEW hi, NEW ht, Maps(lo, lo, hi, ht), NEW n, NEW top \in Nat,
         Sound(n, lo, lo, hi, ht, top), NEW w \in DOMAIN n, ht[w] # 0,
         NEW i \in 1 .. Len(n[w].slots) + 1
  PROVE  \E z : IsKid(n, ht, w, i, z) /\ KidWas(n[w], i, n, lo, hi, ht, w, z)
<1>1. /\ lo[w] \in Nat /\ hi[w] \in Nat /\ ht[w] \in Nat /\ lo[w] < hi[w]
      /\ n[w] \in TreeNodes /\ KidsSound(n, lo, lo, hi, ht, w)
  BY NodeFacts
<1>2. PICK t : t = n[w]
  OBVIOUS
<1>3. t \in TreeNodes /\ Keyed(t, lo[w], hi[w]) /\ i \in 1 .. Len(t.slots) + 1
  BY <1>1, <1>2 DEF KidsSound
<1>4. PICK z : z = Kid(t, i)
  OBVIOUS
<1>5. /\ z \in DOMAIN n /\ ht[z] + 1 = ht[w]
      /\ lo[z] = Low(t, i, lo[w]) /\ hi[z] = High(t, i, hi[w])
  BY <1>1, <1>2, <1>3, <1>4 DEF KidsSound
<1>6. lo[z] \in Nat /\ hi[z] \in Nat /\ ht[z] \in Nat /\ lo[z] < hi[z]
  BY <1>5, NodeFacts
<1>7. lo[w] <= lo[z] /\ hi[z] <= hi[w]
  BY <1>1, <1>3, <1>5, KidsInside
<1>8. /\ Len(t.slots) \in Nat
      /\ \A q \in 1 .. Len(t.slots) : lo[w] < t.slots[q].key /\ t.slots[q].key < hi[w]
  BY <1>3, TreeNodeIs, KeyedSays
<1>9. /\ i = 1 => lo[z] = lo[w]
      /\ i # 1 => lo[w] < lo[z]
  <2>1. i # 1 => i - 1 \in 1 .. Len(t.slots)
    BY <1>3, <1>8
  <2> QED
    BY <1>5, <1>8, <2>1 DEF Low
<1>10. /\ i <= Len(t.slots) => hi[z] < hi[w]
       /\ ~ (i <= Len(t.slots)) => hi[z] = hi[w]
  <2>1. i <= Len(t.slots) => i \in 1 .. Len(t.slots)
    BY <1>3, <1>8
  <2> QED
    BY <1>5, <1>8, <2>1 DEF High
<1>11. IsKid(n, ht, w, i, z)
  BY <1>2, <1>4 DEF IsKid
<1>12. KidWas(t, i, n, lo, hi, ht, w, z)
  BY <1>4, <1>5, <1>6, <1>7, <1>9, <1>10 DEF KidWas
<1> QED
  BY <1>2, <1>11, <1>12

LEMMA GapBelow ==
  ASSUME NEW n, NEW lo, NEW hi, NEW ht, NEW top, NEW D, NEW H, NEW a, NEW b, NEW c, NEW d,
         NEW x, NEW y, NEW j, NEW T, NEW lo2, NEW hi2, NEW n2,
         Gap(n, lo, hi, ht, top, D, H, a, b, c, d, x, y, j, T, lo2, hi2, n2),
         NEW w \in DOMAIN n2, ht[w] # 0, ht[w] < H, NEW i \in 1 .. Len(n[w].slots) + 1
  PROVE  KidNow(n[w], i, n2, lo2, hi2, ht, w)
<1>1. /\ Maps(lo, lo, hi, ht) /\ top \in Nat /\ Sound(n, lo, lo, hi, ht, top)
      /\ H \in Nat /\ Chain(n, D, lo, hi, ht, H, a, b)
  BY DEF Gap
<1>2. GapIs(n, lo, hi, ht, top, D, H, a, b, c, d, x, y, n2)
  BY GapFacts
<1>3. a \in Nat /\ b \in Nat /\ a < b /\ DOMAIN n2 = DOMAIN n \ D
  BY <1>2 DEF GapIs
<1>4. w \in DOMAIN n /\ w \notin D
  BY <1>3
<1>5. PICK t : t = n[w]
  OBVIOUS
<1>6. PICK z : KidWas(t, i, n, lo, hi, ht, w, z)
  BY <1>1, <1>4, <1>5, KidWasIs
<1>7. /\ z = Kid(t, i) /\ z \in DOMAIN n /\ ht[z] + 1 = ht[w] /\ ht[z] \in Nat
      /\ lo[z] = Low(t, i, lo[w]) /\ hi[z] = High(t, i, hi[w])
  BY <1>6 DEF KidWas
<1>8. /\ lo[z] \in Nat /\ hi[z] \in Nat /\ lo[z] < hi[z]
      /\ lo[w] <= lo[z] /\ hi[z] <= hi[w]
      /\ i = 1 => lo[z] = lo[w]
      /\ i # 1 => lo[w] < lo[z]
      /\ i <= Len(t.slots) => hi[z] < hi[w]
      /\ ~ (i <= Len(t.slots)) => hi[z] = hi[w]
  BY <1>6 DEF KidWas
<1>9. lo[w] \in Nat /\ hi[w] \in Nat /\ ht[w] \in Nat
  BY <1>1, <1>4, NodeFacts
<1>10. \/ /\ hi[w] <= a /\ lo[w] < a /\ lo2[w] = lo[w]
          /\ hi2[w] = IF hi[w] = a THEN d ELSE hi[w]
       \/ /\ b <= lo[w] /\ b < hi[w] /\ hi2[w] = hi[w]
          /\ lo2[w] = IF lo[w] = b THEN d ELSE lo[w]
  BY <1>4, GapSides
<1>11. z \notin D
  <2> SUFFICES ASSUME z \in D PROVE FALSE
    OBVIOUS
  <2>1. lo[z] = a /\ hi[z] = b
    BY <1>1 DEF Chain
  <2> QED
    BY <1>3, <1>8, <1>9, <1>10, <2>1
<1>12. ht[z] < H
  BY <1>1, <1>7, <1>9
<1>13. \/ /\ hi[z] <= a /\ lo[z] < a /\ lo2[z] = lo[z]
          /\ hi2[z] = IF hi[z] = a THEN d ELSE hi[z]
       \/ /\ b <= lo[z] /\ b < hi[z] /\ hi2[z] = hi[z]
          /\ lo2[z] = IF lo[z] = b THEN d ELSE lo[z]
  BY <1>7, <1>11, <1>12, GapSides
<1>14. lo2[z] = Low(t, i, lo2[w])
  <2>1. CASE i = 1
    <3>1. lo2[z] = lo2[w]
      BY <1>3, <1>8, <1>9, <1>10, <1>13, <2>1
    <3> QED
      BY <2>1, <3>1 DEF Low
  <2>2. CASE i # 1
    <3>2. b <= lo[z] => lo[z] # b
      <4> SUFFICES ASSUME lo[z] = b PROVE FALSE
        OBVIOUS
      <4>1. lo[w] < b /\ b < hi[w]
        BY <1>8, <1>9, <2>2
      <4> QED
        BY <1>3, <1>9, <1>10, <4>1
    <3>1. lo2[z] = lo[z]
      BY <1>13, <3>2
    <3> QED
      BY <1>7, <2>2, <3>1 DEF Low
  <2> QED
    BY <2>1, <2>2
<1>15. hi2[z] = High(t, i, hi2[w])
  <2>1. CASE ~ (i <= Len(t.slots))
    <3>1. hi2[z] = hi2[w]
      BY <1>3, <1>8, <1>9, <1>10, <1>13, <2>1
    <3> QED
      BY <2>1, <3>1 DEF High
  <2>2. CASE i <= Len(t.slots)
    <3>2. hi[z] <= a => hi[z] # a
      <4> SUFFICES ASSUME hi[z] = a PROVE FALSE
        OBVIOUS
      <4>1. lo[w] < a /\ a < hi[w]
        BY <1>8, <1>9, <2>2
      <4> QED
        BY <1>3, <1>9, <1>10, <4>1
    <3>1. hi2[z] = hi[z]
      BY <1>13, <3>2
    <3> QED
      BY <1>7, <2>2, <3>1 DEF High
  <2> QED
    BY <2>1, <2>2
<1> QED
  BY <1>3, <1>5, <1>7, <1>11, <1>14, <1>15 DEF KidNow

LEMMA GapBeside ==
  ASSUME NEW n, NEW lo, NEW hi, NEW ht, NEW top, NEW D, NEW H, NEW a, NEW b, NEW c, NEW d,
         NEW x, NEW y, NEW j, NEW T, NEW lo2, NEW hi2, NEW n2,
         Gap(n, lo, hi, ht, top, D, H, a, b, c, d, x, y, j, T, lo2, hi2, n2),
         NEW w \in DOMAIN n2, ht[w] = H, w # y, NEW i \in 1 .. Len(n[w].slots) + 1
  PROVE  KidNow(n[w], i, n2, lo2, hi2, ht, w)
<1>1. /\ Maps(lo, lo, hi, ht) /\ top \in Nat /\ Sound(n, lo, lo, hi, ht, top)
      /\ H \in Nat /\ H # 0 /\ ht[y] = H
      /\ Renamed(DOMAIN n, lo, hi, ht, H, c, d, lo2, hi2)
  BY DEF Gap
<1>2. GapIs(n, lo, hi, ht, top, D, H, a, b, c, d, x, y, n2)
  BY GapFacts
<1>3. /\ c \in Nat /\ lo[y] \in Nat /\ hi[y] \in Nat /\ lo[y] < c /\ c < hi[y]
      /\ y \in DOMAIN n /\ DOMAIN n2 = DOMAIN n \ D
  BY <1>2 DEF GapIs
<1>4. w \in DOMAIN n /\ w \notin D
  BY <1>3
<1>5. PICK t : t = n[w]
  OBVIOUS
<1>16. PICK z : IsKid(n, ht, w, i, z) /\ KidWas(t, i, n, lo, hi, ht, w, z)
  BY <1>1, <1>4, <1>5, KidWasIs
<1>7. /\ z = Kid(t, i) /\ z \in DOMAIN n /\ ht[z] + 1 = ht[w] /\ ht[z] \in Nat
      /\ lo[z] = Low(t, i, lo[w]) /\ hi[z] = High(t, i, hi[w])
      /\ lo[z] \in Nat /\ hi[z] \in Nat /\ lo[z] < hi[z]
      /\ lo[w] <= lo[z] /\ hi[z] <= hi[w]
  BY <1>16 DEF KidWas
<1>8. lo[w] \in Nat /\ hi[w] \in Nat
  BY <1>1, <1>4, NodeFacts
<1>9. hi[w] <= lo[y] \/ hi[y] <= lo[w]
  <2>1. Disjoint(n, lo, hi, ht)
    BY <1>1 DEF Sound
  <2> QED
    BY <1>1, <1>3, <1>4, <2>1 DEF Disjoint
<1>10. lo[z] # c /\ hi[z] # c
  <2>1. CASE hi[w] <= lo[y]
    <3>1. hi[z] < c
      BY <1>3, <1>7, <1>8, <2>1
    <3> QED
      BY <1>3, <1>7, <3>1
  <2>2. CASE hi[y] <= lo[w]
    <3>1. c < lo[z]
      BY <1>3, <1>7, <1>8, <2>2
    <3> QED
      BY <1>3, <1>7, <3>1
  <2> QED
    BY <1>9, <2>1, <2>2
<1>11. z \notin D
  <2> SUFFICES ASSUME z \in D PROVE FALSE
    OBVIOUS
  <2>1. w = y /\ i = j
    BY <1>16, GapOnlyKid
  <2> QED
    BY <2>1
<1>12. ht[z] < H
  BY <1>1, <1>7
<1>13. lo2[z] = lo[z] /\ hi2[z] = hi[z]
  BY <1>1, <1>7, <1>10, <1>12 DEF Renamed, Ren
<1>14. lo2[w] = lo[w] /\ hi2[w] = hi[w]
  BY <1>1, <1>4 DEF Renamed
<1> QED
  BY <1>3, <1>5, <1>7, <1>11, <1>13, <1>14 DEF KidNow

LEMMA GapAbove ==
  ASSUME NEW n, NEW lo, NEW hi, NEW ht, NEW top, NEW D, NEW H, NEW a, NEW b, NEW c, NEW d,
         NEW x, NEW y, NEW j, NEW T, NEW lo2, NEW hi2, NEW n2,
         Gap(n, lo, hi, ht, top, D, H, a, b, c, d, x, y, j, T, lo2, hi2, n2),
         NEW w \in DOMAIN n2, ht[w] > H, NEW i \in 1 .. Len(n[w].slots) + 1
  PROVE  KidNow(n[w], i, n2, lo2, hi2, ht, w)
<1>1. /\ Maps(lo, lo, hi, ht) /\ top \in Nat /\ Sound(n, lo, lo, hi, ht, top)
      /\ H \in Nat /\ Chain(n, D, lo, hi, ht, H, a, b)
      /\ Renamed(DOMAIN n, lo, hi, ht, H, c, d, lo2, hi2)
  BY DEF Gap
<1>2. GapIs(n, lo, hi, ht, top, D, H, a, b, c, d, x, y, n2)
  BY GapFacts
<1>3. DOMAIN n2 = DOMAIN n \ D
  BY <1>2 DEF GapIs
<1>4. w \in DOMAIN n /\ w \notin D
  BY <1>3
<1>9. ht[w] \in Nat /\ ht[w] # 0
  BY <1>1, <1>4, NodeFacts
<1>5. PICK t : t = n[w]
  OBVIOUS
<1>6. PICK z : KidWas(t, i, n, lo, hi, ht, w, z)
  BY <1>1, <1>4, <1>5, <1>9, KidWasIs
<1>7. /\ z = Kid(t, i) /\ z \in DOMAIN n /\ ht[z] + 1 = ht[w] /\ ht[z] \in Nat
      /\ lo[z] = Low(t, i, lo[w]) /\ hi[z] = High(t, i, hi[w])
  BY <1>6 DEF KidWas
<1>10. ~ ht[z] < H /\ ~ ht[w] < H
  BY <1>1, <1>7, <1>9
<1>11. z \notin D
  BY <1>1, <1>10 DEF Chain
<1>12. lo2[z] = lo[z] /\ hi2[z] = hi[z] /\ lo2[w] = lo[w] /\ hi2[w] = hi[w]
  BY <1>1, <1>4, <1>7, <1>10 DEF Renamed
<1> QED
  BY <1>3, <1>5, <1>7, <1>11, <1>12 DEF KidNow

LEMMA GapAt ==
  ASSUME NEW n, NEW lo, NEW hi, NEW ht, NEW top, NEW D, NEW H, NEW a, NEW b, NEW c, NEW d,
         NEW x, NEW y, NEW j, NEW T, NEW lo2, NEW hi2, NEW n2,
         Gap(n, lo, hi, ht, top, D, H, a, b, c, d, x, y, j, T, lo2, hi2, n2),
         NEW i \in 1 .. Len(T.slots) + 1
  PROVE  KidNow(T, i, n2, lo2, hi2, ht, y)
<1>1. /\ Maps(lo, lo, hi, ht) /\ top \in Nat /\ Sound(n, lo, lo, hi, ht, top)
      /\ H \in Nat /\ H # 0 /\ ht[y] = H
      /\ Closed(n[y], T, j, lo[y], hi[y], c, d)
      /\ Renamed(DOMAIN n, lo, hi, ht, H, c, d, lo2, hi2)
  BY DEF Gap
<1>2. GapIs(n, lo, hi, ht, top, D, H, a, b, c, d, x, y, n2)
  BY GapFacts
<1>3. y \in DOMAIN n /\ DOMAIN n2 = DOMAIN n \ D /\ n[y] \in TreeNodes
  BY <1>2 DEF GapIs
<1>5. PICK t : t = n[y]
  OBVIOUS
<1>6. PICK q : q = Past(j, i)
  OBVIOUS
<1>7. /\ q \in 1 .. Len(t.slots) + 1 /\ q # j
      /\ Kid(T, i) = Kid(t, q)
      /\ Low(T, i, lo[y]) = Ren(c, d, Low(t, q, lo[y]))
      /\ High(T, i, hi[y]) = Ren(c, d, High(t, q, hi[y]))
  <2>1. i \in 1 .. Len(t.slots)
    <3>1. Len(t.slots) \in Nat /\ Len(T.slots) = Len(t.slots) - 1
      BY <1>1, <1>3, <1>5, TreeNodeIs DEF Closed
    <3> QED
      BY <3>1
  <2> QED
    BY <1>1, <1>5, <1>6, <2>1 DEF Closed
<1>16. PICK z : IsKid(n, ht, y, q, z) /\ KidWas(t, q, n, lo, hi, ht, y, z)
  BY <1>1, <1>3, <1>5, <1>7, KidWasIs
<1>8. /\ z = Kid(t, q) /\ z \in DOMAIN n /\ ht[z] + 1 = ht[y] /\ ht[z] \in Nat
      /\ lo[z] = Low(t, q, lo[y]) /\ hi[z] = High(t, q, hi[y])
  BY <1>16 DEF KidWas
<1>11. z \notin D
  <2> SUFFICES ASSUME z \in D PROVE FALSE
    OBVIOUS
  <2>1. y = y /\ q = j
    BY <1>1, <1>16, GapOnlyKid
  <2> QED
    BY <1>7, <2>1
<1>12. ht[z] < H
  BY <1>1, <1>8
<1>13. lo2[z] = Ren(c, d, lo[z]) /\ hi2[z] = Ren(c, d, hi[z])
  BY <1>1, <1>8, <1>12 DEF Renamed
<1>14. lo2[y] = lo[y] /\ hi2[y] = hi[y]
  BY <1>1, <1>3 DEF Renamed
<1> QED
  BY <1>3, <1>7, <1>8, <1>11, <1>13, <1>14 DEF KidNow

LEMMA KeyedWider ==
  ASSUME NEW t \in TreeNodes, NEW a \in Nat, NEW b \in Nat, Keyed(t, a, b),
         NEW e \in Nat, e <= a, NEW f \in Nat, b <= f
  PROVE  Keyed(t, e, f)
<1>1. /\ DOMAIN t.slots = 1 .. Len(t.slots)
      /\ \A i \in 1 .. Len(t.slots) : t.slots[i].key \in Nat
  BY TreeNodeIs
<1>2. \A i \in DOMAIN t.slots : e < t.slots[i].key /\ t.slots[i].key < f
  BY <1>1 DEF Keyed
<1> QED
  BY <1>2 DEF Keyed

LEMMA GapTree ==
  ASSUME NEW n, NEW lo, NEW hi, NEW ht, NEW top, NEW D, NEW H, NEW a, NEW b, NEW c, NEW d,
         NEW x, NEW y, NEW j, NEW T, NEW lo2, NEW hi2, NEW n2,
         Gap(n, lo, hi, ht, top, D, H, a, b, c, d, x, y, j, T, lo2, hi2, n2),
         NEW w \in DOMAIN n2, ht[w] # 0
  PROVE  KidsSound(n2, lo2, lo2, hi2, ht, w)
<1>1. /\ Maps(lo, lo, hi, ht) /\ top \in Nat /\ Sound(n, lo, lo, hi, ht, top)
      /\ H \in Nat /\ H # 0 /\ ht[y] = H /\ ht[x] = 0
      /\ Closed(n[y], T, j, lo[y], hi[y], c, d)
      /\ Renamed(DOMAIN n, lo, hi, ht, H, c, d, lo2, hi2)
      /\ Erased(n, x, D, y, T, n2)
  BY DEF Gap
<1>2. GapIs(n, lo, hi, ht, top, D, H, a, b, c, d, x, y, n2)
  BY GapFacts
<1>3. /\ a \in Nat /\ b \in Nat /\ d \in Nat /\ a <= d /\ d <= b /\ x \in DOMAIN n
      /\ y \in DOMAIN n /\ DOMAIN n2 = DOMAIN n \ D
  <2>1. a \in Nat /\ b \in Nat /\ a < b /\ ((c = a /\ d = b) \/ (c = b /\ d = a))
    BY <1>2 DEF GapIs, Ends
  <2>2. DOMAIN n2 = DOMAIN n \ D /\ x \in DOMAIN n /\ y \in DOMAIN n
    BY <1>2 DEF GapIs
  <2> QED
    BY <2>1, <2>2
<1>4. w \in DOMAIN n /\ w \notin D
  BY <1>3
<1>5. /\ lo[w] \in Nat /\ hi[w] \in Nat /\ ht[w] \in Nat /\ w # 0
      /\ n[w] \in TreeNodes /\ KidsSound(n, lo, lo, hi, ht, w)
  BY <1>1, <1>4, NodeFacts
<1>6. CASE w = y
  <2>1. n2[y] = T /\ Keyed(T, lo[y], hi[y])
    BY <1>1 DEF Erased, Closed
  <2>2. lo2[y] = lo[y] /\ hi2[y] = hi[y]
    BY <1>1, <1>3 DEF Renamed
  <2>3. \A i \in 1 .. Len(T.slots) + 1 : KidNow(T, i, n2, lo2, hi2, ht, y)
    BY GapAt
  <2> QED
    BY <1>6, <2>1, <2>2, <2>3 DEF KidsSound, KidNow
<1>7. CASE w # y
  <2>1. n2[w] = n[w]
    <3>1. LeafSound(n, lo, hi, ht, top, x)
      BY <1>1, <1>3, NodeFacts
    <3>2. w # n[x].prev /\ w # n[x].next
      BY <1>5, <3>1 DEF LeafSound, NIL
    <3> QED
      BY <1>1, <1>7, <3>2 DEF Erased
  <2>2. Keyed(n[w], lo[w], hi[w])
    BY <1>5 DEF KidsSound
  <2>3. lo2[w] \in Nat /\ hi2[w] \in Nat /\ lo2[w] <= lo[w] /\ hi[w] <= hi2[w]
    <3>1. CASE ht[w] < H
      <4>1. \/ /\ hi[w] <= a /\ lo[w] < a /\ lo2[w] = lo[w]
               /\ hi2[w] = IF hi[w] = a THEN d ELSE hi[w]
            \/ /\ b <= lo[w] /\ b < hi[w] /\ hi2[w] = hi[w]
               /\ lo2[w] = IF lo[w] = b THEN d ELSE lo[w]
        BY <1>4, <3>1, GapSides
      <4> QED
        BY <1>3, <1>5, <4>1
    <3>2. CASE ~ ht[w] < H
      <4>1. lo2[w] = lo[w] /\ hi2[w] = hi[w]
        BY <1>1, <1>4, <3>2 DEF Renamed
      <4> QED
        BY <1>5, <4>1
    <3> QED
      BY <3>1, <3>2
  <2>4. Keyed(n[w], lo2[w], hi2[w])
    BY <1>5, <2>2, <2>3, KeyedWider
  <2>5. \A i \in 1 .. Len(n[w].slots) + 1 : KidNow(n[w], i, n2, lo2, hi2, ht, w)
    <3>1. CASE ht[w] < H
      BY <3>1, GapBelow
    <3>2. CASE ht[w] = H
      BY <1>7, <3>2, GapBeside
    <3>3. CASE ht[w] > H
      BY <3>3, GapAbove
    <3> QED
      BY <1>1, <1>5, <3>1, <3>2, <3>3
  <2> QED
    BY <2>1, <2>4, <2>5 DEF KidsSound, KidNow
<1> QED
  BY <1>6, <1>7

\* When the child of a tree node has gone with all below it, the tree is sound.
LEMMA GapSound ==
  ASSUME NEW n, NEW lo, NEW hi, NEW ht, NEW top, NEW D, NEW H, NEW a, NEW b, NEW c, NEW d,
         NEW x, NEW y, NEW j, NEW T, NEW lo2, NEW hi2, NEW n2,
         Gap(n, lo, hi, ht, top, D, H, a, b, c, d, x, y, j, T, lo2, hi2, n2)
  PROVE  Sound(n2, lo2, lo2, hi2, ht, top)
<1>1. Typed(n2, lo2, hi2, ht, top) /\ Disjoint(n2, lo2, hi2, ht)
  BY GapTyped
<1>2. \A w \in DOMAIN n2 : ht[w] = 0 => LeafSound(n2, lo2, hi2, ht, top, w)
  BY GapLeaf
<1>3. \A w \in DOMAIN n2 : ht[w] # 0 => KidsSound(n2, lo2, lo2, hi2, ht, w)
  BY GapTree
<1> QED
  BY <1>1, <1>2, <1>3 DEF Sound

LEMMA GapEntries ==
  ASSUME NEW n, NEW lo, NEW hi, NEW ht, NEW top, NEW D, NEW H, NEW a, NEW b, NEW c, NEW d,
         NEW x, NEW y, NEW j, NEW T, NEW lo2, NEW hi2, NEW n2,
         Gap(n, lo, hi, ht, top, D, H, a, b, c, d, x, y, j, T, lo2, hi2, n2),
         NEW k, k \in Keys, n[x].slots = <<k>>
  PROVE  EntriesIn(n2, ht) = EntriesIn(n, ht) \ {k}
<1>1. /\ Maps(lo, lo, hi, ht) /\ top \in Nat /\ Sound(n, lo, lo, hi, ht, top)
      /\ H \in Nat /\ H # 0 /\ ht[x] = 0 /\ x \in D /\ Chain(n, D, lo, hi, ht, H, a, b)
  BY DEF Gap
<1>2. GapIs(n, lo, hi, ht, top, D, H, a, b, c, d, x, y, n2)
  BY GapFacts
<1>3. a \in Nat /\ b \in Nat /\ a < b /\ x \in DOMAIN n /\ DOMAIN n2 = DOMAIN n \ D
  BY <1>2 DEF GapIs
<1>4. \A w \in DOMAIN n2 : ht[w] = 0 => n2[w].slots = n[w].slots
  <2>1. \A w \in DOMAIN n2 : ht[w] = 0 => GapLinks(n, x, w, n2)
    BY GapLinksAre
  <2> QED
    BY <2>1 DEF GapLinks
<1>5. ASSUME NEW w \in D, ht[w] = 0
      PROVE  w = x
  <2>1. lo[w] = a /\ hi[w] = b /\ w \in DOMAIN n /\ lo[x] = a /\ hi[x] = b
    BY <1>1 DEF Chain
  <2>2. For(n, lo, hi, w, b) /\ For(n, lo, hi, x, b)
    BY <1>3, <2>1 DEF For
  <2> QED
    BY <1>1, <1>3, <1>5, <2>2, OnlyOneFor DEF Maps
<1>6. \A e : e \in ToSet(n[x].slots) <=> e = k
  <2>1. PICK s : s = n[x].slots
    OBVIOUS
  <2>2. s = <<k>> /\ s \in Seq(Keys)
    BY <2>1
  <2>3. Len(s) = 1 /\ s[1] = k
    BY <2>2
  <2>4. \A e : e \in ToSet(s) <=> \E i \in 1 .. Len(s) : s[i] = e
    BY <2>2, MembersAre
  <2> QED
    BY <2>1, <2>3, <2>4
<1>7. ASSUME NEW w \in DOMAIN n, ht[w] = 0, k \in ToSet(n[w].slots)
      PROVE  w = x
  <2>1. For(n, lo, hi, w, k) /\ k \in Nat
    BY <1>1, <1>7, EntryPlace DEF Maps
  <2>2. k \in ToSet(n[x].slots)
    BY <1>6
  <2>3. For(n, lo, hi, x, k)
    BY <1>1, <1>3, <2>2, EntryPlace DEF Maps
  <2> QED
    BY <1>1, <1>7, <2>1, <2>3, OnlyOneFor DEF Maps
<1>8. ASSUME NEW e \in EntriesIn(n2, ht)
      PROVE  e \in EntriesIn(n, ht) /\ e # k
  <2>1. PICK w \in DOMAIN n2 : ht[w] = 0 /\ e \in ToSet(n2[w].slots) /\ e \in Keys
    BY DEF EntriesIn
  <2>2. w \in DOMAIN n /\ w # x /\ e \in ToSet(n[w].slots)
    BY <1>1, <1>3, <1>4, <2>1
  <2> QED
    BY <1>7, <2>1, <2>2 DEF EntriesIn
<1>9. ASSUME NEW e \in EntriesIn(n, ht), e # k
      PROVE  e \in EntriesIn(n2, ht)
  <2>1. PICK w \in DOMAIN n : ht[w] = 0 /\ e \in ToSet(n[w].slots) /\ e \in Keys
    BY DEF EntriesIn
  <2>2. w # x
    BY <1>6, <1>9, <2>1
  <2>3. w \in DOMAIN n2
    BY <1>3, <1>5, <2>1, <2>2
  <2> QED
    BY <1>4, <2>1, <2>3 DEF EntriesIn
<1> QED
  BY <1>8, <1>9

-----------------------------------------------------------------------------
(* The collapse on its way up *)

\* The nodes D have gone, leaf x of them.
Cleared(n, x, D, n2) ==
  /\ DOMAIN n2 = DOMAIN n \ D
  /\ \A w \in DOMAIN n2 :
       n2[w] = IF w = n[x].prev THEN [n[w] EXCEPT !.next = n[x].next]
               ELSE IF w = n[x].next THEN [n[w] EXCEPT !.prev = n[x].prev]
               ELSE n[w]

\* With leaf x all up to id has gone, a node of each height below H.
Gone(lo, hi, ht, x, H, id, b, D) ==
  /\ Chain(node, D, lo, hi, ht, H, lo[x], hi[x])
  /\ x \in D /\ id \in D /\ IsFiniteSet(D) /\ Cardinality(D) = b.count /\ b.count \in Nat
  /\ Cleared(node, x, D, b.node)

\* The tree is sound again, but for a root without slots.
Settled(ht, S, b) ==
  /\ b.count \in Nat /\ Cardinality(DOMAIN b.node) + b.count = Cardinality(DOMAIN node)
  /\ \E lo, hi : /\ Maps(lo, lo, hi, ht)
                 /\ Sound(b.node, lo, lo, hi, ht, levels)
                 /\ RootSound(b.node, root, lo, hi, ht, levels)
                 /\ EntriesIn(b.node, ht) = S

\* The parent id of the nodes that have gone still is as it was.
LEMMA GoneParent ==
  ASSUME NEW lo, NEW hi, NEW ht, Maps(lo, lo, hi, ht),
         levels \in Nat, Whole(node, root, lo, hi, ht, levels),
         NEW x \in DOMAIN node, ht[x] = 0, NEW H \in Nat, NEW v, NEW b, NEW D,
         Gone(lo, hi, ht, x, H, v, b, D), NEW id, NEW j, IsKid(node, ht, id, j, v), ht[id] = H
  PROVE  /\ id \in DOMAIN node /\ id \notin D /\ id \in DOMAIN b.node
         /\ b.node[id] = node[id] /\ node[id] \in TreeNodes
         /\ H # 0
<1>1. Sound(node, lo, lo, hi, ht, levels)
  BY DEF Whole
<1>2. id \in DOMAIN node /\ ht[id] # 0 /\ node[id] \in TreeNodes
  BY <1>1, KidIs
<1>3. \A w \in D : ht[w] < H
  BY DEF Gone, Chain
<1>4. id \notin D
  BY <1>3
<1>5. LeafSound(node, lo, hi, ht, levels, x)
  BY <1>1, NodeFacts
<1>6. id # 0
  BY <1>1, <1>2, NodeFacts
<1>7. id # node[x].prev /\ id # node[x].next
  BY <1>2, <1>5, <1>6 DEF LeafSound, NIL
<1>8. id \in DOMAIN b.node /\ b.node[id] = node[id]
  BY <1>2, <1>4, <1>7 DEF Gone, Cleared
<1> QED
  BY <1>2, <1>4, <1>8

LEMMA GoneEmpty ==
  ASSUME NEW lo, NEW hi, NEW ht, Maps(lo, lo, hi, ht),
         levels \in Nat, Whole(node, root, lo, hi, ht, levels),
         NEW x \in DOMAIN node, ht[x] = 0, NEW H \in Nat, NEW v, NEW b, NEW D,
         Gone(lo, hi, ht, x, H, v, b, D), NEW id, NEW j, IsKid(node, ht, id, j, v), ht[id] = H,
         node[id].slots = <<>>,
         NEW r, r.count = b.count + 1, r.node = Drop(b.node, {id})
  PROVE  Gone(lo, hi, ht, x, H + 1, id, r, D \cup {id})
<1>1. Sound(node, lo, lo, hi, ht, levels)
  BY DEF Whole
<1>2. /\ id \in DOMAIN node /\ id \notin D /\ id \in DOMAIN b.node
      /\ node[id] \in TreeNodes /\ H # 0
  BY GoneParent
<1>3. /\ Chain(node, D, lo, hi, ht, H, lo[x], hi[x]) /\ v \in D /\ x \in D
      /\ IsFiniteSet(D) /\ Cardinality(D) = b.count /\ b.count \in Nat
      /\ Cleared(node, x, D, b.node)
  BY DEF Gone
<1>4. lo[id] = lo[x] /\ hi[id] = hi[x]
  <2>1. KidsSound(node, lo, lo, hi, ht, id)
    BY <1>1, <1>2, NodeFacts
  <2>2. Len(node[id].slots) = 0 /\ j = 1
    BY DEF IsKid
  <2>3. v = Kid(node[id], 1) /\ 1 \in 1 .. Len(node[id].slots) + 1
    BY <2>2 DEF IsKid
  <2>4. lo[v] = Low(node[id], 1, lo[id]) /\ hi[v] = High(node[id], 1, hi[id])
    BY <2>1, <2>3 DEF KidsSound
  <2>5. lo[v] = lo[id] /\ hi[v] = hi[id]
    BY <2>2, <2>4 DEF Low, High
  <2> QED
    BY <1>3, <2>5 DEF Chain
<1>5. Chain(node, D \cup {id}, lo, hi, ht, H + 1, lo[x], hi[x])
  <2>1. D \cup {id} \subseteq DOMAIN node
    BY <1>2, <1>3 DEF Chain
  <2>2. \A q \in D \cup {id} : ht[q] < H + 1 /\ lo[q] = lo[x] /\ hi[q] = hi[x]
    <3>1. ASSUME NEW q \in D PROVE ht[q] < H + 1 /\ lo[q] = lo[x] /\ hi[q] = hi[x]
      <4>1. q \in DOMAIN node /\ ht[q] < H /\ lo[q] = lo[x] /\ hi[q] = hi[x]
        BY <1>3 DEF Chain
      <4>2. ht[q] \in Nat
        BY <1>1, <4>1, NodeFacts
      <4> QED
        BY <4>1, <4>2
    <3> QED
      BY <1>4, <3>1
  <2>3. \A h \in 0 .. (H + 1) - 1 : \E q \in D \cup {id} : ht[q] = h
    <3>1. \A h \in 0 .. (H + 1) - 1 : h = H \/ h \in 0 .. H - 1
      OBVIOUS
    <3>2. \A h \in 0 .. H - 1 : \E q \in D : ht[q] = h
      BY <1>3 DEF Chain
    <3> QED
      BY <3>1, <3>2
  <2> QED
    BY <2>1, <2>2, <2>3 DEF Chain
<1>6. IsFiniteSet(D \cup {id}) /\ Cardinality(D \cup {id}) = b.count + 1
  <2>1. IsFiniteSet(D)
    BY <1>3
  <2>2. /\ IsFiniteSet(D \cup {id})
        /\ Cardinality(D \cup {id}) = IF id \in D THEN Cardinality(D) ELSE Cardinality(D) + 1
    BY <2>1, FS_AddElement
  <2> QED
    BY <1>2, <1>3, <2>2
<1>7. Cleared(node, x, D \cup {id}, r.node)
  <2>1. DOMAIN r.node = DOMAIN b.node \ {id} /\ \A w \in DOMAIN r.node : r.node[w] = b.node[w]
    BY DEF Drop
  <2> QED
    BY <1>3, <2>1 DEF Cleared
<1>8. r.count \in Nat
  BY <1>3
<1> QED
  BY <1>3, <1>5, <1>6, <1>7, <1>8 DEF Gone

LEMMA CardinalityLeft ==
  ASSUME NEW S, IsFiniteSet(S), NEW D, D \subseteq S
  PROVE  Cardinality(S \ D) + Cardinality(D) = Cardinality(S)
<1>1. S \cap D = D
  OBVIOUS
<1>2. PICK m, q : m = Cardinality(S) /\ q = Cardinality(D)
  OBVIOUS
<1>3. m \in Nat /\ q \in Nat
  BY <1>2, FS_CardinalityType, FS_Subset
<1>4. Cardinality(S \ D) = Cardinality(S) - Cardinality(S \cap D)
  BY FS_Difference
<1>5. Cardinality(S \ D) = m - q
  BY <1>1, <1>2, <1>4
<1>6. (m - q) + q = m
  BY <1>3
<1> QED
  BY <1>2, <1>5, <1>6

Replaces(b, id, t, r) == r.count = b.count /\ r.node = [b.node EXCEPT ![id] = t]
Closes(ht, S, r, t) == Settled(ht, S, r) /\ ~ EmptyTree(t)

LEMMA GoneCloses ==
  ASSUME NEW lo, NEW hi, NEW ht, Maps(lo, lo, hi, ht),
         levels \in Nat, Whole(node, root, lo, hi, ht, levels),
         NEW x \in DOMAIN node, ht[x] = 0, NEW H \in Nat, NEW v, NEW b, NEW D,
         Gone(lo, hi, ht, x, H, v, b, D), NEW id, ht[id] = H,
         NEW k \in Keys, For(node, lo, hi, id, k), node[x].slots = <<k>>,
         NEW j0, IsKid(node, ht, id, j0, v), v = Child(node[id], k),
         node[id].slots # <<>>,
         NEW r, Replaces(b, id, EraseChild(node[id], k), r)
  PROVE  Closes(ht, EntriesIn(node, ht) \ {k}, r, EraseChild(node[id], k))
<1>0. r.count = b.count /\ r.node = [b.node EXCEPT ![id] = EraseChild(node[id], k)]
  BY DEF Replaces
<1>1. Sound(node, lo, lo, hi, ht, levels) /\ RootSound(node, root, lo, hi, ht, levels)
  BY DEF Whole
<1>2. /\ id \in DOMAIN node /\ id \notin D /\ id \in DOMAIN b.node
      /\ node[id] \in TreeNodes /\ H # 0
  BY GoneParent
<1>3. /\ Chain(node, D, lo, hi, ht, H, lo[x], hi[x]) /\ v \in D /\ x \in D
      /\ IsFiniteSet(D) /\ Cardinality(D) = b.count /\ b.count \in Nat
      /\ Cleared(node, x, D, b.node)
  BY DEF Gone
<1>4. k \in Nat /\ lo[id] < k /\ k <= hi[id]
  BY INFType DEF For
<1>5. /\ lo[id] \in Nat /\ hi[id] \in Nat /\ lo[id] < hi[id]
      /\ KidsSound(node, lo, lo, hi, ht, id)
  BY <1>1, <1>2, NodeFacts
<1>6. Keyed(node[id], lo[id], hi[id])
  BY <1>5 DEF KidsSound
<1>7. PICK T : T = EraseChild(node[id], k)
  OBVIOUS
<1>8. PICK j, c, d : /\ Finds(node[id], k, j, lo[id], hi[id])
                     /\ Closed(node[id], T, j, lo[id], hi[id], c, d)
  BY <1>2, <1>4, <1>5, <1>6, <1>7, EraseChildIs
<1>9. j \in 1 .. Len(node[id].slots) + 1 /\ Kid(node[id], j) = v
  BY <1>8 DEF Finds
<1>10. IsKid(node, ht, id, j, Kid(node[id], j)) /\ Kid(node[id], j) \in D
  BY <1>2, <1>3, <1>9 DEF IsKid
<1>11. lo[x] = Low(node[id], j, lo[id]) /\ hi[x] = High(node[id], j, hi[id])
  <2>1. lo[v] = Low(node[id], j, lo[id]) /\ hi[v] = High(node[id], j, hi[id])
    BY <1>5, <1>9 DEF KidsSound
  <2> QED
    BY <1>3, <2>1 DEF Chain
<1>12. DOMAIN node \subseteq Nat
  BY <1>1 DEF Sound, Typed
<1>13. Ends(lo[x], hi[x], c, d)
  BY <1>8, <1>11 DEF Closed
<1>14. c \in Nat /\ d \in Nat
  BY <1>13 DEF Ends
<1>15. PICK lo2, hi2 : Renamed(DOMAIN node, lo, hi, ht, H, c, d, lo2, hi2)
  BY <1>12, <1>14, RenamedExist
<1>16. Erased(node, x, D, id, T, r.node)
  <2>1. DOMAIN r.node = DOMAIN b.node /\ r.node[id] = T
    BY <1>0, <1>2, <1>7
  <2>2. \A w \in DOMAIN b.node : w # id => r.node[w] = b.node[w]
    BY <1>0
  <2>3. id \in DOMAIN r.node
    BY <1>2, <2>1
  <2> QED
    BY <1>3, <2>1, <2>2, <2>3 DEF Erased, Cleared
<1>17. Gap(node, lo, hi, ht, levels, D, H, lo[x], hi[x], c, d, x, id, j, T, lo2, hi2, r.node)
  BY <1>1, <1>2, <1>3, <1>8, <1>10, <1>11, <1>15, <1>16 DEF Gap
<1>18. Sound(r.node, lo2, lo2, hi2, ht, levels)
  BY <1>17, GapSound
<1>19. EntriesIn(r.node, ht) = EntriesIn(node, ht) \ {k}
  BY <1>17, GapEntries
<1>20. RootSound(r.node, root, lo2, hi2, ht, levels)
  <2>1. ht[id] <= levels
    BY <1>1, <1>2, NodeFacts
  <2>2. root \in DOMAIN node /\ ht[root] = levels /\ lo[root] = 0 /\ hi[root] = INF
    BY <1>1 DEF RootSound
  <2>3. ~ ht[root] < H
    BY <2>1, <2>2
  <2>4. root \notin D
    BY <1>3, <2>3 DEF Chain
  <2>5. lo2[root] = lo[root] /\ hi2[root] = hi[root]
    BY <1>15, <2>2, <2>3 DEF Renamed
  <2>6. root \in DOMAIN r.node
    BY <1>16, <2>2, <2>4 DEF Erased
  <2> QED
    BY <2>2, <2>5, <2>6 DEF RootSound
<1>21. r.count \in Nat /\ Cardinality(DOMAIN r.node) + r.count = Cardinality(DOMAIN node)
  <2>1. DOMAIN r.node = DOMAIN node \ D
    BY <1>16 DEF Erased
  <2>2. IsFiniteSet(DOMAIN node) /\ D \subseteq DOMAIN node
    BY <1>1, <1>3 DEF Sound, Typed, Chain
  <2>3. Cardinality(DOMAIN node \ D) + Cardinality(D) = Cardinality(DOMAIN node)
    BY <2>2, CardinalityLeft
  <2> QED
    BY <1>0, <1>3, <2>1, <2>3
<1>22. Settled(ht, EntriesIn(node, ht) \ {k}, r)
  <2>1. Maps(lo2, lo2, hi2, ht)
    BY <1>15 DEF Renamed
  <2> QED
    BY <1>18, <1>19, <1>20, <1>21, <2>1 DEF Settled
<1>23. ~ EmptyTree(T)
  <2> SUFFICES ASSUME T.slots = <<>>, T.last = 0 PROVE FALSE
    BY DEF EmptyTree, NIL
  <2>1. Len(T.slots) = 0 /\ Len(T.slots) = Len(node[id].slots) - 1
    BY <1>8 DEF Closed
  <2>2. Len(node[id].slots) = 1
    <3>1. Len(node[id].slots) \in Nat
      BY <1>2, TreeNodeIs
    <3> QED
      BY <2>1, <3>1
  <2>3. 1 \in 1 .. Len(node[id].slots)
    BY <2>2
  <2>4. Kid(T, 1) = Kid(node[id], Past(j, 1)) /\ Past(j, 1) \in 1 .. Len(node[id].slots) + 1
    BY <1>8, <2>3 DEF Closed
  <2>5. Kid(T, 1) = 0
    BY <2>1 DEF Kid
  <2>6. Kid(node[id], Past(j, 1)) \in DOMAIN node
    BY <1>5, <2>4 DEF KidsSound
  <2>7. 0 \notin DOMAIN node
    BY <1>1 DEF Sound, Typed
  <2> QED
    BY <2>4, <2>5, <2>6, <2>7
<1> QED
  BY <1>7, <1>22, <1>23 DEF Closes

\* What EraseUp does at the i-th node of the way, id.
EraseAt(b, i, id, k) ==
  LET t == EraseChild(b.node[id], k)
  IN  IF ~b.more THEN b
      ELSE IF i > 0 /\ EmptyTree(t)
      THEN [more |-> TRUE, count |-> b.count + 1, node |-> Drop(b.node, {id})]
      ELSE [b EXCEPT !.more = FALSE, !.node[id] = t]

EShape(b) == b = [more |-> b.more, count |-> b.count, node |-> b.node]

\* The values that EraseUp goes through, from the leaf up to level h.
Falls(p, top, k, first, h, b) ==
  b = [i \in h .. top |-> IF i = top THEN first ELSE EraseAt(b[i + 1], i, p[i], k)]

LEMMA FallsExist ==
  ASSUME NEW p, NEW top \in Nat, NEW k, NEW first
  PROVE  \E b : Falls(p, top, k, first, 0, b)
<1> DEFINE T == {m \in Nat : m <= top /\ ~ \E b : Falls(p, top, k, first, top - m, b)}
<1>0. ASSUME T = {} PROVE \E b : Falls(p, top, k, first, 0, b)
  <2>1. top \notin T /\ top - top = 0
    BY <1>0
  <2> QED
    BY <2>1
<1> SUFFICES ASSUME T # {} PROVE FALSE
  BY <1>0
<1>1. PICK m \in T : \A l \in T : m <= l
  <2>1. T \subseteq Nat
    OBVIOUS
  <2> HIDE DEF T
  <2> QED
    BY <2>1, LeastOfNaturals
<1>2. m \in Nat /\ m <= top /\ ~ \E b : Falls(p, top, k, first, top - m, b)
  OBVIOUS
<1>3. CASE m = 0
  <2> DEFINE a == [o \in top .. top |-> first]
  <2>1. Falls(p, top, k, first, top, a)
    BY DEF Falls
  <2>2. top - m = top
    BY <1>3
  <2> QED
    BY <1>2, <2>1, <2>2
<1>4. CASE m # 0
  <2>1. m - 1 \in Nat /\ m - 1 < m /\ m - 1 <= top
    BY <1>2, <1>4
  <2>2. m - 1 \notin T
    BY <1>1, <2>1
  <2>3. PICK a : Falls(p, top, k, first, top - (m - 1), a)
    BY <2>1, <2>2
  <2>4. PICK h : h = top - m
    OBVIOUS
  <2>5. h \in Nat /\ top - (m - 1) = h + 1 /\ h # top
    BY <1>2, <1>4, <2>4
  <2>6. Falls(p, top, k, first, h + 1, a)
    BY <2>3, <2>5
  <2> DEFINE b == [i \in h .. top |-> IF i = h THEN EraseAt(a[h + 1], h, p[h], k) ELSE a[i]]
  <2>7. \A o \in h + 1 .. top : o \in h .. top /\ b[o] = a[o]
    BY <2>5
  <2>8. \A o \in h .. top : o # h => o \in h + 1 .. top
    BY <2>5
  <2>9. \A o \in h .. top : o # top => o + 1 \in h + 1 .. top
    BY <2>5
  <2>10. \A o \in h + 1 .. top : a[o] = IF o = top THEN first ELSE EraseAt(a[o + 1], o, p[o], k)
    BY <2>6 DEF Falls
  <2> HIDE DEF b
  <2>11. \A o \in h .. top : b[o] = IF o = top THEN first ELSE EraseAt(b[o + 1], o, p[o], k)
    <3>1. b[h] = EraseAt(a[h + 1], h, p[h], k)
      BY <1>2, <2>4, <2>5 DEF b
    <3>2. h \in h .. top /\ h + 1 \in h + 1 .. top
      BY <1>2, <1>4, <2>4, <2>5
    <3> QED
      BY <2>5, <2>7, <2>8, <2>9, <2>10, <3>1, <3>2
  <2>12. b = [i \in h .. top |-> b[i]]
    BY DEF b
  <2>13. Falls(p, top, k, first, h, b)
    BY <2>11, <2>12 DEF Falls
  <2> QED
    BY <1>2, <2>4, <2>13
<1> QED
  BY <1>3, <1>4

\* What EraseUp begins with.
Unlinked(x) == [more |-> TRUE, count |-> 1, node |-> Unlink(node, x)]

FallsUp(p, top, k, first, b) ==
  b[top] = first /\ \A i \in 0 .. top - 1 : b[i] = EraseAt(b[i + 1], i, p[i], k)

LEMMA EraseUpIs ==
  ASSUME NEW k, levels \in Nat
  PROVE  \E b : /\ EraseUp(k) = b[0]
                /\ FallsUp(Path(k), levels, k, Unlinked(Path(k)[levels]), b)
<1>1. PICK p, first : p = Path(k) /\ first = Unlinked(Path(k)[levels])
  OBVIOUS
<1>2. PICK b : b = CHOOSE a : Falls(p, levels, k, first, 0, a)
  OBVIOUS
<1>3. Falls(p, levels, k, first, 0, b)
  BY <1>2, FallsExist
<1>4. EraseUp(k) = b[0]
  <2>1. EraseUp(k) = (CHOOSE e : Falls(Path(k), levels, k, Unlinked(Path(k)[levels]), 0, e))[0]
    BY DEF EraseUp, Falls, Unlinked, EraseAt
  <2> QED
    BY <1>1, <1>2, <2>1
<1>5. \A i \in 0 .. levels : b[i] = IF i = levels THEN first ELSE EraseAt(b[i + 1], i, p[i], k)
  BY <1>3 DEF Falls
<1>6. levels \in 0 .. levels /\ \A i \in 0 .. levels - 1 : i \in 0 .. levels /\ i # levels
  OBVIOUS
<1>7. FallsUp(p, levels, k, first, b)
  BY <1>5, <1>6 DEF FallsUp
<1> QED
  BY <1>1, <1>4, <1>7

LEMMA EraseAtStops ==
  ASSUME NEW b, NEW i, NEW id, NEW k, ~ b.more
  PROVE  EraseAt(b, i, id, k) = b
BY DEF EraseAt

\* r is b without node id, or with t there.
Fewer(b, id, r) ==
  EShape(r) /\ r.more /\ r.count = b.count + 1 /\ r.node = Drop(b.node, {id})
Sets(b, id, t, r) ==
  EShape(r) /\ ~ r.more /\ r.count = b.count /\ r.node = [b.node EXCEPT ![id] = t]

LEMMA EraseAtDrops ==
  ASSUME NEW b, NEW i, NEW id, NEW k, b.more, i > 0, EmptyTree(EraseChild(b.node[id], k))
  PROVE  Fewer(b, id, EraseAt(b, i, id, k))
<1>0. PICK r : r = EraseAt(b, i, id, k)
  OBVIOUS
<1>1. r = [more |-> TRUE, count |-> b.count + 1, node |-> Drop(b.node, {id})]
  BY <1>0 DEF EraseAt
<1>2. PICK co, no : co = b.count + 1 /\ no = Drop(b.node, {id})
  OBVIOUS
<1>3. r = [more |-> TRUE, count |-> co, node |-> no]
  BY <1>1, <1>2
<1>4. r.more /\ r.count = co /\ r.node = no /\ EShape(r)
  BY <1>3 DEF EShape
<1> QED
  BY <1>0, <1>2, <1>4 DEF Fewer

LEMMA EraseAtCloses ==
  ASSUME NEW b, NEW i, NEW id, NEW k, b.more, EShape(b),
         ~ EmptyTree(EraseChild(b.node[id], k))
  PROVE  Sets(b, id, EraseChild(b.node[id], k), EraseAt(b, i, id, k))
<1>0. PICK r : r = EraseAt(b, i, id, k)
  OBVIOUS
<1>1. PICK mo, co, no : b = [more |-> mo, count |-> co, node |-> no]
  BY DEF EShape
<1>2. b.more = mo /\ b.count = co /\ b.node = no
  BY <1>1
<1>3. PICK t : t = EraseChild(no[id], k)
  OBVIOUS
<1>4. r = [b EXCEPT !.more = FALSE, !.node[id] = t]
  BY <1>0, <1>2, <1>3 DEF EraseAt
<1>5. PICK n1 : n1 = [no EXCEPT ![id] = t]
  OBVIOUS
<1>6. r = [more |-> FALSE, count |-> co, node |-> n1]
  BY <1>1, <1>4, <1>5
<1>7. EShape(r) /\ ~ r.more /\ r.count = co /\ r.node = n1
  BY <1>6 DEF EShape
<1> QED
  BY <1>0, <1>2, <1>3, <1>5, <1>7 DEF Sets

\* b is what the collapse below leaf x has led to at the i-th node of the way, id.
Sunk(lo, hi, ht, S, x, i, id, b) ==
  /\ EShape(b)
  /\ b.more => i # 0 /\ \E D : Gone(lo, hi, ht, x, levels - i + 1, id, b, D)
  /\ ~ b.more => Settled(ht, S, b)

LEMMA SinkStep ==
  ASSUME NEW lo, NEW hi, NEW ht, Maps(lo, lo, hi, ht),
         levels \in Nat, Whole(node, root, lo, hi, ht, levels),
         NEW x \in DOMAIN node, ht[x] = 0, NEW k \in Keys, node[x].slots = <<k>>,
         NEW i \in 0 .. levels - 1, NEW id, ht[id] + i = levels, For(node, lo, hi, id, k),
         i = 0 => id = root,
         NEW v, v = Child(node[id], k), NEW j, IsKid(node, ht, id, j, v),
         NEW b, Sunk(lo, hi, ht, EntriesIn(node, ht) \ {k}, x, i + 1, v, b)
  PROVE  Sunk(lo, hi, ht, EntriesIn(node, ht) \ {k}, x, i, id, EraseAt(b, i, id, k))
<1>1. PICK r : r = EraseAt(b, i, id, k)
  OBVIOUS
<1>2. PICK S : S = EntriesIn(node, ht) \ {k}
  OBVIOUS
<1>3. EShape(b) /\ (~ b.more => Settled(ht, S, b))
  BY <1>2 DEF Sunk
<1>4. CASE ~ b.more
  <2>1. r = b
    BY <1>1, <1>4, EraseAtStops
  <2>2. Sunk(lo, hi, ht, S, x, i, id, b)
    BY <1>3, <1>4 DEF Sunk
  <2> QED
    BY <1>1, <1>2, <2>1, <2>2
<1>5. CASE b.more
  <2>1. PICK H : H = levels - i
    OBVIOUS
  <2>2. H \in Nat /\ levels - (i + 1) + 1 = H /\ levels - i + 1 = H + 1
    BY <2>1
  <2>3. ht[id] = H
    <3>1. id \in DOMAIN node /\ Sound(node, lo, lo, hi, ht, levels)
      BY DEF For, Whole
    <3>2. ht[id] \in Nat
      BY <3>1, NodeFacts
    <3> QED
      BY <2>1, <3>2
  <2>4. PICK D : Gone(lo, hi, ht, x, H, v, b, D)
    BY <1>5, <2>2 DEF Sunk
  <2>5. b.node[id] = node[id] /\ node[id] \in TreeNodes
    BY <2>2, <2>3, <2>4, GoneParent
  <2>6. CASE node[id].slots = <<>>
    <3>1. i > 0
      <4> SUFFICES ASSUME i = 0 PROVE FALSE
        OBVIOUS
      <4> QED
        BY <2>6 DEF Whole
    <3>2. EmptyTree(EraseChild(b.node[id], k))
      BY <2>5, <2>6, EraseChildEmpty
    <3>6. Fewer(b, id, r)
      BY <1>1, <1>5, <3>1, <3>2, EraseAtDrops
    <3>3. EShape(r) /\ r.more /\ r.count = b.count + 1 /\ r.node = Drop(b.node, {id})
      BY <3>6 DEF Fewer
    <3>4. Gone(lo, hi, ht, x, H + 1, id, r, D \cup {id})
      BY <2>2, <2>3, <2>4, <2>6, <3>3, GoneEmpty
    <3>5. Sunk(lo, hi, ht, S, x, i, id, r)
      BY <2>2, <3>1, <3>3, <3>4 DEF Sunk
    <3> QED
      BY <1>1, <1>2, <3>5
  <2>7. CASE node[id].slots # <<>>
    <3>1. PICK t : t = EraseChild(node[id], k)
      OBVIOUS
    <3>2. ASSUME NEW R, Replaces(b, id, t, R)
          PROVE  Closes(ht, EntriesIn(node, ht) \ {k}, R, t)
      BY <2>2, <2>3, <2>4, <2>7, <3>1, <3>2, GoneCloses
    <3>3. ~ EmptyTree(t)
      <4>1. Replaces(b, id, t, [more |-> FALSE, count |-> b.count, node |-> [b.node EXCEPT ![id] = t]])
        BY DEF Replaces
      <4> QED
        BY <3>2, <4>1 DEF Closes
    <3>5. Sets(b, id, t, r)
      BY <1>1, <1>3, <1>5, <2>5, <3>1, <3>3, EraseAtCloses
    <3>4. EShape(r) /\ ~ r.more /\ Replaces(b, id, t, r)
      BY <3>5 DEF Sets, Replaces
    <3>6. Settled(ht, EntriesIn(node, ht) \ {k}, r)
      BY <3>2, <3>4 DEF Closes
    <3>7. Sunk(lo, hi, ht, S, x, i, id, r)
      BY <1>2, <3>4, <3>6 DEF Sunk
    <3> QED
      BY <1>1, <1>2, <3>7
  <2> QED
    BY <2>6, <2>7
<1> QED
  BY <1>4, <1>5

LEMMA UnlinkedSunk ==
  ASSUME NEW lo, NEW hi, NEW ht, Maps(lo, lo, hi, ht),
         levels \in Nat, levels > 0, Whole(node, root, lo, hi, ht, levels),
         NEW x \in DOMAIN node, ht[x] = 0, NEW S
  PROVE  Sunk(lo, hi, ht, S, x, levels, x, Unlinked(x))
<1>1. PICK b : b = Unlinked(x)
  OBVIOUS
<1>2. b.more /\ b.count = 1 /\ b.node = Unlink(node, x) /\ EShape(b)
  BY <1>1 DEF Unlinked, EShape
<1>3. Cleared(node, x, {x}, b.node)
  <2>1. \A w \in DOMAIN node : w # NIL
    BY DEF Whole, Sound, Typed, NIL
  <2>2. b.node = [w \in DOMAIN node \ {x} |->
                    IF w # NIL /\ w = node[x].prev THEN [node[w] EXCEPT !.next = node[x].next]
                    ELSE IF w # NIL /\ w = node[x].next THEN [node[w] EXCEPT !.prev = node[x].prev]
                    ELSE node[w]]
    BY <1>2 DEF Unlink, Drop
  <2>3. DOMAIN b.node = DOMAIN node \ {x}
    BY <2>2
  <2>4. \A w \in DOMAIN b.node :
          b.node[w] = IF w = node[x].prev THEN [node[w] EXCEPT !.next = node[x].next]
                      ELSE IF w = node[x].next THEN [node[w] EXCEPT !.prev = node[x].prev]
                      ELSE node[w]
    BY <2>1, <2>2
  <2> QED
    BY <2>3, <2>4 DEF Cleared
<1>4. Chain(node, {x}, lo, hi, ht, 1, lo[x], hi[x])
  <2>1. \A h \in 0 .. 1 - 1 : h = 0
    OBVIOUS
  <2> QED
    BY <2>1 DEF Chain
<1>5. IsFiniteSet({x}) /\ Cardinality({x}) = 1
  BY FS_Singleton
<1>6. Gone(lo, hi, ht, x, 1, x, b, {x})
  BY <1>2, <1>3, <1>4, <1>5 DEF Gone
<1>7. levels - levels + 1 = 1 /\ levels # 0
  OBVIOUS
<1>8. Sunk(lo, hi, ht, S, x, levels, x, b)
  BY <1>2, <1>6, <1>7 DEF Sunk
<1> QED
  BY <1>1, <1>8

LEMMA FallsSink ==
  ASSUME NEW lo, NEW hi, NEW ht, Maps(lo, lo, hi, ht),
         levels \in Nat, levels > 0, Whole(node, root, lo, hi, ht, levels), NEW k \in Keys,
         NEW p, StepsDown(node, root, k, levels, p), Climbs(p, ht, levels),
         Leads(node, lo, hi, ht, levels, k, p),
         NEW x, x = p[levels], node[x].slots = <<k>>,
         NEW b, FallsUp(p, levels, k, Unlinked(x), b)
  PROVE  Settled(ht, EntriesIn(node, ht) \ {k}, b[0])
<1> DEFINE Good(i) == Sunk(lo, hi, ht, EntriesIn(node, ht) \ {k}, x, i, p[i], b[i])
           T == {m \in Nat : m <= levels /\ ~ Good(levels - m)}
<1>0. x \in DOMAIN node /\ ht[x] = 0
  <2>1. For(node, lo, hi, x, k) /\ ht[x] + levels = levels
    BY DEF Leads
  <2>2. x \in DOMAIN node /\ Sound(node, lo, lo, hi, ht, levels)
    BY <2>1 DEF For, Whole
  <2>3. ht[x] \in Nat
    BY <2>2, NodeFacts
  <2> QED
    BY <2>1, <2>2, <2>3
<1>1. ASSUME T # {} PROVE FALSE
  <2>1. PICK m \in T : \A l \in T : m <= l
    <3>1. T \subseteq Nat
      OBVIOUS
    <3> HIDE DEF T
    <3> QED
      BY <1>1, <3>1, LeastOfNaturals
  <2>2. m \in Nat /\ m <= levels /\ ~ Good(levels - m)
    OBVIOUS
  <2>3. m # 0
    <3> SUFFICES ASSUME m = 0 PROVE FALSE
      OBVIOUS
    <3>1. levels - m = levels
      OBVIOUS
    <3>2. b[levels] = Unlinked(x)
      BY DEF FallsUp
    <3>3. Good(levels)
      <4>1. Sunk(lo, hi, ht, EntriesIn(node, ht) \ {k}, x, levels, x, Unlinked(x))
        BY <1>0, UnlinkedSunk
      <4> QED
        BY <3>2, <4>1
    <3> HIDE DEF Good
    <3> QED
      BY <2>2, <3>1, <3>3
  <2>4. m - 1 \in Nat /\ m - 1 < m /\ m - 1 <= levels
    BY <2>2, <2>3
  <2>5. m - 1 \notin T
    BY <2>1, <2>4
  <2>6. PICK i : i = levels - m
    OBVIOUS
  <2>7. i \in 0 .. levels - 1 /\ levels - (m - 1) = i + 1
    BY <2>2, <2>3, <2>6
  <2>8. Good(i + 1)
    BY <2>4, <2>5, <2>7
  <2>9. PICK id, v, c : id = p[i] /\ v = p[i + 1] /\ c = b[i + 1]
    OBVIOUS
  <2>10. Sunk(lo, hi, ht, EntriesIn(node, ht) \ {k}, x, i + 1, v, c)
    BY <2>8, <2>9
  <2>11. b[i] = EraseAt(c, i, id, k)
    BY <2>7, <2>9 DEF FallsUp
  <2>12. PICK j : IsKid(node, ht, id, j, v)
    BY <2>7, <2>9 DEF Climbs
  <2>13. i \in 0 .. levels /\ i + 1 \in 1 .. levels /\ (i + 1) - 1 = i
    BY <2>7
  <2>14. For(node, lo, hi, id, k) /\ ht[id] + i = levels
    BY <2>9, <2>13 DEF Leads
  <2>15. v = Child(node[id], k) /\ (i = 0 => id = root)
    BY <2>9, <2>13 DEF StepsDown
  <2>16. Sunk(lo, hi, ht, EntriesIn(node, ht) \ {k}, x, i, id, EraseAt(c, i, id, k))
    BY <1>0, <2>7, <2>10, <2>12, <2>14, <2>15, SinkStep
  <2>17. Good(i)
    BY <2>9, <2>11, <2>16
  <2> HIDE DEF Good
  <2> QED
    BY <2>2, <2>6, <2>17
<1>2. Good(0)
  <2>1. levels \notin T
    <3> HIDE DEF T
    <3> QED
      BY <1>1
  <2>2. Good(levels - levels)
    BY <2>1
  <2>3. levels - levels = 0
    OBVIOUS
  <2> QED
    BY <2>2, <2>3
<1> QED
  BY <1>2 DEF Sunk

LEMMA EraseUpSettles ==
  ASSUME NEW lo, NEW hi, NEW ht, Maps(lo, lo, hi, ht),
         levels \in Nat, levels > 0, Whole(node, root, lo, hi, ht, levels), NEW k \in Keys,
         node[LeafOf(k)].slots = <<k>>
  PROVE  Settled(ht, EntriesIn(node, ht) \ {k}, EraseUp(k))
<1>1. k \in 1 .. INF
  BY INFType
<1>2. PICK p, x : p = Path(k) /\ x = p[levels]
  OBVIOUS
<1>3. node[x].slots = <<k>>
  BY <1>2 DEF LeafOf
<1>4. StepsDown(node, root, k, levels, p)
  BY <1>2, PathIs, WalkIs
<1>5. Climbs(p, ht, levels) /\ Leads(node, lo, hi, ht, levels, k, p)
  BY <1>1, <1>2, PathClimbs
<1>6. PICK b : EraseUp(k) = b[0] /\ FallsUp(p, levels, k, Unlinked(x), b)
  BY <1>2, EraseUpIs
<1>7. Settled(ht, EntriesIn(node, ht) \ {k}, b[0])
  BY <1>2, <1>3, <1>4, <1>5, <1>6, FallsSink
<1> QED
  BY <1>6, <1>7

-----------------------------------------------------------------------------
(* Roots with only a last child *)

\* p is the way down from r along the last children.
Downs(n, r, m, p) ==
  p = [i \in 0 .. m |-> IF i = 0 THEN r ELSE n[p[i - 1]].last]

LastDown(n, r, m, p) ==
  p[0] = r /\ \A i \in 1 .. m : p[i] = n[p[i - 1]].last

LEMMA DownsIs ==
  ASSUME NEW n, NEW r, NEW m \in Nat, NEW p, Downs(n, r, m, p)
  PROVE  LastDown(n, r, m, p)
<1>1. \A i \in 0 .. m : p[i] = IF i = 0 THEN r ELSE n[p[i - 1]].last
  BY DEF Downs
<1>2. 0 \in 0 .. m /\ \A i \in 1 .. m : i \in 0 .. m /\ i # 0
  OBVIOUS
<1> QED
  BY <1>1, <1>2 DEF LastDown

LEMMA DownsExist ==
  ASSUME NEW n, NEW r, NEW top \in Nat
  PROVE  \E p : Downs(n, r, top, p)
<1> DEFINE T == {m \in Nat : ~ \E p : Downs(n, r, m, p)}
<1> SUFFICES ASSUME T # {} PROVE FALSE
  OBVIOUS
<1>1. PICK m \in T : \A l \in T : m <= l
  <2>1. T \subseteq Nat
    OBVIOUS
  <2> HIDE DEF T
  <2> QED
    BY <2>1, LeastOfNaturals
<1>2. CASE m = 0
  <2> DEFINE a == [o \in 0 .. 0 |-> r]
  <2>1. Downs(n, r, 0, a)
    BY DEF Downs
  <2> QED
    BY <1>2, <2>1
<1>3. CASE m # 0
  <2>1. m \in Nat /\ m - 1 \in Nat /\ m - 1 < m
    BY <1>3
  <2>2. m - 1 \notin T
    BY <1>1, <2>1
  <2>3. PICK a : Downs(n, r, m - 1, a)
    BY <2>1, <2>2
  <2> DEFINE b == [i \in 0 .. m |-> IF i = 0 THEN r ELSE n[a[i - 1]].last]
  <2>4. \A o \in 0 .. m - 1 : b[o] = a[o]
    BY <2>1, <2>3 DEF Downs
  <2>5. \A o \in 0 .. m : o # 0 => o - 1 \in 0 .. m - 1
    BY <2>1
  <2>6. b = [i \in 0 .. m |-> IF i = 0 THEN r ELSE n[b[i - 1]].last]
    BY <2>4, <2>5
  <2>7. Downs(n, r, m, b)
    BY <2>6 DEF Downs
  <2> QED
    BY <1>1, <2>7
<1> QED
  BY <1>2, <1>3

\* n2 is n without the nodes S.
Less(n, S, n2) == DOMAIN n2 = DOMAIN n \ S /\ \A w \in DOMAIN n2 : n2[w] = n[w]

RootedAt(n, r, lo, hi, ht, top) ==
  Sound(n, lo, lo, hi, ht, top) /\ RootSound(n, r, lo, hi, ht, top)

LEMMA RootDrops ==
  ASSUME NEW lo, NEW hi, NEW ht, Maps(lo, lo, hi, ht), NEW n, NEW r, NEW top \in Nat, top # 0,
         RootedAt(n, r, lo, hi, ht, top), n[r].slots = <<>>, NEW n2, Less(n, {r}, n2)
  PROVE  /\ RootedAt(n2, n[r].last, lo, hi, ht, top - 1)
         /\ EntriesIn(n2, ht) = EntriesIn(n, ht)
<1>1. /\ Sound(n, lo, lo, hi, ht, top) /\ r \in DOMAIN n /\ ht[r] = top
      /\ lo[r] = 0 /\ hi[r] = INF
  BY DEF RootedAt, RootSound
<1>2. DOMAIN n2 = DOMAIN n \ {r} /\ \A w \in DOMAIN n2 : n2[w] = n[w]
  BY DEF Less
<1>3. ASSUME NEW w \in DOMAIN n
      PROVE  /\ lo[w] \in Nat /\ hi[w] \in Nat /\ ht[w] \in Nat
             /\ lo[w] < hi[w] /\ hi[w] <= INF /\ ht[w] <= top
             /\ ht[w] = 0 => n[w] \in LeafNodes /\ LeafSound(n, lo, hi, ht, top, w)
             /\ ht[w] # 0 => n[w] \in TreeNodes /\ KidsSound(n, lo, lo, hi, ht, w)
  BY <1>1, NodeFacts
<1>4. INF \in Nat
  BY INFType
<1>5. ASSUME NEW w \in DOMAIN n2
      PROVE  w \in DOMAIN n /\ w # r /\ ht[w] # top /\ ht[w] <= top - 1
  <2>1. w \in DOMAIN n /\ w # r
    BY <1>2
  <2>2. ht[w] # top
    <3> SUFFICES ASSUME ht[w] = top PROVE FALSE
      OBVIOUS
    <3>1. Disjoint(n, lo, hi, ht)
      BY <1>1 DEF Sound
    <3>2. hi[w] <= lo[r] \/ hi[r] <= lo[w]
      BY <1>1, <2>1, <3>1 DEF Disjoint
    <3> QED
      BY <1>1, <1>3, <1>4, <2>1, <3>2
  <2> QED
    BY <1>3, <2>1, <2>2
<1>6. Typed(n2, lo, hi, ht, top - 1)
  <2>1. IsFiniteSet(DOMAIN n2) /\ DOMAIN n2 \subseteq Nat \ {0}
    <3>1. IsFiniteSet(DOMAIN n) /\ DOMAIN n \subseteq Nat \ {0}
      BY <1>1 DEF Sound, Typed
    <3> QED
      BY <1>2, <3>1, FS_Subset
  <2> QED
    BY <1>2, <1>3, <1>5, <2>1 DEF Typed
<1>7. Disjoint(n2, lo, hi, ht)
  <2>1. Disjoint(n, lo, hi, ht)
    BY <1>1 DEF Sound
  <2> QED
    BY <1>2, <2>1 DEF Disjoint
<1>8. ASSUME NEW w \in DOMAIN n2, ht[w] = 0
      PROVE  LeafSound(n2, lo, hi, ht, top - 1, w)
  <2>1. w \in DOMAIN n /\ LeafSound(n, lo, hi, ht, top, w) /\ n2[w] = n[w]
    BY <1>2, <1>3, <1>5, <1>8
  <2>2. \A v \in DOMAIN n : ht[v] = 0 => v \in DOMAIN n2
    BY <1>1, <1>2
  <2> QED
    BY <2>1, <2>2 DEF LeafSound
<1>9. ASSUME NEW w \in DOMAIN n2, ht[w] # 0
      PROVE  KidsSound(n2, lo, lo, hi, ht, w)
  <2>1. w \in DOMAIN n /\ KidsSound(n, lo, lo, hi, ht, w) /\ n2[w] = n[w]
    BY <1>2, <1>3, <1>5, <1>9
  <2>2. ASSUME NEW j \in 1 .. Len(n[w].slots) + 1 PROVE Kid(n[w], j) \in DOMAIN n2
    <3>1. PICK v : v = Kid(n[w], j)
      OBVIOUS
    <3>2. v \in DOMAIN n /\ ht[v] + 1 = ht[w]
      BY <2>1, <3>1 DEF KidsSound
    <3>3. ht[v] # top
      BY <1>3, <1>5, <2>1, <3>2
    <3> QED
      BY <1>1, <1>2, <3>1, <3>2, <3>3
  <2> QED
    BY <2>1, <2>2 DEF KidsSound
<1>10. Sound(n2, lo, lo, hi, ht, top - 1)
  BY <1>6, <1>7, <1>8, <1>9 DEF Sound
<1>11. RootSound(n2, n[r].last, lo, hi, ht, top - 1)
  <2>1. Len(n[r].slots) = 0 /\ 1 \in 1 .. Len(n[r].slots) + 1
    OBVIOUS
  <2>2. KidsSound(n, lo, lo, hi, ht, r)
    BY <1>1, <1>3
  <2>3. PICK v : v = n[r].last
    OBVIOUS
  <2>4. Kid(n[r], 1) = v /\ Low(n[r], 1, lo[r]) = 0 /\ High(n[r], 1, hi[r]) = INF
    BY <1>1, <2>1, <2>3 DEF Kid, Low, High
  <2>5. v \in DOMAIN n /\ ht[v] + 1 = top /\ lo[v] = 0 /\ hi[v] = INF
    BY <1>1, <2>1, <2>2, <2>4 DEF KidsSound
  <2>6. ht[v] \in Nat
    BY <1>3, <2>5
  <2>7. v # r /\ ht[v] = top - 1
    BY <1>1, <2>5, <2>6
  <2> QED
    BY <1>2, <2>3, <2>5, <2>7 DEF RootSound
<1>12. EntriesIn(n2, ht) = EntriesIn(n, ht)
  BY <1>1, <1>2 DEF EntriesIn
<1> QED
  BY <1>10, <1>11, <1>12 DEF RootedAt

\* The first m nodes of the way p have been dropped.
Skipped(n, p, lo, hi, ht, top, m, n2) ==
  /\ RootedAt(n2, p[m], lo, hi, ht, top - m)
  /\ EntriesIn(n2, ht) = EntriesIn(n, ht)
  /\ Cardinality(DOMAIN n2) + m = Cardinality(DOMAIN n)

LEMMA OneSkipped ==
  ASSUME NEW lo, NEW hi, NEW ht, Maps(lo, lo, hi, ht), NEW n, NEW top \in Nat, NEW p,
         NEW m \in Nat, m < top, p[m + 1] = n[p[m]].last, n[p[m]].slots = <<>>,
         NEW a, Skipped(n, p, lo, hi, ht, top, m, a), NEW S, Less(n, S, a),
         NEW n2, Less(n, S \cup {p[m]}, n2)
  PROVE  Skipped(n, p, lo, hi, ht, top, m + 1, n2)
<1>1. PICK r, h : r = p[m] /\ h = top - m
  OBVIOUS
<1>2. h \in Nat /\ h # 0 /\ top - (m + 1) = h - 1
  BY <1>1
<1>3. /\ RootedAt(a, r, lo, hi, ht, h)
      /\ EntriesIn(a, ht) = EntriesIn(n, ht)
      /\ Cardinality(DOMAIN a) + m = Cardinality(DOMAIN n)
  BY <1>1 DEF Skipped
<1>4. r \in DOMAIN a /\ IsFiniteSet(DOMAIN a)
  BY <1>3 DEF RootedAt, RootSound, Sound, Typed
<1>5. Less(a, {r}, n2) /\ a[r] = n[r]
  BY <1>1, <1>4 DEF Less
<1>6. a[r].slots = <<>> /\ a[r].last = p[m + 1]
  BY <1>1, <1>5
<1>7. RootedAt(n2, p[m + 1], lo, hi, ht, h - 1) /\ EntriesIn(n2, ht) = EntriesIn(a, ht)
  <2>1. RootedAt(n2, a[r].last, lo, hi, ht, h - 1) /\ EntriesIn(n2, ht) = EntriesIn(a, ht)
    BY <1>2, <1>3, <1>5, <1>6, RootDrops
  <2> QED
    BY <1>6, <2>1
<1>8. Cardinality(DOMAIN n2) + (m + 1) = Cardinality(DOMAIN n)
  <2>1. DOMAIN n2 = DOMAIN a \ {r} /\ {r} \subseteq DOMAIN a
    BY <1>4, <1>5 DEF Less
  <2>2. Cardinality(DOMAIN a \ {r}) + Cardinality({r}) = Cardinality(DOMAIN a)
    BY <1>4, <2>1, CardinalityLeft
  <2>3. Cardinality({r}) = 1
    BY FS_Singleton
  <2>4. IsFiniteSet(DOMAIN n2)
    BY <1>4, <2>1, FS_Subset
  <2>5. PICK u, v, w : u = Cardinality(DOMAIN n2) /\ v = Cardinality(DOMAIN a) /\ w = Cardinality(DOMAIN n)
    OBVIOUS
  <2>6. u \in Nat /\ v \in Nat
    BY <1>4, <2>4, <2>5, FS_CardinalityType
  <2>7. u + 1 = v /\ v + m = w
    BY <1>3, <2>1, <2>2, <2>3, <2>5
  <2>8. u + (m + 1) = w
    BY <2>6, <2>7
  <2> QED
    BY <2>5, <2>8
<1> QED
  BY <1>2, <1>3, <1>7, <1>8 DEF Skipped

\* The nodes on the way p above the m-th.
Above(p, m) == {p[i] : i \in 0 .. m - 1}

LEMMA SkipsSound ==
  ASSUME NEW lo, NEW hi, NEW ht, Maps(lo, lo, hi, ht), NEW n, NEW r, NEW top \in Nat,
         RootedAt(n, r, lo, hi, ht, top), NEW p, LastDown(n, r, top, p),
         NEW s \in 0 .. top, \A i \in 0 .. s - 1 : n[p[i]].slots = <<>>
  PROVE  Skipped(n, p, lo, hi, ht, top, s, Drop(n, Above(p, s)))
<1> DEFINE Good(m) == Skipped(n, p, lo, hi, ht, top, m, Drop(n, Above(p, m)))
           T == {m \in Nat : m <= s /\ ~ Good(m)}
<1>1. ASSUME T # {} PROVE FALSE
  <2>1. PICK m \in T : \A l \in T : m <= l
    <3>1. T \subseteq Nat
      OBVIOUS
    <3> HIDE DEF T
    <3> QED
      BY <1>1, <3>1, LeastOfNaturals
  <2>2. m \in Nat /\ m <= s /\ ~ Good(m)
    OBVIOUS
  <2>3. m # 0
    <3> SUFFICES ASSUME m = 0 PROVE FALSE
      OBVIOUS
    <3>1. Above(p, 0) = {}
      BY DEF Above
    <3>2. PICK a : a = Drop(n, Above(p, 0))
      OBVIOUS
    <3>3. a = [w \in DOMAIN n |-> n[w]]
      BY <3>1, <3>2 DEF Drop
    <3>4. DOMAIN a = DOMAIN n /\ \A w \in DOMAIN n : a[w] = n[w]
      BY <3>3
    <3>5. Less(n, {}, a)
      BY <3>4 DEF Less
    <3>6. RootedAt(a, r, lo, hi, ht, top)
      BY <3>4 DEF RootedAt, RootSound, Sound, Typed, Disjoint, LeafSound, KidsSound
    <3>7. EntriesIn(a, ht) = EntriesIn(n, ht)
      BY <3>4 DEF EntriesIn
    <3>8. Cardinality(DOMAIN a) + 0 = Cardinality(DOMAIN n)
      <4>1. IsFiniteSet(DOMAIN n)
        BY DEF RootedAt, Sound, Typed
      <4>2. Cardinality(DOMAIN n) \in Nat
        BY <4>1, FS_CardinalityType
      <4> QED
        BY <3>4, <4>2
    <3>9. Good(0)
      <4>1. p[0] = r /\ top - 0 = top
        BY DEF LastDown
      <4> QED
        BY <3>2, <3>6, <3>7, <3>8, <4>1 DEF Skipped
    <3> HIDE DEF Good
    <3> QED
      BY <2>2, <3>9
  <2>4. m - 1 \in Nat /\ m - 1 < m /\ m - 1 <= s /\ (m - 1) + 1 = m
    BY <2>2, <2>3
  <2>5. m - 1 \notin T
    BY <2>1, <2>4
  <2>6. PICK o : o = m - 1
    OBVIOUS
  <2>7. o \in Nat /\ o < top /\ o + 1 = m /\ o \in 0 .. s - 1 /\ o + 1 \in 1 .. top /\ (o + 1) - 1 = o
    BY <2>2, <2>3, <2>4, <2>6
  <2>8. Good(o)
    BY <2>4, <2>5, <2>6
  <2>9. Above(p, o + 1) = Above(p, o) \cup {p[o]}
    <3>1. \A i : i \in 0 .. (o + 1) - 1 <=> (i \in 0 .. o - 1 \/ i = o)
      BY <2>7
    <3> QED
      BY <3>1 DEF Above
  <2>10. PICK a, n2 : a = Drop(n, Above(p, o)) /\ n2 = Drop(n, Above(p, o + 1))
    OBVIOUS
  <2>11. Less(n, Above(p, o), a) /\ Less(n, Above(p, o) \cup {p[o]}, n2)
    BY <2>9, <2>10 DEF Less, Drop
  <2>12. p[o + 1] = n[p[o]].last /\ n[p[o]].slots = <<>>
    BY <2>7 DEF LastDown
  <2>13. Skipped(n, p, lo, hi, ht, top, o, a)
    BY <2>8, <2>10
  <2>14. Skipped(n, p, lo, hi, ht, top, o + 1, n2)
    BY <2>7, <2>11, <2>12, <2>13, OneSkipped
  <2>15. Good(o + 1)
    BY <2>10, <2>14
  <2> HIDE DEF Good
  <2> QED
    BY <2>2, <2>7, <2>15
<1>2. Good(s)
  <2>1. s \notin T
    <3> HIDE DEF T
    <3> QED
      BY <1>1
  <2> HIDE DEF Good
  <2> QED
    BY <2>1
<1> QED
  BY <1>2

-----------------------------------------------------------------------------
(* EraseLeaf *)

\* The roots that are skipped on the way p: s of them.
Skips(n, p, s) ==
  /\ s \in 0 .. levels
  /\ \A i \in 0 .. s - 1 : n[p[i]].slots = <<>>
  /\ s # levels => n[p[s]].slots # <<>>

LEMMA LastPathIs ==
  ASSUME NEW n, levels \in Nat
  PROVE  LastDown(n, root, levels, LastPath(n))
<1>1. PICK p : Downs(n, root, levels, p)
  BY DownsExist
<1>2. LastPath(n) = CHOOSE q : Downs(n, root, levels, q)
  BY DEF LastPath, Downs
<1>3. Downs(n, root, levels, CHOOSE q : Downs(n, root, levels, q))
  BY <1>1
<1>4. Downs(n, root, levels, LastPath(n))
  BY <1>2, <1>3
<1> QED
  BY <1>4, DownsIs

LEMMA OnlyLastIs ==
  ASSUME NEW n, levels \in Nat
  PROVE  Skips(n, LastPath(n), OnlyLast(n))
<1> DEFINE Q == {i \in 0 .. levels : i = levels \/ n[LastPath(n)[i]].slots # <<>>}
<1>1. PICK p, s : p = LastPath(n) /\ s = OnlyLast(n)
  OBVIOUS
<1>2. s = Min(Q)
  BY <1>1 DEF OnlyLast
<1>3. Q = {i \in 0 .. levels : i = levels \/ n[p[i]].slots # <<>>}
  BY <1>1
<1> HIDE DEF Q
<1>4. Q \subseteq Nat /\ levels \in Q
  BY <1>3
<1>5. s \in Q /\ \A y \in Q : s <= y
  BY <1>2, <1>4, MinIs
<1>6. s \in 0 .. levels /\ (s # levels => n[p[s]].slots # <<>>)
  BY <1>3, <1>5
<1>7. ASSUME NEW i \in 0 .. s - 1 PROVE n[p[i]].slots = <<>>
  <2>1. i \in 0 .. levels /\ i # levels /\ ~ s <= i
    BY <1>6
  <2>2. i \notin Q
    BY <1>5, <2>1
  <2> QED
    BY <1>3, <2>1, <2>2
<1> QED
  BY <1>1, <1>6, <1>7 DEF Skips

\* What EraseLeaf does, in these terms.
Collapses(n, c, p, s) ==
  /\ LastDown(n, root, levels, p) /\ Skips(n, p, s)
  /\ node' = Drop(n, Above(p, s)) /\ root' = p[s] /\ levels' = levels - s
  /\ nnodes' = nnodes - c - s

LEMMA EraseLeafIs ==
  ASSUME NEW k, EraseLeaf(k), levels \in Nat
  PROVE  \E p, s : Collapses(EraseUp(k).node, EraseUp(k).count, p, s)
<1>1. PICK n, c, p, s : /\ n = EraseUp(k).node /\ c = EraseUp(k).count
                        /\ p = LastPath(n) /\ s = OnlyLast(n)
  OBVIOUS
<1>2. /\ node' = Drop(n, {p[i] : i \in 0 .. (s - 1)}) /\ root' = p[s] /\ levels' = levels - s
      /\ nnodes' = nnodes - c - s
  BY <1>1 DEF EraseLeaf
<1>3. LastDown(n, root, levels, p) /\ Skips(n, p, s)
  BY <1>1, LastPathIs, OnlyLastIs
<1>4. node' = Drop(n, Above(p, s))
  BY <1>2 DEF Above
<1>5. Collapses(n, c, p, s)
  BY <1>2, <1>3, <1>4 DEF Collapses
<1> QED
  BY <1>1, <1>5

LEMMA EraseLeafStep ==
  ASSUME NEW lo \in [Nat -> Nat], NEW hi \in [Nat -> Nat], NEW ht \in [Nat -> Nat],
         Types, Ranged(lo, hi, ht), NEW k \in Keys, EraseLeaf(k)
  PROVE  Types' /\ \E lo2, hi2, ht2 \in [Nat -> Nat] :
                     /\ Ranged(lo2, hi2, ht2)'
                     /\ Drops(EntriesIn(node, ht), k, EntriesIn(node', ht2))
<1>1. PICK S : S = EntriesIn(node, ht) \ {k}
  OBVIOUS
<1>2. /\ Maps(lo, lo, hi, ht) /\ levels \in Nat /\ Whole(node, root, lo, hi, ht, levels)
      /\ nnodes = Cardinality(DOMAIN node)
  BY DEF Maps, Types, Ranged, Whole
<1>3. node[LeafOf(k)].slots = <<k>> /\ levels > 0 /\ Stale /\ UNCHANGED failed
  BY DEF EraseLeaf
<1>4. k \in EntriesIn(node, ht)
  <2>1. PICK x : x = LeafOf(k)
    OBVIOUS
  <2>2. x \in DOMAIN node /\ ht[x] = 0 /\ node[x].slots = <<k>>
    BY <1>3, <2>1, LeafFacts
  <2>3. k \in ToSet(<<k>>)
    BY DEF ToSet
  <2> QED
    BY <2>2, <2>3 DEF EntriesIn
<1>5. PICK b : b = EraseUp(k)
  OBVIOUS
<1>6. Settled(ht, S, b)
  BY <1>1, <1>2, <1>3, <1>5, EraseUpSettles
<1>7. PICK n, c : n = b.node /\ c = b.count
  OBVIOUS
<1>8. PICK p, s : Collapses(n, c, p, s)
  BY <1>2, <1>5, <1>7, EraseLeafIs
<1>9. PICK l, h : /\ Maps(l, l, h, ht) /\ RootedAt(n, root, l, h, ht, levels)
                  /\ EntriesIn(n, ht) = S
  BY <1>6, <1>7 DEF Settled, RootedAt
<1>10. c \in Nat /\ Cardinality(DOMAIN n) + c = Cardinality(DOMAIN node)
  BY <1>6, <1>7 DEF Settled
<1>11. /\ LastDown(n, root, levels, p) /\ s \in 0 .. levels
       /\ \A i \in 0 .. s - 1 : n[p[i]].slots = <<>>
       /\ s # levels => n[p[s]].slots # <<>>
       /\ node' = Drop(n, Above(p, s)) /\ root' = p[s] /\ levels' = levels - s
       /\ nnodes' = nnodes - c - s
  BY <1>8 DEF Collapses, Skips
<1>12. Skipped(n, p, l, h, ht, levels, s, node')
  <2>1. Skipped(n, p, l, h, ht, levels, s, Drop(n, Above(p, s)))
    BY <1>2, <1>9, <1>11, SkipsSound
  <2> QED
    BY <1>11, <2>1
<1>13. /\ RootedAt(node', root', l, h, ht, levels') /\ EntriesIn(node', ht) = S
       /\ Cardinality(DOMAIN node') + s = Cardinality(DOMAIN n)
  BY <1>9, <1>11, <1>12 DEF Skipped
<1>14. levels' \in Nat /\ (levels' > 0 => s # levels)
  <2>1. PICK m : m = levels
    OBVIOUS
  <2>2. m \in Nat /\ s \in 0 .. m /\ levels' = m - s
    BY <1>2, <1>11, <2>1
  <2>3. m - s \in Nat /\ (m - s > 0 => s # m)
    BY <2>2
  <2> QED
    BY <2>1, <2>2, <2>3
<1>15. levels' > 0 => node'[root'].slots # <<>>
  <2>1. root' \in DOMAIN node'
    BY <1>13 DEF RootedAt, RootSound
  <2>2. node'[root'] = n[root']
    BY <1>11, <2>1 DEF Drop
  <2> QED
    BY <1>11, <1>14, <2>2
<1>16. Becomes(node', root', levels', S)
  <2>1. Whole(node', root', l, h, ht, levels')
    BY <1>13, <1>15 DEF Whole, RootedAt
  <2> QED
    BY <1>9, <1>13, <2>1 DEF Becomes
<1>17. nnodes' = Cardinality(DOMAIN node')
  <2>1. PICK u, v, w, z : /\ u = Cardinality(DOMAIN node') /\ v = Cardinality(DOMAIN n)
                          /\ w = nnodes /\ z = s
    OBVIOUS
  <2>2. IsFiniteSet(DOMAIN n) /\ IsFiniteSet(DOMAIN node')
    BY <1>9, <1>13 DEF RootedAt, Sound, Typed
  <2>3. u \in Nat /\ v \in Nat /\ z \in Nat
    BY <1>11, <2>1, <2>2, FS_CardinalityType
  <2>4. u + z = v /\ v + c = w /\ nnodes' = w - c - z
    BY <1>2, <1>10, <1>11, <1>13, <2>1
  <2>5. nnodes' = u
    BY <1>10, <2>3, <2>4
  <2> QED
    BY <2>1, <2>5
<1>18. Types' /\ \E lo2, hi2, ht2 \in [Nat -> Nat] :
                   Ranged(lo2, hi2, ht2)' /\ EntriesIn(node', ht2) = S
  BY <1>3, <1>14, <1>16, <1>17, Replaced
<1> QED
  BY <1>1, <1>4, <1>18 DEF Drops

-----------------------------------------------------------------------------
(* The iterator.  It lands on the least or the greatest of some entries.    *)

Stands(lo, hi, ht) == Maps(lo, lo, hi, ht) /\ Types /\ Ranged(lo, hi, ht)

LeafAt(x, ht) == x \in DOMAIN node /\ ht[x] = 0

LEMMA LeafAtIs ==
  ASSUME NEW lo, NEW hi, NEW ht, Stands(lo, hi, ht), NEW x, LeafAt(x, ht)
  PROVE  /\ x \in Nat /\ x # 0 /\ lo[x] \in Nat /\ hi[x] \in Nat /\ lo[x] < hi[x] /\ hi[x] <= INF
         /\ node[x].slots \in Seq(Keys) /\ Increasing(node[x].slots)
         /\ \A e \in ToSet(node[x].slots) : e \in Keys /\ lo[x] < e /\ e <= hi[x]
         /\ node[x].slots # <<>> \/ levels = 0
         /\ node[x].next \in Nat /\ node[x].prev \in Nat
         /\ IF hi[x] = INF THEN node[x].next = NIL
            ELSE LeafAt(node[x].next, ht) /\ lo[node[x].next] = hi[x]
         /\ IF lo[x] = 0 THEN node[x].prev = NIL
            ELSE LeafAt(node[x].prev, ht) /\ hi[node[x].prev] = lo[x]
<1>1. /\ Maps(lo, lo, hi, ht) /\ Sound(node, lo, lo, hi, ht, levels) /\ levels \in Nat
      /\ x \in DOMAIN node /\ ht[x] = 0
  BY DEF Stands, Types, Ranged, LeafAt
<1>2. /\ x \in Nat /\ x # 0 /\ lo[x] \in Nat /\ hi[x] \in Nat /\ lo[x] < hi[x] /\ hi[x] <= INF
      /\ node[x] \in LeafNodes /\ LeafSound(node, lo, hi, ht, levels, x)
  BY <1>1, NodeFacts
<1>3. node[x].slots \in Seq(Keys) /\ node[x].next \in Nat /\ node[x].prev \in Nat
  BY <1>2, LeafNodeIs
<1>4. /\ Increasing(node[x].slots) /\ Within(node[x].slots, lo[x], hi[x])
      /\ node[x].slots # <<>> \/ levels = 0
      /\ IF hi[x] = INF THEN node[x].next = NIL
         ELSE LeafAt(node[x].next, ht) /\ lo[node[x].next] = hi[x]
      /\ IF lo[x] = 0 THEN node[x].prev = NIL
         ELSE LeafAt(node[x].prev, ht) /\ hi[node[x].prev] = lo[x]
  BY <1>2 DEF LeafSound, LeafAt
<1>5. \A e \in ToSet(node[x].slots) : e \in Keys /\ lo[x] < e /\ e <= hi[x]
  BY <1>3, <1>4, MembersAre DEF Within
<1> QED
  BY <1>2, <1>3, <1>4, <1>5

\* The entry e is in a leaf after the one at x.
Later(x, e, lo, hi, ht) ==
  \E y : LeafAt(y, ht) /\ e \in ToSet(node[y].slots) /\ hi[x] <= lo[y] /\ lo[y] < e
Earlier(x, e, lo, hi, ht) ==
  \E y : LeafAt(y, ht) /\ e \in ToSet(node[y].slots) /\ hi[y] <= lo[x] /\ e <= hi[y]

LEMMA Elsewhere ==
  ASSUME NEW lo, NEW hi, NEW ht, Stands(lo, hi, ht), NEW x, LeafAt(x, ht),
         NEW e \in EntriesIn(node, ht)
  PROVE  /\ e \in Keys /\ e \in Nat
         /\ \/ e \in ToSet(node[x].slots)
            \/ Earlier(x, e, lo, hi, ht)
            \/ Later(x, e, lo, hi, ht)
<1>1. PICK y \in DOMAIN node : ht[y] = 0 /\ e \in ToSet(node[y].slots)
  BY DEF EntriesIn
<1>2. LeafAt(y, ht) /\ e \in Keys /\ e \in Nat
  BY <1>1, INFType DEF LeafAt, EntriesIn
<1>3. lo[y] < e /\ e <= hi[y]
  BY <1>1, <1>2, LeafAtIs
<1>4. y # x => hi[x] <= lo[y] \/ hi[y] <= lo[x]
  BY <1>1, <1>2 DEF Stands, Ranged, Sound, Disjoint, LeafAt
<1>5. CASE y = x
  BY <1>1, <1>2, <1>5
<1>6. CASE y # x /\ hi[x] <= lo[y]
  BY <1>1, <1>2, <1>3, <1>6 DEF Later
<1>7. CASE y # x /\ hi[y] <= lo[x]
  BY <1>1, <1>2, <1>3, <1>7 DEF Earlier
<1> QED
  BY <1>4, <1>5, <1>6, <1>7

LEMMA LaterAbove ==
  ASSUME NEW lo, NEW hi, NEW ht, Stands(lo, hi, ht), NEW x, LeafAt(x, ht),
         NEW e, Later(x, e, lo, hi, ht)
  PROVE  e \in Nat /\ e > hi[x] /\ e > lo[x] /\ hi[x] # INF
<1>1. PICK y : LeafAt(y, ht) /\ e \in ToSet(node[y].slots) /\ hi[x] <= lo[y] /\ lo[y] < e
  BY DEF Later
<1>2. /\ lo[y] \in Nat /\ hi[y] \in Nat /\ lo[y] < hi[y] /\ hi[y] <= INF /\ e \in Keys
  BY <1>1, LeafAtIs
<1>3. hi[x] \in Nat /\ lo[x] \in Nat /\ lo[x] < hi[x]
  BY LeafAtIs
<1> QED
  BY <1>1, <1>2, <1>3, INFType

LEMMA EarlierBelow ==
  ASSUME NEW lo, NEW hi, NEW ht, Stands(lo, hi, ht), NEW x, LeafAt(x, ht),
         NEW e, Earlier(x, e, lo, hi, ht)
  PROVE  e \in Nat /\ e <= lo[x] /\ e < hi[x] /\ lo[x] # 0
<1>1. PICK y : LeafAt(y, ht) /\ e \in ToSet(node[y].slots) /\ hi[y] <= lo[x] /\ e <= hi[y]
  BY DEF Earlier
<1>2. /\ lo[y] \in Nat /\ hi[y] \in Nat /\ lo[y] < hi[y] /\ e \in Keys
  BY <1>1, LeafAtIs
<1>3. hi[x] \in Nat /\ lo[x] \in Nat /\ lo[x] < hi[x]
  BY LeafAtIs
<1> QED
  BY <1>1, <1>2, <1>3, INFType

\* The iterator a is at an entry of T, and on the leaf that is for it.
On(a, T, lo, hi, ht) ==
  /\ a \in [off : Nat, cur : Keys, fresh : {TRUE}]
  /\ LeafAt(a.off, ht) /\ lo[a.off] < a.cur /\ a.cur <= hi[a.off]
  /\ a.cur \in T

ItsType == [off : Nat, cur : Keys \cup {NIL}, fresh : BOOLEAN]

OnLeast(a, T, lo, hi, ht) ==
  /\ a \in ItsType
  /\ IF a.off = NIL THEN T = {}
     ELSE On(a, T, lo, hi, ht) /\ \A e \in T : a.cur <= e

OnGreatest(a, T, lo, hi, ht) ==
  /\ a \in ItsType
  /\ IF a.off = NIL THEN T = {}
     ELSE On(a, T, lo, hi, ht) /\ \A e \in T : e <= a.cur

\* The i-th entry of the leaf at x.
IsEntry(a, x, i, lo, hi, ht) ==
  /\ On(a, EntriesIn(node, ht), lo, hi, ht) /\ a \in ItsType
  /\ a.off = x /\ a.off # NIL /\ a.cur = node[x].slots[i] /\ a.cur \in Nat
  /\ \A e \in ToSet(node[x].slots) :
       \E j \in 1 .. Len(node[x].slots) :
         /\ node[x].slots[j] = e
         /\ j < i => e < a.cur
         /\ i < j => a.cur < e

LEMMA OnEntry ==
  ASSUME NEW lo, NEW hi, NEW ht, Stands(lo, hi, ht), NEW x, LeafAt(x, ht),
         NEW i \in 1 .. Len(node[x].slots), NEW a,
         a = [off |-> x, cur |-> node[x].slots[i], fresh |-> TRUE]
  PROVE  IsEntry(a, x, i, lo, hi, ht)
<1>1. PICK s, c : s = node[x].slots /\ c = s[i]
  OBVIOUS
<1>2. /\ x \in Nat /\ x # 0 /\ s \in Seq(Keys) /\ Increasing(s)
      /\ \A e \in ToSet(s) : e \in Keys /\ lo[x] < e /\ e <= hi[x]
  BY <1>1, LeafAtIs
<1>3. DOMAIN s = 1 .. Len(s) /\ \A e : e \in ToSet(s) <=> \E j \in 1 .. Len(s) : s[j] = e
  BY <1>2, MembersAre
<1>4. c \in ToSet(s) /\ c \in Keys /\ c \in Nat /\ lo[x] < c /\ c <= hi[x]
  BY <1>1, <1>2, <1>3, INFType
<1>5. a = [off |-> x, cur |-> c, fresh |-> TRUE]
  BY <1>1
<1>6. a.off = x /\ a.cur = c /\ a \in [off : Nat, cur : Keys, fresh : {TRUE}] /\ a \in ItsType
  BY <1>2, <1>4, <1>5 DEF ItsType
<1>7. c \in EntriesIn(node, ht)
  BY <1>1, <1>4 DEF EntriesIn, LeafAt
<1>8. On(a, EntriesIn(node, ht), lo, hi, ht)
  BY <1>4, <1>6, <1>7 DEF On
<1>9. \A e \in ToSet(s) : \E j \in 1 .. Len(s) : s[j] = e /\ (j < i => e < c) /\ (i < j => c < e)
  <2> SUFFICES ASSUME NEW e \in ToSet(s)
               PROVE  \E j \in 1 .. Len(s) : s[j] = e /\ (j < i => e < c) /\ (i < j => c < e)
    OBVIOUS
  <2>1. PICK j \in 1 .. Len(s) : s[j] = e
    BY <1>3
  <2>2. i \in 1 .. Len(s)
    BY <1>1
  <2>3. (j < i => s[j] < s[i]) /\ (i < j => s[i] < s[j])
    BY <1>2, <1>3, <2>2 DEF Increasing
  <2> QED
    BY <1>1, <2>1, <2>3
<1> QED
  BY <1>1, <1>2, <1>6, <1>8, <1>9, <1>4 DEF NIL, IsEntry

\* Another leaf than the only one has entries.
LEMMA NeighbourFilled ==
  ASSUME NEW lo, NEW hi, NEW ht, Stands(lo, hi, ht), NEW x, LeafAt(x, ht),
         NEW y, LeafAt(y, ht), x # y
  PROVE  node[y].slots # <<>>
<1>1. Maps(lo, lo, hi, ht) /\ Whole(node, root, lo, hi, ht, levels) /\ levels \in Nat
  BY DEF Stands, Types, Ranged, Whole
<1>2. levels = 0 => DOMAIN node = {root}
  BY <1>1, OnlyLeaf
<1>3. levels # 0
  BY <1>2 DEF LeafAt
<1> QED
  BY <1>3, LeafAtIs

Beyond(S, c) == {e \in S : e > c}
Below(S, c) == {e \in S : e < c}
FromOn(S, c) == {e \in S : e >= c}

LEMMA AfterLands ==
  ASSUME NEW lo, NEW hi, NEW ht, Stands(lo, hi, ht), NEW x, LeafAt(x, ht),
         NEW c \in Keys, lo[x] < c, c <= hi[x]
  PROVE  OnLeast(After(x, c), Beyond(EntriesIn(node, ht), c), lo, hi, ht)
<1>1. PICK s, i, n, S, a : /\ s = node[x].slots /\ i = UpperBound(s, c) /\ n = node[x].next
                           /\ S = EntriesIn(node, ht) /\ a = After(x, c)
  OBVIOUS
<1>2. /\ x \in Nat /\ lo[x] \in Nat /\ hi[x] \in Nat /\ s \in Seq(Keys) /\ s \in Seq(Nat)
      /\ Increasing(s) /\ c \in Nat
      /\ IF hi[x] = INF THEN n = NIL ELSE LeafAt(n, ht) /\ lo[n] = hi[x]
  BY <1>1, LeafAtIs, SeqOfKeys, INFType
<1>3. FirstAbove(s, c, i)
  BY <1>1, <1>2, UpperBoundIs
<1>4. /\ i \in 1 .. Len(s) + 1 /\ \A j \in 1 .. Len(s) : j < i => s[j] <= c
      /\ i <= Len(s) => s[i] > c
  BY <1>3 DEF FirstAbove
<1>5. \A e \in S : e \in Nat /\ (e \in ToSet(s) \/ Earlier(x, e, lo, hi, ht) \/ Later(x, e, lo, hi, ht))
  BY <1>1, Elsewhere
<1>6. \A e : Earlier(x, e, lo, hi, ht) => e \in Nat /\ e < c
  BY <1>2, EarlierBelow
<1>7. \A e : e \in ToSet(s) <=> \E j \in 1 .. Len(s) : s[j] = e
  BY <1>2, MembersAre
<1>8. CASE i <= Len(s)
  <2>1. i \in 1 .. Len(node[x].slots) /\ a = [off |-> x, cur |-> node[x].slots[i], fresh |-> TRUE]
    BY <1>1, <1>4, <1>8 DEF After
  <2>2. /\ On(a, S, lo, hi, ht) /\ a \in ItsType /\ a.off # NIL /\ a.cur = s[i] /\ a.cur \in Nat
        /\ \A e \in ToSet(s) : \E j \in 1 .. Len(s) :
             s[j] = e /\ (j < i => e < a.cur) /\ (i < j => a.cur < e)
    <3>1. IsEntry(a, x, i, lo, hi, ht)
      BY <2>1, OnEntry
    <3> QED
      BY <1>1, <3>1 DEF IsEntry
  <2>3. a.cur > c /\ a.cur <= hi[x]
    <3>1. s[i] \in ToSet(s)
      BY <1>1, <1>7, <2>1
    <3>2. s[i] <= hi[x]
      BY <1>1, <3>1, LeafAtIs
    <3> QED
      BY <1>4, <1>8, <2>2, <3>2
  <2>4. ASSUME NEW e \in Beyond(S, c) PROVE a.cur <= e
    <3>1. e \in S /\ e > c /\ e \in Nat
      BY <1>5 DEF Beyond
    <3>2. CASE e \in ToSet(s)
      <4>1. PICK j \in 1 .. Len(s) : s[j] = e /\ (j < i => e < a.cur) /\ (i < j => a.cur < e)
        BY <2>2, <3>2
      <4>2. ~ j < i
        BY <1>2, <1>4, <3>1, <4>1
      <4>3. j = i \/ i < j
        BY <1>4, <4>2
      <4> QED
        BY <2>2, <3>1, <4>1, <4>3
    <3>3. CASE Later(x, e, lo, hi, ht)
      BY <1>2, <2>2, <2>3, <3>1, <3>3, LaterAbove
    <3> QED
      BY <1>2, <1>5, <1>6, <3>1, <3>2, <3>3
  <2>5. On(a, Beyond(S, c), lo, hi, ht)
    BY <2>2, <2>3 DEF On, Beyond
  <2>6. OnLeast(a, Beyond(S, c), lo, hi, ht)
    BY <2>2, <2>4, <2>5 DEF OnLeast
  <2> QED
    BY <1>1, <2>6
<1>9. CASE i > Len(s) /\ n = NIL
  <2>1. a = [off |-> NIL, cur |-> c, fresh |-> TRUE]
    BY <1>1, <1>4, <1>9 DEF After
  <2>2. a \in ItsType /\ a.off = NIL
    BY <2>1 DEF ItsType, NIL
  <2>3. ASSUME NEW e \in Beyond(S, c) PROVE FALSE
    <3>1. e \in S /\ e > c /\ e \in Nat
      BY <1>5 DEF Beyond
    <3>2. CASE e \in ToSet(s)
      BY <1>2, <1>4, <1>7, <1>9, <3>1, <3>2
    <3>3. CASE Later(x, e, lo, hi, ht)
      <4>1. hi[x] # INF
        BY <3>3, LaterAbove
      <4>2. LeafAt(n, ht)
        BY <1>2, <4>1
      <4>3. n # 0
        BY <4>2, LeafAtIs
      <4> QED
        BY <1>9, <4>3 DEF NIL
    <3> QED
      BY <1>2, <1>5, <1>6, <3>1, <3>2, <3>3
  <2>4. Beyond(S, c) = {}
    BY <2>3
  <2> QED
    BY <1>1, <2>2, <2>4 DEF OnLeast
<1>10. CASE i > Len(s) /\ n # NIL
  <2>1. LeafAt(n, ht) /\ lo[n] = hi[x] /\ lo[x] < lo[n]
    BY <1>2, <1>10, LeafAtIs
  <2>2. PICK t : t = node[n].slots
    OBVIOUS
  <2>3. /\ t # <<>> /\ t \in Seq(Keys) /\ Increasing(t) /\ lo[n] \in Nat
        /\ \A e \in ToSet(t) : e \in Keys /\ lo[n] < e /\ e <= hi[n]
    <3>1. n # x
      BY <1>2, <2>1
    <3> QED
      BY <2>1, <2>2, <3>1, NeighbourFilled, LeafAtIs
  <2>4. 1 \in 1 .. Len(t)
    BY <2>3
  <2>5. a = [off |-> n, cur |-> node[n].slots[1], fresh |-> TRUE]
    BY <1>1, <1>4, <1>10 DEF After
  <2>6. /\ On(a, S, lo, hi, ht) /\ a \in ItsType /\ a.off # NIL /\ a.cur = t[1] /\ a.cur \in Nat
        /\ \A e \in ToSet(t) : \E j \in 1 .. Len(t) :
             t[j] = e /\ (j < 1 => e < a.cur) /\ (1 < j => a.cur < e)
    <3>1. 1 \in 1 .. Len(node[n].slots)
      BY <2>2, <2>4
    <3>2. IsEntry(a, n, 1, lo, hi, ht)
      BY <2>1, <2>5, <3>1, OnEntry
    <3> QED
      BY <1>1, <2>2, <3>2 DEF IsEntry
  <2>7. lo[n] < a.cur /\ a.cur <= hi[n] /\ a.cur > c
    <3>1. t[1] \in ToSet(t)
      BY <2>3, <2>4, MembersAre
    <3> QED
      BY <1>2, <2>1, <2>3, <2>6, <3>1
  <2>8. ASSUME NEW e \in Beyond(S, c) PROVE a.cur <= e
    <3>1. e \in S /\ e > c /\ e \in Nat
      BY <1>5 DEF Beyond
    <3>2. e \notin ToSet(s)
      BY <1>2, <1>4, <1>7, <1>10, <3>1
    <3>3. Later(x, e, lo, hi, ht)
      BY <1>2, <1>5, <1>6, <3>1, <3>2
    <3>4. e > lo[n]
      BY <2>1, <3>3, LaterAbove
    <3>5. ~ Earlier(n, e, lo, hi, ht)
      <4>1. Earlier(n, e, lo, hi, ht) => e <= lo[n]
        BY <2>1, EarlierBelow
      <4> QED
        BY <2>3, <3>1, <3>4, <4>1
    <3>6. e \in ToSet(t) \/ Later(n, e, lo, hi, ht)
      BY <1>1, <2>1, <2>2, <3>1, <3>5, Elsewhere
    <3>7. CASE e \in ToSet(t)
      <4>1. PICK j \in 1 .. Len(t) : t[j] = e /\ (1 < j => a.cur < e)
        BY <2>6, <3>7
      <4>2. j = 1 \/ 1 < j
        OBVIOUS
      <4> QED
        BY <2>6, <3>1, <4>1, <4>2
    <3>8. CASE Later(n, e, lo, hi, ht)
      <4>1. e > hi[n] /\ hi[n] \in Nat
        BY <2>1, <3>8, LaterAbove, LeafAtIs
      <4> QED
        BY <2>6, <2>7, <3>1, <4>1
    <3> QED
      BY <3>6, <3>7, <3>8
  <2>9. On(a, Beyond(S, c), lo, hi, ht)
    BY <2>6, <2>7 DEF On, Beyond
  <2>10. OnLeast(a, Beyond(S, c), lo, hi, ht)
    BY <2>6, <2>8, <2>9 DEF OnLeast
  <2> QED
    BY <1>1, <2>10
<1> QED
  BY <1>4, <1>8, <1>9, <1>10

LEMMA BeforeLands ==
  ASSUME NEW lo, NEW hi, NEW ht, Stands(lo, hi, ht), NEW x, LeafAt(x, ht),
         NEW c \in Keys, lo[x] < c, c <= hi[x]
  PROVE  OnGreatest(Before(x, c), Below(EntriesIn(node, ht), c), lo, hi, ht)
<1>1. PICK s, i, n, S, a : /\ s = node[x].slots /\ i = LowerBound(s, c) /\ n = node[x].prev
                           /\ S = EntriesIn(node, ht) /\ a = Before(x, c)
  OBVIOUS
<1>2. /\ x \in Nat /\ lo[x] \in Nat /\ hi[x] \in Nat /\ s \in Seq(Keys) /\ s \in Seq(Nat)
      /\ Increasing(s) /\ c \in Nat
      /\ IF lo[x] = 0 THEN n = NIL ELSE LeafAt(n, ht) /\ hi[n] = lo[x]
  BY <1>1, LeafAtIs, SeqOfKeys, INFType
<1>3. FirstAtLeast(s, c, i)
  BY <1>1, <1>2, LowerBoundIs
<1>4. /\ i \in 1 .. Len(s) + 1 /\ \A j \in 1 .. Len(s) : j < i => s[j] < c
      /\ i <= Len(s) => s[i] >= c
  BY <1>3 DEF FirstAtLeast
<1>5. \A e \in S : e \in Nat /\ (e \in ToSet(s) \/ Earlier(x, e, lo, hi, ht) \/ Later(x, e, lo, hi, ht))
  BY <1>1, Elsewhere
<1>6. \A e : Later(x, e, lo, hi, ht) => e \in Nat /\ e > c
  BY <1>2, LaterAbove
<1>7. \A e : e \in ToSet(s) <=> \E j \in 1 .. Len(s) : s[j] = e
  BY <1>2, MembersAre
<1>11. \A j \in 1 .. Len(s) : j >= i => s[j] >= c
  <2> SUFFICES ASSUME NEW j \in 1 .. Len(s), j >= i PROVE s[j] >= c
    OBVIOUS
  <2>1. i \in 1 .. Len(s) /\ s[i] >= c /\ s[i] \in Nat /\ s[j] \in Nat
    BY <1>2, <1>4, SMTT(20)
  <2>2. i < j => s[i] < s[j]
    BY <2>1, <1>2 DEF Increasing
  <2> QED
    BY <1>2, <1>4, <2>1, <2>2
<1>8. CASE i > 1
  <2> DEFINE o == i - 1
  <2>1. o \in 1 .. Len(node[x].slots) /\ a = [off |-> x, cur |-> node[x].slots[o], fresh |-> TRUE]
    BY <1>1, <1>4, <1>8 DEF Before
  <2>11. o < i /\ o \in Nat /\ i = o + 1
    BY <1>4, <1>8
  <2> HIDE DEF o
  <2>2. /\ On(a, S, lo, hi, ht) /\ a \in ItsType /\ a.off # NIL /\ a.cur = s[o] /\ a.cur \in Nat
        /\ \A e \in ToSet(s) : \E j \in 1 .. Len(s) :
             s[j] = e /\ (j < o => e < a.cur) /\ (o < j => a.cur < e)
    <3>1. IsEntry(a, x, o, lo, hi, ht)
      BY <2>1, OnEntry
    <3> QED
      BY <1>1, <3>1 DEF IsEntry
  <2>3. a.cur < c /\ lo[x] < a.cur
    <3>1. s[o] \in ToSet(s)
      BY <1>1, <1>7, <2>1
    <3>2. lo[x] < s[o]
      BY <1>1, <3>1, LeafAtIs
    <3> QED
      BY <1>1, <1>4, <1>8, <2>1, <2>11, <2>2, <3>2
  <2>4. ASSUME NEW e \in Below(S, c) PROVE e <= a.cur
    <3>1. e \in S /\ e < c /\ e \in Nat
      BY <1>5 DEF Below
    <3>2. CASE e \in ToSet(s)
      <4>1. PICK j \in 1 .. Len(s) : s[j] = e /\ (j < o => e < a.cur) /\ (o < j => a.cur < e)
        BY <2>2, <3>2
      <4>2. ~ j >= i
        BY <1>2, <1>11, <3>1, <4>1
      <4>3. j = o \/ j < o
        BY <1>4, <2>11, <4>2
      <4> QED
        BY <2>2, <3>1, <4>1, <4>3
    <3>3. CASE Earlier(x, e, lo, hi, ht)
      BY <1>2, <2>2, <2>3, <3>1, <3>3, EarlierBelow
    <3> QED
      BY <1>2, <1>5, <1>6, <3>1, <3>2, <3>3
  <2>5. On(a, Below(S, c), lo, hi, ht)
    BY <2>2, <2>3 DEF On, Below
  <2>6. OnGreatest(a, Below(S, c), lo, hi, ht)
    BY <2>2, <2>4, <2>5 DEF OnGreatest
  <2> QED
    BY <1>1, <2>6
<1>12. ASSUME ~ i > 1 PROVE \A e \in Below(S, c) : e \in Nat /\ Earlier(x, e, lo, hi, ht)
  <2> SUFFICES ASSUME NEW e \in Below(S, c) PROVE e \in Nat /\ Earlier(x, e, lo, hi, ht)
    OBVIOUS
  <2>1. e \in S /\ e < c /\ e \in Nat
    BY <1>5 DEF Below
  <2>2. e \notin ToSet(s)
    BY <1>2, <1>4, <1>7, <1>11, <1>12, <2>1
  <2> QED
    BY <1>2, <1>5, <1>6, <2>1, <2>2
<1>9. CASE ~ i > 1 /\ n = NIL
  <2>1. a = [off |-> NIL, cur |-> c, fresh |-> TRUE]
    BY <1>1, <1>4, <1>9 DEF Before
  <2>2. a \in ItsType /\ a.off = NIL
    BY <2>1 DEF ItsType, NIL
  <2>3. ASSUME NEW e \in Below(S, c) PROVE FALSE
    <3>1. lo[x] # 0
      BY <1>9, <1>12, EarlierBelow
    <3>2. LeafAt(n, ht)
      BY <1>2, <3>1
    <3>3. n # 0
      BY <3>2, LeafAtIs
    <3> QED
      BY <1>9, <3>3 DEF NIL
  <2>4. Below(S, c) = {}
    BY <2>3
  <2> QED
    BY <1>1, <2>2, <2>4 DEF OnGreatest
<1>10. CASE ~ i > 1 /\ n # NIL
  <2>1. LeafAt(n, ht) /\ hi[n] = lo[x] /\ lo[n] < hi[n] /\ lo[n] \in Nat
    BY <1>2, <1>10, LeafAtIs
  <2>2. PICK t, o : t = node[n].slots /\ o = Len(t)
    OBVIOUS
  <2>3. /\ t # <<>> /\ t \in Seq(Keys) /\ Increasing(t)
        /\ \A e \in ToSet(t) : e \in Keys /\ lo[n] < e /\ e <= hi[n]
    <3>1. n # x
      BY <1>2, <2>1
    <3> QED
      BY <2>1, <2>2, <3>1, NeighbourFilled, LeafAtIs
  <2>4. o \in 1 .. Len(t)
    BY <2>2, <2>3
  <2>5. a = [off |-> n, cur |-> node[n].slots[o], fresh |-> TRUE]
    BY <1>1, <1>4, <1>10, <2>2 DEF Before, Last
  <2>6. /\ On(a, S, lo, hi, ht) /\ a \in ItsType /\ a.off # NIL /\ a.cur = t[o] /\ a.cur \in Nat
        /\ \A e \in ToSet(t) : \E j \in 1 .. Len(t) :
             t[j] = e /\ (j < o => e < a.cur) /\ (o < j => a.cur < e)
    <3>1. o \in 1 .. Len(node[n].slots)
      BY <2>2, <2>4
    <3>2. IsEntry(a, n, o, lo, hi, ht)
      BY <2>1, <2>5, <3>1, OnEntry
    <3> QED
      BY <1>1, <2>2, <3>2 DEF IsEntry
  <2>7. lo[n] < a.cur /\ a.cur <= hi[n] /\ a.cur < c
    <3>1. t[o] \in ToSet(t)
      BY <2>3, <2>4, MembersAre
    <3> QED
      BY <1>2, <2>1, <2>3, <2>6, <3>1
  <2>8. ASSUME NEW e \in Below(S, c) PROVE e <= a.cur
    <3>1. e \in S /\ e < c /\ e \in Nat /\ Earlier(x, e, lo, hi, ht)
      BY <1>5, <1>10, <1>12 DEF Below
    <3>4. e <= hi[n]
      BY <2>1, <3>1, EarlierBelow
    <3>5. ~ Later(n, e, lo, hi, ht)
      <4>1. Later(n, e, lo, hi, ht) => e > hi[n]
        BY <2>1, LaterAbove
      <4> QED
        BY <1>2, <2>1, <3>1, <3>4, <4>1
    <3>6. e \in ToSet(t) \/ Earlier(n, e, lo, hi, ht)
      BY <1>1, <2>1, <2>2, <3>1, <3>5, Elsewhere
    <3>7. CASE e \in ToSet(t)
      <4>1. PICK j \in 1 .. Len(t) : t[j] = e /\ (j < o => e < a.cur)
        BY <2>6, <3>7
      <4>2. j = o \/ j < o
        BY <2>2
      <4> QED
        BY <2>6, <3>1, <4>1, <4>2
    <3>8. CASE Earlier(n, e, lo, hi, ht)
      <4>1. e <= lo[n]
        BY <2>1, <3>8, EarlierBelow
      <4> QED
        BY <2>1, <2>6, <2>7, <3>1, <4>1
    <3> QED
      BY <3>6, <3>7, <3>8
  <2>9. On(a, Below(S, c), lo, hi, ht)
    BY <2>6, <2>7 DEF On, Below
  <2>10. OnGreatest(a, Below(S, c), lo, hi, ht)
    BY <2>6, <2>8, <2>9 DEF OnGreatest
  <2> QED
    BY <1>1, <2>10
<1> QED
  BY <1>8, <1>9, <1>10

\* Without the only leaf's slots there is no entry.
LEMMA EmptyLeaf ==
  ASSUME NEW lo, NEW hi, NEW ht, Stands(lo, hi, ht), NEW x, LeafAt(x, ht), node[x].slots = <<>>
  PROVE  EntriesIn(node, ht) = {}
<1> SUFFICES ASSUME NEW e \in EntriesIn(node, ht) PROVE FALSE
  OBVIOUS
<1>1. PICK y \in DOMAIN node : ht[y] = 0 /\ e \in ToSet(node[y].slots)
  BY DEF EntriesIn
<1>2. LeafAt(y, ht)
  BY <1>1 DEF LeafAt
<1>3. y # x
  <2>1. ToSet(<<>>) = {}
    BY DEF ToSet
  <2> QED
    BY <1>1, <2>1
<1> QED
  BY <1>2, <1>3, NeighbourFilled

\* Past the entries of a leaf that is for k.
LEMMA SeekPast ==
  ASSUME NEW lo, NEW hi, NEW ht, Stands(lo, hi, ht), NEW x, LeafAt(x, ht),
         NEW k \in Keys, lo[x] < k, k <= hi[x],
         NEW c \in ToSet(node[x].slots), c < k,
         \A e \in ToSet(node[x].slots) : e <= c
  PROVE  Beyond(EntriesIn(node, ht), c) = FromOn(EntriesIn(node, ht), k)
<1>1. /\ c \in Keys /\ c \in Nat /\ k \in Nat /\ lo[x] \in Nat /\ hi[x] \in Nat
      /\ lo[x] < c /\ c <= hi[x]
  BY LeafAtIs, INFType
<1>2. ASSUME NEW e \in EntriesIn(node, ht) PROVE e > c <=> e >= k
  <2>1. /\ e \in Nat
        /\ e \in ToSet(node[x].slots) \/ Earlier(x, e, lo, hi, ht) \/ Later(x, e, lo, hi, ht)
    BY Elsewhere
  <2>2. CASE e \in ToSet(node[x].slots)
    BY <1>1, <2>1, <2>2
  <2>3. CASE Earlier(x, e, lo, hi, ht)
    BY <1>1, <2>1, <2>3, EarlierBelow
  <2>4. CASE Later(x, e, lo, hi, ht)
    BY <1>1, <2>1, <2>4, LaterAbove
  <2> QED
    BY <2>1, <2>2, <2>3, <2>4
<1> QED
  BY <1>2 DEF Beyond, FromOn

LEMMA SeekLands ==
  ASSUME NEW lo, NEW hi, NEW ht, Stands(lo, hi, ht), NEW k \in Keys
  PROVE  OnLeast(Seek(k), FromOn(EntriesIn(node, ht), k), lo, hi, ht)
<1>1. PICK x, s, i, S, a : /\ x = LeafOf(k) /\ s = node[x].slots /\ i = LowerBound(s, k)
                           /\ S = EntriesIn(node, ht) /\ a = Seek(k)
  OBVIOUS
<1>2. LeafAt(x, ht) /\ lo[x] < k /\ k <= hi[x]
  <2>1. /\ lo \in [Nat -> Nat] /\ hi \in [Nat -> Nat] /\ ht \in [Nat -> Nat]
        /\ Types /\ Ranged(lo, hi, ht)
    BY DEF Stands, Maps
  <2> QED
    BY <1>1, <2>1, LeafFacts DEF LeafAt
<1>3. /\ s \in Seq(Keys) /\ s \in Seq(Nat) /\ Increasing(s) /\ k \in Nat /\ Len(s) \in Nat
      /\ \A j \in 1 .. Len(s) : s[j] \in Nat
  BY <1>1, <1>2, LeafAtIs, SeqOfKeys, INFType
<1>4. FirstAtLeast(s, k, i)
  BY <1>1, <1>3, LowerBoundIs
<1>5. /\ i \in 1 .. Len(s) + 1 /\ \A j \in 1 .. Len(s) : j < i => s[j] < k
      /\ i <= Len(s) => s[i] >= k
  BY <1>4 DEF FirstAtLeast
<1>6. DOMAIN s = 1 .. Len(s) /\ \A e : e \in ToSet(s) <=> \E j \in 1 .. Len(s) : s[j] = e
  BY <1>3, MembersAre
<1>7. CASE s = <<>>
  <2>1. S = {}
    BY <1>1, <1>2, <1>7, EmptyLeaf
  <2>2. a = [it EXCEPT !.off = NIL] /\ it \in ItsType
    BY <1>1, <1>7 DEF Seek, Stands, Types, ItsType
  <2>3. a \in ItsType /\ a.off = NIL
    BY <2>2 DEF ItsType, NIL
  <2>4. FromOn(S, k) = {}
    BY <2>1 DEF FromOn
  <2> QED
    BY <1>1, <2>3, <2>4 DEF OnLeast
<1>8. CASE s # <<>> /\ i <= Len(s)
  <2>1. i \in 1 .. Len(node[x].slots) /\ a = [off |-> x, cur |-> node[x].slots[i], fresh |-> TRUE]
    BY <1>1, <1>5, <1>8 DEF Seek
  <2>2. IsEntry(a, x, i, lo, hi, ht)
    BY <1>2, <2>1, OnEntry
  <2>3. /\ On(a, S, lo, hi, ht) /\ a \in ItsType /\ a.off # NIL /\ a.cur = s[i] /\ a.cur \in Nat
        /\ \A e \in ToSet(s) : \E j \in 1 .. Len(s) :
             s[j] = e /\ (j < i => e < a.cur) /\ (i < j => a.cur < e)
    BY <1>1, <2>2 DEF IsEntry
  <2>4. a.cur >= k /\ a.cur <= hi[x] /\ lo[x] \in Nat /\ hi[x] \in Nat
    <3>1. s[i] \in ToSet(s)
      BY <1>1, <1>6, <2>1
    <3>2. s[i] <= hi[x] /\ lo[x] \in Nat /\ hi[x] \in Nat
      BY <1>1, <1>2, <3>1, LeafAtIs
    <3> QED
      BY <1>5, <1>8, <2>3, <3>2
  <2>5. ASSUME NEW e \in FromOn(S, k) PROVE a.cur <= e
    <3>1. /\ e \in S /\ e >= k /\ e \in Nat
          /\ e \in ToSet(s) \/ Earlier(x, e, lo, hi, ht) \/ Later(x, e, lo, hi, ht)
      BY <1>1, <1>2, Elsewhere DEF FromOn
    <3>2. CASE e \in ToSet(s)
      <4>1. PICK j \in 1 .. Len(s) : s[j] = e /\ (i < j => a.cur < e)
        BY <2>3, <3>2
      <4>2. ~ j < i
        BY <1>3, <1>5, <3>1, <4>1
      <4>3. j = i \/ i < j
        BY <1>5, <4>2
      <4> QED
        BY <2>3, <3>1, <4>1, <4>3
    <3>3. CASE Later(x, e, lo, hi, ht)
      <4>1. e > hi[x]
        BY <1>2, <3>3, LaterAbove
      <4> QED
        BY <2>3, <2>4, <3>1, <4>1
    <3>4. CASE Earlier(x, e, lo, hi, ht)
      <4>1. e <= lo[x]
        BY <1>2, <3>4, EarlierBelow
      <4> QED
        BY <1>2, <1>3, <2>4, <3>1, <4>1
    <3> QED
      BY <3>1, <3>2, <3>3, <3>4
  <2>6. On(a, FromOn(S, k), lo, hi, ht)
    BY <2>3, <2>4 DEF On, FromOn
  <2> QED
    BY <1>1, <2>3, <2>5, <2>6 DEF OnLeast
<1>9. CASE s # <<>> /\ ~ i <= Len(s)
  <2>1. PICK o, c : o = Len(s) /\ c = s[o]
    OBVIOUS
  <2>2. o \in 1 .. Len(s) /\ o < i /\ c < k /\ c \in ToSet(s) /\ c \in Keys /\ lo[x] < c /\ c <= hi[x]
    <3>1. o \in 1 .. Len(s) /\ o < i
      BY <1>3, <1>5, <1>9, <2>1
    <3>2. c \in ToSet(s)
      BY <1>6, <2>1, <3>1
    <3> QED
      BY <1>1, <1>2, <1>5, <2>1, <3>1, <3>2, LeafAtIs
  <2>3. a = After(x, c)
    BY <1>1, <1>9, <2>1 DEF Seek, Last
  <2>4. OnLeast(a, Beyond(S, c), lo, hi, ht)
    BY <1>1, <1>2, <2>2, <2>3, AfterLands
  <2>5. \A e \in ToSet(s) : e <= c
    <3> SUFFICES ASSUME NEW e \in ToSet(s) PROVE e <= c
      OBVIOUS
    <3>1. PICK j \in 1 .. Len(s) : s[j] = e
      BY <1>6
    <3>2. s[j] \in Nat /\ s[o] \in Nat
      BY <1>3, <2>2
    <3>3. j = o \/ j < o
      BY <1>3, <2>1
    <3>4. j < o => s[j] < s[o]
      <4>1. j \in DOMAIN s /\ o \in DOMAIN s /\ Increasing(s)
        BY <1>3, <1>6, <2>2
      <4> QED
        BY <4>1 DEF Increasing
    <3> QED
      BY <2>1, <3>1, <3>2, <3>3, <3>4
  <2>6. Beyond(S, c) = FromOn(S, k)
    BY <1>1, <1>2, <2>2, <2>5, SeekPast
  <2> QED
    BY <1>1, <2>4, <2>6
<1> QED
  BY <1>7, <1>8, <1>9

\* Where the iterator goes does not matter to the tree.
LEMMA ItMoves ==
  ASSUME NEW lo, NEW hi, NEW ht, Stands(lo, hi, ht), UNCHANGED <<tree, failed>>,
         it' \in ItsType, NEW T, it'.off = NIL \/ On(it', T, lo, hi, ht)
  PROVE  Types' /\ Ranged(lo, hi, ht)'
<1>1. UNCHANGED <<node, root, levels, nnodes, failed>>
  BY DEF tree
<1>2. /\ Types /\ Sound(node, lo, lo, hi, ht, levels) /\ RootSound(node, root, lo, hi, ht, levels)
  BY DEF Stands, Ranged
<1>3. it'.off # NIL => it'.cur \in Keys
  BY DEF On
<1>4. AtHome(node', it', lo, hi, ht)
  BY <1>1 DEF AtHome, On, LeafAt
<1>5. Types'
  BY <1>1, <1>2, <1>3 DEF Types, ItsType
<1>6. Ranged(lo, hi, ht)'
  BY <1>1, <1>2, <1>4 DEF Ranged
<1> QED
  BY <1>5, <1>6

LEMMA LeastMoves ==
  ASSUME NEW lo, NEW hi, NEW ht, Stands(lo, hi, ht), UNCHANGED <<tree, failed>>,
         NEW T, OnLeast(it', T, lo, hi, ht)
  PROVE  Types' /\ Ranged(lo, hi, ht)'
BY ItMoves DEF OnLeast

LEMMA GreatestMoves ==
  ASSUME NEW lo, NEW hi, NEW ht, Stands(lo, hi, ht), UNCHANGED <<tree, failed>>,
         NEW T, OnGreatest(it', T, lo, hi, ht)
  PROVE  Types' /\ Ranged(lo, hi, ht)'
BY ItMoves DEF OnGreatest

LEMMA LocateStep ==
  ASSUME NEW lo, NEW hi, NEW ht, Stands(lo, hi, ht), NEW k \in Keys, Locate(k)
  PROVE  /\ Types' /\ Ranged(lo, hi, ht)'
         /\ OnLeast(it', FromOn(EntriesIn(node, ht), k), lo, hi, ht)
<1>1. it' = Seek(k) /\ UNCHANGED <<tree, failed>>
  BY DEF Locate
<1>2. OnLeast(it', FromOn(EntriesIn(node, ht), k), lo, hi, ht)
  BY <1>1, SeekLands
<1> QED
  BY <1>1, <1>2, LeastMoves

\* A fresh iterator is on the leaf that is for its key.
LEMMA FreshLeaf ==
  ASSUME NEW lo, NEW hi, NEW ht, Stands(lo, hi, ht), it.off # NIL
  PROVE  /\ it.cur \in Keys
         /\ it.fresh => LeafAt(it.off, ht) /\ lo[it.off] < it.cur /\ it.cur <= hi[it.off]
BY DEF Stands, Types, Ranged, AtHome, LeafAt

LEMMA IncrementStep ==
  ASSUME NEW lo, NEW hi, NEW ht, Stands(lo, hi, ht), Increment
  PROVE  /\ Types' /\ Ranged(lo, hi, ht)' /\ it.off # NIL
         /\ OnLeast(it', Beyond(EntriesIn(node, ht), it.cur), lo, hi, ht)
<1>1. PICK a, c, S : a = (IF it.fresh THEN it ELSE Seek(it.cur)) /\ c = it.cur /\ S = EntriesIn(node, ht)
  OBVIOUS
<1>2. /\ it.off # NIL /\ UNCHANGED <<tree, failed>>
      /\ it' = IF a.off # NIL /\ a.cur = c THEN After(a.off, a.cur) ELSE a
  BY <1>1 DEF Increment
<1>3. /\ c \in Keys /\ c \in Nat
      /\ it.fresh => LeafAt(it.off, ht) /\ lo[it.off] < c /\ c <= hi[it.off]
  BY <1>1, <1>2, FreshLeaf, INFType
<1>4. \A e \in S : e \in Nat
  BY <1>1, INFType DEF EntriesIn
<1>5. CASE it.fresh
  <2>1. it' = After(it.off, c)
    BY <1>1, <1>2, <1>5
  <2>2. OnLeast(it', Beyond(S, c), lo, hi, ht)
    BY <1>1, <1>3, <1>5, <2>1, AfterLands
  <2> QED
    BY <1>1, <1>2, <2>2, LeastMoves
<1>6. CASE ~ it.fresh
  <2>1. OnLeast(a, FromOn(S, c), lo, hi, ht)
    BY <1>1, <1>3, <1>6, SeekLands
  <2>2. OnLeast(it', Beyond(S, c), lo, hi, ht)
    <3>1. CASE a.off = NIL
      <4>1. FromOn(S, c) = {} /\ a \in ItsType /\ it' = a
        BY <1>2, <2>1, <3>1 DEF OnLeast
      <4>2. Beyond(S, c) = {}
        BY <1>3, <1>4, <4>1 DEF Beyond, FromOn
      <4> QED
        BY <3>1, <4>1, <4>2 DEF OnLeast
    <3>2. CASE a.off # NIL /\ a.cur = c
      <4>1. LeafAt(a.off, ht) /\ lo[a.off] < c /\ c <= hi[a.off] /\ it' = After(a.off, c)
        BY <1>2, <2>1, <3>2 DEF OnLeast, On
      <4> QED
        BY <1>1, <1>3, <4>1, AfterLands
    <3>3. CASE a.off # NIL /\ a.cur # c
      <4>1. /\ it' = a /\ a \in ItsType /\ On(a, FromOn(S, c), lo, hi, ht)
            /\ \A e \in FromOn(S, c) : a.cur <= e
        BY <1>2, <2>1, <3>3 DEF OnLeast
      <4>2. a.cur \in S /\ a.cur >= c /\ a.cur \in Nat
        BY <1>4, <4>1 DEF On, FromOn
      <4>3. a.cur \in Beyond(S, c)
        BY <1>3, <3>3, <4>2 DEF Beyond
      <4>4. On(a, Beyond(S, c), lo, hi, ht)
        BY <4>1, <4>3 DEF On
      <4>5. \A e \in Beyond(S, c) : a.cur <= e
        BY <1>3, <1>4, <4>1 DEF Beyond, FromOn
      <4> QED
        BY <3>3, <4>1, <4>4, <4>5 DEF OnLeast
    <3> QED
      BY <3>1, <3>2, <3>3
  <2> QED
    BY <1>1, <1>2, <2>2, LeastMoves
<1> QED
  BY <1>5, <1>6

\* A step back from behind the last entry goes to the end.
StepsBack(i, S, c, lo, hi, ht) ==
  \/ OnGreatest(i, Below(S, c), lo, hi, ht)
  \/ i \in ItsType /\ i.off = NIL /\ FromOn(S, c) = {}

LEMMA DecrementStep ==
  ASSUME NEW lo, NEW hi, NEW ht, Stands(lo, hi, ht), Decrement
  PROVE  /\ Types' /\ Ranged(lo, hi, ht)' /\ it.off # NIL
         /\ StepsBack(it', EntriesIn(node, ht), it.cur, lo, hi, ht)
<1>1. PICK a, c, S : a = (IF it.fresh THEN it ELSE Seek(it.cur)) /\ c = it.cur /\ S = EntriesIn(node, ht)
  OBVIOUS
<1>2. /\ it.off # NIL /\ UNCHANGED <<tree, failed>>
      /\ it' = IF a.off # NIL THEN Before(a.off, a.cur) ELSE a
  BY <1>1 DEF Decrement
<1>3. /\ c \in Keys /\ c \in Nat
      /\ it.fresh => LeafAt(it.off, ht) /\ lo[it.off] < c /\ c <= hi[it.off]
  BY <1>1, <1>2, FreshLeaf, INFType
<1>4. \A e \in S : e \in Nat
  BY <1>1, INFType DEF EntriesIn
<1>5. CASE it.fresh
  <2>1. it' = Before(it.off, c)
    BY <1>1, <1>2, <1>5
  <2>2. OnGreatest(it', Below(S, c), lo, hi, ht)
    BY <1>1, <1>3, <1>5, <2>1, BeforeLands
  <2>3. Types' /\ Ranged(lo, hi, ht)'
    BY <1>2, <2>2, GreatestMoves
  <2> QED
    BY <1>1, <1>2, <2>2, <2>3 DEF StepsBack
<1>6. CASE ~ it.fresh
  <2>1. OnLeast(a, FromOn(S, c), lo, hi, ht)
    BY <1>1, <1>3, <1>6, SeekLands
  <2>2. CASE a.off = NIL
    <3>1. FromOn(S, c) = {} /\ a \in ItsType /\ it' = a
      BY <1>2, <2>1, <2>2 DEF OnLeast
    <3>2. Types' /\ Ranged(lo, hi, ht)'
      BY <1>2, <2>2, <3>1, ItMoves
    <3> QED
      BY <1>1, <1>2, <2>2, <3>1, <3>2 DEF StepsBack
  <2>3. CASE a.off # NIL
    <3>1. /\ On(a, FromOn(S, c), lo, hi, ht) /\ it' = Before(a.off, a.cur)
          /\ \A e \in FromOn(S, c) : a.cur <= e
      BY <1>2, <2>1, <2>3 DEF OnLeast
    <3>2. /\ LeafAt(a.off, ht) /\ lo[a.off] < a.cur /\ a.cur <= hi[a.off]
          /\ a.cur \in Keys /\ a.cur \in S /\ a.cur >= c /\ a.cur \in Nat
      BY <1>4, <3>1 DEF On, FromOn
    <3>3. OnGreatest(it', Below(S, a.cur), lo, hi, ht)
      BY <1>1, <3>1, <3>2, BeforeLands
    <3>4. \A e \in S : e < a.cur <=> e < c
      BY <1>3, <1>4, <3>1, <3>2 DEF FromOn
    <3>5. Below(S, a.cur) = Below(S, c)
      BY <3>4 DEF Below
    <3>6. OnGreatest(it', Below(S, c), lo, hi, ht)
      BY <3>3, <3>5
    <3>7. Types' /\ Ranged(lo, hi, ht)'
      BY <1>2, <3>6, GreatestMoves
    <3> QED
      BY <1>1, <1>2, <3>6, <3>7 DEF StepsBack
  <2> QED
    BY <2>2, <2>3
<1> QED
  BY <1>5, <1>6

\* The nodes on the way down the last children are for the greatest keys.
LEMMA LastLeads ==
  ASSUME NEW lo, NEW hi, NEW ht, Maps(lo, lo, hi, ht), NEW n, NEW r, NEW top \in Nat,
         RootedAt(n, r, lo, hi, ht, top), NEW p, LastDown(n, r, top, p)
  PROVE  p[top] \in DOMAIN n /\ ht[p[top]] = 0 /\ hi[p[top]] = INF
<1> DEFINE Good(m) == p[m] \in DOMAIN n /\ ht[p[m]] + m = top /\ hi[p[m]] = INF
           T == {m \in Nat : m <= top /\ ~ Good(m)}
<1>0. Sound(n, lo, lo, hi, ht, top)
  BY DEF RootedAt
<1>1. ASSUME T # {} PROVE FALSE
  <2>1. PICK m \in T : \A l \in T : m <= l
    <3>1. T \subseteq Nat
      OBVIOUS
    <3> HIDE DEF T
    <3> QED
      BY <1>1, <3>1, LeastOfNaturals
  <2>2. m \in Nat /\ m <= top /\ ~ Good(m)
    OBVIOUS
  <2>3. m # 0
    <3>1. p[0] = r /\ r \in DOMAIN n /\ ht[r] = top /\ hi[r] = INF
      BY DEF LastDown, RootedAt, RootSound
    <3>2. Good(0)
      BY <3>1
    <3> HIDE DEF Good
    <3> QED
      BY <2>2, <3>2
  <2>4. PICK o : o = m - 1
    OBVIOUS
  <2>5. o \in Nat /\ o < top /\ o + 1 = m /\ o < m /\ m \in 1 .. top /\ m - 1 = o
    BY <2>2, <2>3, <2>4
  <2>6. Good(o)
    BY <2>1, <2>5
  <2>7. PICK y, q : y = p[o] /\ q = p[m]
    OBVIOUS
  <2>8. y \in DOMAIN n /\ ht[y] + o = top /\ hi[y] = INF /\ q = n[y].last
    BY <2>5, <2>6, <2>7 DEF LastDown
  <2>9. ht[y] \in Nat /\ ht[y] # 0 /\ n[y] \in TreeNodes /\ KidsSound(n, lo, lo, hi, ht, y)
    <3>1. ht[y] \in Nat
      BY <1>0, <2>8, NodeFacts
    <3>2. ht[y] # 0
      BY <2>5, <2>8, <3>1
    <3> QED
      BY <1>0, <2>8, <3>1, <3>2, NodeFacts
  <2>10. PICK j : j = Len(n[y].slots) + 1
    OBVIOUS
  <2>11. Len(n[y].slots) \in Nat
    BY <2>9, TreeNodeIs
  <2>12. j \in 1 .. Len(n[y].slots) + 1 /\ ~ j <= Len(n[y].slots)
    BY <2>10, <2>11
  <2>13. Kid(n[y], j) = q /\ High(n[y], j, hi[y]) = INF
    BY <2>8, <2>12 DEF Kid, High
  <2>14. q \in DOMAIN n /\ ht[q] + 1 = ht[y] /\ hi[q] = INF
    BY <2>9, <2>12, <2>13 DEF KidsSound
  <2>15. ht[q] \in Nat
    BY <1>0, <2>14, NodeFacts
  <2>16. ht[q] + m = top
    BY <2>5, <2>8, <2>9, <2>14, <2>15
  <2> QED
    BY <2>2, <2>7, <2>14, <2>16
<1>2. Good(top)
  <2>1. top \notin T
    <3> HIDE DEF T
    <3> QED
      BY <1>1
  <2> HIDE DEF Good
  <2> QED
    BY <2>1
<1>3. ht[p[top]] \in Nat
  BY <1>0, <1>2, NodeFacts
<1> QED
  BY <1>2, <1>3

LEMMA ToLastStep ==
  ASSUME NEW lo, NEW hi, NEW ht, Stands(lo, hi, ht), ToLast
  PROVE  /\ Types' /\ Ranged(lo, hi, ht)'
         /\ OnGreatest(it', EntriesIn(node, ht), lo, hi, ht)
<1>1. PICK x, s, S : x = LastPath(node)[levels] /\ s = node[x].slots /\ S = EntriesIn(node, ht)
  OBVIOUS
<1>2. /\ UNCHANGED <<tree, failed>>
      /\ it' = IF s = <<>> THEN [off |-> NIL, cur |-> NIL, fresh |-> TRUE]
               ELSE [off |-> x, cur |-> Last(s), fresh |-> TRUE]
  BY <1>1 DEF ToLast
<1>3. LeafAt(x, ht) /\ hi[x] = INF
  <2>1. Maps(lo, lo, hi, ht) /\ levels \in Nat /\ RootedAt(node, root, lo, hi, ht, levels)
    BY DEF Stands, Types, Ranged, RootedAt
  <2>2. LastDown(node, root, levels, LastPath(node))
    BY <2>1, LastPathIs
  <2> QED
    BY <1>1, <2>1, <2>2, LastLeads DEF LeafAt
<1>4. CASE s = <<>>
  <2>1. S = {}
    BY <1>1, <1>3, <1>4, EmptyLeaf
  <2>2. it' \in ItsType /\ it'.off = NIL
    BY <1>2, <1>4 DEF ItsType, NIL
  <2>3. OnGreatest(it', S, lo, hi, ht)
    BY <2>1, <2>2 DEF OnGreatest
  <2> QED
    BY <1>1, <1>2, <2>3, GreatestMoves
<1>5. CASE s # <<>>
  <2>1. PICK o : o = Len(s)
    OBVIOUS
  <2>2. s \in Seq(Keys) /\ Increasing(s) /\ lo[x] \in Nat
    BY <1>1, <1>3, LeafAtIs
  <2>3. o \in 1 .. Len(node[x].slots)
    BY <1>1, <1>5, <2>1, <2>2
  <2>4. it' = [off |-> x, cur |-> node[x].slots[o], fresh |-> TRUE]
    BY <1>1, <1>2, <1>5, <2>1 DEF Last
  <2>5. IsEntry(it', x, o, lo, hi, ht)
    BY <1>3, <2>3, <2>4, OnEntry
  <2>6. /\ On(it', S, lo, hi, ht) /\ it' \in ItsType /\ it'.off # NIL /\ it'.cur \in Nat
        /\ it'.off = x
        /\ \A e \in ToSet(s) : \E j \in 1 .. Len(s) : s[j] = e /\ (j < o => e < it'.cur)
        /\ it'.cur = s[o]
    BY <1>1, <2>5 DEF IsEntry
  <2>7. ASSUME NEW e \in S PROVE e <= it'.cur
    <3>1. /\ e \in Nat
          /\ e \in ToSet(s) \/ Earlier(x, e, lo, hi, ht) \/ Later(x, e, lo, hi, ht)
      BY <1>1, <1>3, Elsewhere
    <3>2. CASE e \in ToSet(s)
      <4>1. PICK j \in 1 .. Len(s) : s[j] = e /\ (j < o => e < it'.cur)
        BY <2>6, <3>2
      <4>2. j = o \/ j < o
        BY <2>1, <2>2
      <4> QED
        BY <2>6, <3>1, <4>1, <4>2
    <3>3. CASE Earlier(x, e, lo, hi, ht)
      <4>1. e <= lo[x] /\ lo[x] < it'.cur
        BY <1>3, <2>6, <3>3, EarlierBelow DEF On
      <4> QED
        BY <2>2, <2>6, <3>1, <4>1
    <3>4. CASE Later(x, e, lo, hi, ht)
      BY <1>3, <3>4, LaterAbove
    <3> QED
      BY <3>1, <3>2, <3>3, <3>4
  <2>8. OnGreatest(it', S, lo, hi, ht)
    BY <2>6, <2>7 DEF OnGreatest
  <2> QED
    BY <1>1, <1>2, <2>8, GreatestMoves
<1> QED
  BY <1>4, <1>5

-----------------------------------------------------------------------------
(* The invariant *)

LEMMA BInvIs ==
  /\ BInv => \E lo, hi, ht : Stands(lo, hi, ht)
  /\ \A lo, hi, ht : Stands(lo, hi, ht) => BInv
<1>1. BInv => \E lo, hi, ht \in [Nat -> Nat] : Types /\ Ranged(lo, hi, ht)
  BY DEF BInv, Types
<1>2. ASSUME NEW lo, NEW hi, NEW ht, Stands(lo, hi, ht) PROVE BInv
  BY <1>2 DEF Stands, Maps, BInv, Types
<1> QED
  BY <1>1, <1>2 DEF Stands, Maps

LEMMA InitBInv ==
  ASSUME BInit
  PROVE  BInv
<1> DEFINE z == [x \in Nat |-> 0]
           t == [x \in Nat |-> INF]
<1>1. z \in [Nat -> Nat] /\ t \in [Nat -> Nat] /\ INF \in Nat /\ 0 < INF
  BY INFType
<1>2. PICK f : f = LeafNode(<<>>, NIL, NIL)
  OBVIOUS
<1>3. /\ node = [x \in {1} |-> f] /\ root = 1 /\ levels = 0 /\ nnodes = 1
      /\ it = [off |-> NIL, cur |-> NIL, fresh |-> TRUE] /\ failed = NIL
  BY <1>2 DEF BInit
<1>4. f \in LeafNodes /\ f.slots = <<>> /\ f.next = NIL /\ f.prev = NIL
  BY <1>2 DEF LeafNode, LeafNodes, NIL
<1>5. DOMAIN node = {1} /\ node[1] = f /\ z[1] = 0 /\ t[1] = INF
  BY <1>3
<1> HIDE DEF z, t
<1>6. IsFiniteSet({1}) /\ Cardinality({1}) = 1
  BY FS_Singleton
<1>7. Typed(node, z, t, z, 0)
  <2>1. \A x \in DOMAIN node : x = 1
    BY <1>5
  <2>2. z[1] < t[1] /\ t[1] <= INF /\ z[1] <= 0 /\ node[1] \in IF z[1] = 0 THEN LeafNodes ELSE TreeNodes
    BY <1>1, <1>4, <1>5
  <2>3. IsFiniteSet(DOMAIN node) /\ DOMAIN node \subseteq Nat \ {0}
    BY <1>5, <1>6
  <2> QED
    BY <2>1, <2>2, <2>3 DEF Typed
<1>8. Disjoint(node, z, t, z)
  BY <1>5 DEF Disjoint
<1>9. LeafSound(node, z, t, z, 0, 1)
  <2>1. DOMAIN <<>> = {}
    OBVIOUS
  <2>2. Increasing(<<>>) /\ Within(<<>>, 0, INF)
    BY <2>1 DEF Increasing, Within
  <2> QED
    BY <1>4, <1>5, <2>2 DEF LeafSound
<1>10. Sound(node, z, z, t, z, 0)
  BY <1>5, <1>7, <1>8, <1>9 DEF Sound
<1>11. Ranged(z, t, z)
  BY <1>3, <1>5, <1>10 DEF Ranged, RootSound, AtHome
<1>12. Types
  BY <1>3, <1>5, <1>6 DEF Types, NIL
<1> QED
  BY <1>1, <1>11, <1>12 DEF BInv, Types

\* What a step does to the entries and to the iterator.
Adding(ht, ht2) ==
  \E k \in Keys : /\ k \notin EntriesIn(node, ht)
                  /\ EntriesIn(node', ht2) = EntriesIn(node, ht) \cup {k}
Erasing(ht, ht2) ==
  \E k \in Keys : Drops(EntriesIn(node, ht), k, EntriesIn(node', ht2))

Edits(ht, ht2) ==
  /\ it'.off = it.off /\ it'.cur = it.cur
  /\ \/ Adding(ht, ht2)
     \/ Erasing(ht, ht2)

Goes(i, S, lo, hi, ht) ==
  \/ \E k \in Keys : OnLeast(i, FromOn(S, k), lo, hi, ht)
  \/ OnGreatest(i, S, lo, hi, ht)
  \/ it.off # NIL /\ OnLeast(i, Beyond(S, it.cur), lo, hi, ht)
  \/ it.off # NIL /\ StepsBack(i, S, it.cur, lo, hi, ht)

Does(lo, hi, ht, ht2) ==
  \/ Edits(ht, ht2)
  \/ UNCHANGED node /\ ht2 = ht /\ Goes(it', EntriesIn(node, ht), lo, hi, ht)
  \/ UNCHANGED <<node, it>> /\ ht2 = ht

\* An entry that is not in the leaf that is for it is nowhere.
LEMMA NotThere ==
  ASSUME NEW lo, NEW hi, NEW ht, Stands(lo, hi, ht), NEW k \in Keys,
         k \notin ToSet(node[LeafOf(k)].slots)
  PROVE  k \notin EntriesIn(node, ht)
<1>1. PICK x : x = LeafOf(k)
  OBVIOUS
<1>2. LeafAt(x, ht) /\ lo[x] < k /\ k <= hi[x]
  <2>1. /\ lo \in [Nat -> Nat] /\ hi \in [Nat -> Nat] /\ ht \in [Nat -> Nat]
        /\ Types /\ Ranged(lo, hi, ht)
    BY DEF Stands, Maps
  <2> QED
    BY <1>1, <2>1, LeafFacts DEF LeafAt
<1>3. k \in Nat /\ lo[x] \in Nat /\ hi[x] \in Nat
  BY <1>2, LeafAtIs, INFType
<1>4. ~ Earlier(x, k, lo, hi, ht)
  <2>1. Earlier(x, k, lo, hi, ht) => k <= lo[x]
    BY <1>2, EarlierBelow
  <2> QED
    BY <1>2, <1>3, <2>1
<1>5. ~ Later(x, k, lo, hi, ht)
  <2>1. Later(x, k, lo, hi, ht) => k > hi[x]
    BY <1>2, LaterAbove
  <2> QED
    BY <1>2, <1>3, <2>1
<1> QED
  BY <1>1, <1>2, <1>4, <1>5, Elsewhere

LEMMA SomeStep ==
  ASSUME NEW lo, NEW hi, NEW ht, Stands(lo, hi, ht), [BNext]_bvars
  PROVE  \E lo2, hi2, ht2 : Stands(lo2, hi2, ht2)' /\ Does(lo, hi, ht, ht2)
<1>1. /\ lo \in [Nat -> Nat] /\ hi \in [Nat -> Nat] /\ ht \in [Nat -> Nat]
      /\ Maps(lo, lo, hi, ht) /\ Types /\ Ranged(lo, hi, ht)
  BY DEF Stands, Maps
<1>2. ASSUME NEW k \in Keys, InsertFits(k)
      PROVE  \E lo2, hi2, ht2 : Stands(lo2, hi2, ht2)' /\ Does(lo, hi, ht, ht2)
  <2>1. Types' /\ Ranged(lo, hi, ht)' /\ Adds(EntriesIn(node, ht), k, EntriesIn(node', ht))
    BY <1>1, <1>2, InsertFitsStep
  <2>2. k \notin EntriesIn(node, ht)
    BY <1>2, NotThere DEF InsertFits
  <2>3. UNCHANGED it
    BY <1>2 DEF InsertFits
  <2>4. Does(lo, hi, ht, ht)
    BY <2>1, <2>2, <2>3 DEF Does, Edits, Adding, Adds
  <2>5. Stands(lo, hi, ht)'
    BY <1>1, <2>1 DEF Stands, Maps
  <2> QED
    BY <2>4, <2>5
<1>3. ASSUME NEW k \in Keys, InsertSplits(k)
      PROVE  \E lo2, hi2, ht2 : Stands(lo2, hi2, ht2)' /\ Does(lo, hi, ht, ht2)
  <2>1. Types' /\ \E lo2, hi2, ht2 \in [Nat -> Nat] :
                    /\ Ranged(lo2, hi2, ht2)'
                    /\ Adds(EntriesIn(node, ht), k, EntriesIn(node', ht2))
    BY <1>1, <1>3, InsertSplitsStep
  <2>2. k \notin EntriesIn(node, ht)
    BY <1>3, NotThere DEF InsertSplits
  <2>3. it'.off = it.off /\ it'.cur = it.cur
    BY <1>1, <1>3 DEF InsertSplits, Stale, Types
  <2>4. PICK lo2, hi2, ht2 \in [Nat -> Nat] :
          Ranged(lo2, hi2, ht2)' /\ EntriesIn(node', ht2) = EntriesIn(node, ht) \cup {k}
    BY <2>1 DEF Adds
  <2>5. Does(lo, hi, ht, ht2)
    BY <2>2, <2>3, <2>4 DEF Does, Edits, Adding
  <2>6. Stands(lo2, hi2, ht2)'
    BY <2>1, <2>4 DEF Stands, Maps
  <2> QED
    BY <2>5, <2>6
<1>4. ASSUME NEW k \in Keys, InsertFails(k)
      PROVE  \E lo2, hi2, ht2 : Stands(lo2, hi2, ht2)' /\ Does(lo, hi, ht, ht2)
  <2>1. UNCHANGED <<node, root, levels, nnodes, it>> /\ failed' = k
    BY <1>4 DEF InsertFails, tree
  <2>2. Types'
    BY <1>1, <2>1 DEF Types
  <2>3. Ranged(lo, hi, ht)'
    BY <1>1, <2>1 DEF Ranged
  <2>4. Stands(lo, hi, ht)' /\ Does(lo, hi, ht, ht)
    BY <1>1, <2>1, <2>2, <2>3 DEF Stands, Maps, Does
  <2> QED
    BY <2>4
<1>5. ASSUME NEW k \in Keys, EraseKey(k)
      PROVE  \E lo2, hi2, ht2 : Stands(lo2, hi2, ht2)' /\ Does(lo, hi, ht, ht2)
  <2>1. Types' /\ Ranged(lo, hi, ht)' /\ Drops(EntriesIn(node, ht), k, EntriesIn(node', ht))
    BY <1>1, <1>5, EraseKeyStep
  <2>2. UNCHANGED it
    BY <1>5 DEF EraseKey
  <2>3. Does(lo, hi, ht, ht)
    BY <2>1, <2>2 DEF Does, Edits, Erasing
  <2>4. Stands(lo, hi, ht)'
    BY <1>1, <2>1 DEF Stands, Maps
  <2> QED
    BY <2>3, <2>4
<1>6. ASSUME NEW k \in Keys, EraseLeaf(k)
      PROVE  \E lo2, hi2, ht2 : Stands(lo2, hi2, ht2)' /\ Does(lo, hi, ht, ht2)
  <2>1. Types' /\ \E lo2, hi2, ht2 \in [Nat -> Nat] :
                    /\ Ranged(lo2, hi2, ht2)'
                    /\ Drops(EntriesIn(node, ht), k, EntriesIn(node', ht2))
    BY <1>1, <1>6, EraseLeafStep
  <2>2. it'.off = it.off /\ it'.cur = it.cur
    BY <1>1, <1>6 DEF EraseLeaf, Stale, Types
  <2>3. PICK lo2, hi2, ht2 \in [Nat -> Nat] :
          Ranged(lo2, hi2, ht2)' /\ Drops(EntriesIn(node, ht), k, EntriesIn(node', ht2))
    BY <2>1
  <2>4. Does(lo, hi, ht, ht2)
    BY <2>2, <2>3 DEF Does, Edits, Erasing
  <2>5. Stands(lo2, hi2, ht2)'
    BY <2>1, <2>3 DEF Stands, Maps
  <2> QED
    BY <2>4, <2>5
<1>7. ASSUME Types', Ranged(lo, hi, ht)', UNCHANGED node, Goes(it', EntriesIn(node, ht), lo, hi, ht)
      PROVE  \E lo2, hi2, ht2 : Stands(lo2, hi2, ht2)' /\ Does(lo, hi, ht, ht2)
  <2>1. Does(lo, hi, ht, ht)
    BY <1>7 DEF Does
  <2>2. Stands(lo, hi, ht)'
    BY <1>1, <1>7 DEF Stands, Maps
  <2> QED
    BY <2>1, <2>2
<1>8. ASSUME NEW k \in Keys, Locate(k)
      PROVE  \E lo2, hi2, ht2 : Stands(lo2, hi2, ht2)' /\ Does(lo, hi, ht, ht2)
  <2>1. /\ Types' /\ Ranged(lo, hi, ht)'
        /\ OnLeast(it', FromOn(EntriesIn(node, ht), k), lo, hi, ht)
    BY <1>8, LocateStep
  <2>2. UNCHANGED node
    BY <1>8 DEF Locate, tree
  <2> QED
    BY <1>7, <2>1, <2>2 DEF Goes
<1>9. ASSUME ToLast
      PROVE  \E lo2, hi2, ht2 : Stands(lo2, hi2, ht2)' /\ Does(lo, hi, ht, ht2)
  <2>1. Types' /\ Ranged(lo, hi, ht)' /\ OnGreatest(it', EntriesIn(node, ht), lo, hi, ht)
    BY <1>9, ToLastStep
  <2>2. UNCHANGED node
    BY <1>9 DEF ToLast, tree
  <2> QED
    BY <1>7, <2>1, <2>2 DEF Goes
<1>10. ASSUME Increment
       PROVE  \E lo2, hi2, ht2 : Stands(lo2, hi2, ht2)' /\ Does(lo, hi, ht, ht2)
  <2>1. /\ Types' /\ Ranged(lo, hi, ht)' /\ it.off # NIL
        /\ OnLeast(it', Beyond(EntriesIn(node, ht), it.cur), lo, hi, ht)
    BY <1>10, IncrementStep
  <2>2. UNCHANGED node
    BY <1>10 DEF Increment, tree
  <2> QED
    BY <1>7, <2>1, <2>2 DEF Goes
<1>11. ASSUME Decrement
       PROVE  \E lo2, hi2, ht2 : Stands(lo2, hi2, ht2)' /\ Does(lo, hi, ht, ht2)
  <2>1. /\ Types' /\ Ranged(lo, hi, ht)' /\ it.off # NIL
        /\ StepsBack(it', EntriesIn(node, ht), it.cur, lo, hi, ht)
    BY <1>11, DecrementStep
  <2>2. UNCHANGED node
    BY <1>11 DEF Decrement, tree
  <2> QED
    BY <1>7, <2>1, <2>2 DEF Goes
<1>12. ASSUME UNCHANGED bvars
       PROVE  \E lo2, hi2, ht2 : Stands(lo2, hi2, ht2)' /\ Does(lo, hi, ht, ht2)
  <2>1. UNCHANGED <<node, root, levels, nnodes, it, failed>>
    BY <1>12 DEF bvars, tree
  <2>2. Types'
    BY <1>1, <2>1 DEF Types
  <2>3. Ranged(lo, hi, ht)'
    BY <1>1, <2>1 DEF Ranged
  <2>4. Stands(lo, hi, ht)' /\ Does(lo, hi, ht, ht)
    BY <1>1, <2>1, <2>2, <2>3 DEF Stands, Maps, Does
  <2> QED
    BY <2>4
<1> QED
  BY <1>2, <1>3, <1>4, <1>5, <1>6, <1>8, <1>9, <1>10, <1>11, <1>12 DEF BNext

LEMMA NextBInv ==
  ASSUME BInv, [BNext]_bvars
  PROVE  BInv'
<1>1. PICK lo, hi, ht : Stands(lo, hi, ht)
  BY BInvIs
<1>2. PICK lo2, hi2, ht2 : Stands(lo2, hi2, ht2)'
  BY <1>1, SomeStep
<1>3. /\ (levels \in Nat)' /\ (levels > 0 => node[root].slots # <<>>)'
      /\ (nnodes = Cardinality(DOMAIN node))'
      /\ (it \in [off : Nat, cur : Keys \cup {NIL}, fresh : BOOLEAN])'
      /\ (it.off # NIL => it.cur \in Keys)' /\ (failed \in Keys \cup {NIL})'
      /\ Ranged(lo2, hi2, ht2)'
      /\ lo2 \in [Nat -> Nat] /\ hi2 \in [Nat -> Nat] /\ ht2 \in [Nat -> Nat]
  BY <1>2 DEF Stands, Types, Maps
<1> QED
  BY <1>3 DEF BInv

\* Every reachable tree is sound in the sense of BInv: heights and ranges can
\* be given to its nodes that agree with their neighbours in the tree and in
\* the list of leaves.
THEOREM BtreeInv == BSpec => []BInv
<1>1. BInit => BInv
  BY InitBInv
<1>2. BInv /\ [BNext]_bvars => BInv'
  BY NextBInv
<1> QED
  BY <1>1, <1>2, PTL DEF BSpec

-----------------------------------------------------------------------------
(* The leaves in their order *)

\* p is the concatenation of more and more of the sequences s.
Flattens(s, m, p) == p = [i \in 1 .. m |-> IF i = 1 THEN s[i] ELSE p[i - 1] \o s[i]]

Joins(s, m, p) == p[1] = s[1] /\ \A i \in 2 .. m : p[i] = p[i - 1] \o s[i]

LEMMA FlattensExist ==
  ASSUME NEW s, NEW top \in Nat
  PROVE  \E p : Flattens(s, top, p)
<1> DEFINE T == {m \in Nat : ~ \E p : Flattens(s, m, p)}
<1> SUFFICES ASSUME T # {} PROVE FALSE
  OBVIOUS
<1>1. PICK m \in T : \A l \in T : m <= l
  <2>1. T \subseteq Nat
    OBVIOUS
  <2> HIDE DEF T
  <2> QED
    BY <2>1, LeastOfNaturals
<1>2. CASE m = 0
  <2> DEFINE a == [o \in 1 .. 0 |-> s[o]]
  <2>1. Flattens(s, 0, a)
    BY DEF Flattens
  <2> QED
    BY <1>2, <2>1
<1>3. CASE m # 0
  <2>1. m \in Nat /\ m - 1 \in Nat /\ m - 1 < m
    BY <1>3
  <2>2. m - 1 \notin T
    BY <1>1, <2>1
  <2>3. PICK a : Flattens(s, m - 1, a)
    BY <2>1, <2>2
  <2> DEFINE b == [i \in 1 .. m |-> IF i = 1 THEN s[i] ELSE a[i - 1] \o s[i]]
  <2>4. \A o \in 1 .. m - 1 : b[o] = a[o]
    <3>1. \A o \in 1 .. m - 1 : a[o] = IF o = 1 THEN s[o] ELSE a[o - 1] \o s[o]
      BY <2>3 DEF Flattens
    <3>2. \A o \in 1 .. m - 1 : o \in 1 .. m
      BY <2>1
    <3>3. \A o \in 1 .. m : b[o] = IF o = 1 THEN s[o] ELSE a[o - 1] \o s[o]
      OBVIOUS
    <3> HIDE DEF b
    <3> QED
      BY <3>1, <3>2, <3>3
  <2>5. \A o \in 1 .. m : o # 1 => o - 1 \in 1 .. m - 1
    BY <2>1
  <2>6. b = [i \in 1 .. m |-> IF i = 1 THEN s[i] ELSE b[i - 1] \o s[i]]
    BY <2>4, <2>5
  <2>7. Flattens(s, m, b)
    BY <2>6 DEF Flattens
  <2> QED
    BY <1>1, <2>7
<1> QED
  BY <1>2, <1>3

LEMMA FlattenSeqIs ==
  ASSUME NEW s, Len(s) \in Nat \ {0}
  PROVE  \E p : Joins(s, Len(s), p) /\ FlattenSeq(s) = p[Len(s)]
<1>1. PICK q : Flattens(s, Len(s), q)
  BY FlattensExist
<1>2. PICK p : p = CHOOSE a : Flattens(s, Len(s), a)
  OBVIOUS
<1>3. Flattens(s, Len(s), p)
  BY <1>1, <1>2
<1>4. FlattenSeq(s) = (CHOOSE a : Flattens(s, Len(s), a))[Len(s)]
  BY DEF FlattenSeq, Flattens
<1>5. \A i \in 1 .. Len(s) : p[i] = IF i = 1 THEN s[i] ELSE p[i - 1] \o s[i]
  BY <1>3 DEF Flattens
<1>6. 1 \in 1 .. Len(s) /\ \A i \in 2 .. Len(s) : i \in 1 .. Len(s) /\ i # 1
  OBVIOUS
<1>7. Joins(s, Len(s), p)
  BY <1>5, <1>6 DEF Joins
<1> QED
  BY <1>2, <1>4, <1>7

\* q are nodes at height h, next to one another, for the keys above a up to b.
Run(q, a, b, n, lo, hi, ht, h) ==
  /\ q \in Seq(Nat) /\ Len(q) # 0
  /\ \A i \in 1 .. Len(q) : q[i] \in DOMAIN n /\ ht[q[i]] = h
  /\ lo[q[1]] = a /\ hi[q[Len(q)]] = b
  /\ \A i \in 1 .. Len(q) - 1 : hi[q[i]] = lo[q[i + 1]]

LEMMA RunsJoin ==
  ASSUME NEW n, NEW lo, NEW hi, NEW ht, NEW h, NEW a, NEW b, NEW c,
         NEW q, Run(q, a, b, n, lo, hi, ht, h), NEW r, Run(r, b, c, n, lo, hi, ht, h)
  PROVE  Run(q \o r, a, c, n, lo, hi, ht, h)
<1>1. /\ q \in Seq(Nat) /\ r \in Seq(Nat) /\ Len(q) \in Nat /\ Len(r) \in Nat
      /\ Len(q) # 0 /\ Len(r) # 0
  BY DEF Run
<1>2. PICK s, u, v : s = q \o r /\ u = Len(q) /\ v = Len(r)
  OBVIOUS
<1>3. /\ s \in Seq(Nat) /\ Len(s) = u + v
      /\ \A i \in 1 .. u + v : s[i] = IF i <= u THEN q[i] ELSE r[i - u]
  BY <1>1, <1>2, ConcatProperties
<1>4. u \in Nat /\ v \in Nat /\ u # 0 /\ v # 0
  BY <1>1, <1>2
<1>5. ASSUME NEW i \in 1 .. u + v PROVE s[i] \in DOMAIN n /\ ht[s[i]] = h
  <2>1. CASE i <= u
    <3>1. s[i] = q[i] /\ i \in 1 .. Len(q)
      BY <1>2, <1>3, <1>4, <2>1
    <3> QED
      BY <3>1 DEF Run
  <2>2. CASE ~ i <= u
    <3>1. s[i] = r[i - u] /\ i - u \in 1 .. Len(r)
      BY <1>2, <1>3, <1>4, <2>2
    <3> QED
      BY <3>1 DEF Run
  <2> QED
    BY <2>1, <2>2
<1>6. lo[s[1]] = a /\ hi[s[u + v]] = c
  <2>1. s[1] = q[1]
    BY <1>3, <1>4
  <2>2. s[u + v] = r[(u + v) - u] /\ (u + v) - u = v
    BY <1>3, <1>4
  <2> QED
    BY <1>2, <2>1, <2>2 DEF Run
<1>7. ASSUME NEW i \in 1 .. (u + v) - 1 PROVE hi[s[i]] = lo[s[i + 1]]
  <2>0. i \in 1 .. u + v /\ i + 1 \in 1 .. u + v
    BY <1>4
  <2>1. CASE i < u
    <3>1. s[i] = q[i] /\ s[i + 1] = q[i + 1] /\ i \in 1 .. Len(q) - 1
      BY <1>2, <1>3, <1>4, <2>0, <2>1
    <3> QED
      BY <3>1 DEF Run
  <2>2. CASE i = u
    <3>1. s[i] = q[u] /\ s[i + 1] = r[(u + 1) - u] /\ (u + 1) - u = 1
      BY <1>3, <1>4, <2>0, <2>2
    <3>2. hi[q[u]] = b /\ lo[r[1]] = b
      BY <1>2 DEF Run
    <3> QED
      BY <3>1, <3>2
  <2>3. CASE i > u
    <3>1. /\ s[i] = r[i - u] /\ s[i + 1] = r[(i + 1) - u] /\ (i + 1) - u = (i - u) + 1
          /\ i - u \in 1 .. Len(r) - 1
      <4>1. s[i] = r[i - u] /\ s[i + 1] = r[(i + 1) - u]
        <5>1. ~ i <= u /\ ~ i + 1 <= u
          BY <1>4, <2>0, <2>3
        <5> QED
          BY <1>3, <2>0, <5>1
      <4>2. (i + 1) - u = (i - u) + 1 /\ i - u \in 1 .. v - 1
        BY <1>4, <2>0, <2>3
      <4> QED
        BY <1>2, <4>1, <4>2
    <3>2. \A j \in 1 .. Len(r) - 1 : hi[r[j]] = lo[r[j + 1]]
      BY DEF Run
    <3>3. hi[r[i - u]] = lo[r[(i - u) + 1]]
      BY <3>1, <3>2
    <3> QED
      BY <3>1, <3>3
  <2> QED
    BY <1>4, <2>1, <2>2, <2>3
<1>8. Run(s, a, c, n, lo, hi, ht, h)
  BY <1>3, <1>4, <1>5, <1>6, <1>7 DEF Run
<1> QED
  BY <1>2, <1>8

LEMMA SortedJoin ==
  ASSUME NEW a \in Nat, NEW b \in Nat, NEW c \in Nat, a <= b, b <= c,
         NEW q, Sorted(q, a, b), NEW r, Sorted(r, b, c)
  PROVE  Sorted(q \o r, a, c)
<1>1. /\ q \in Seq(Keys) /\ r \in Seq(Keys) /\ Len(q) \in Nat /\ Len(r) \in Nat
      /\ Increasing(q) /\ Increasing(r) /\ Within(q, a, b) /\ Within(r, b, c)
      /\ DOMAIN q = 1 .. Len(q) /\ DOMAIN r = 1 .. Len(r)
  BY DEF Sorted
<1>2. PICK s, u, v : s = q \o r /\ u = Len(q) /\ v = Len(r)
  OBVIOUS
<1>3. /\ s \in Seq(Keys) /\ Len(s) = u + v
      /\ \A i \in 1 .. u + v : s[i] = IF i <= u THEN q[i] ELSE r[i - u]
  BY <1>1, <1>2, ConcatProperties
<1>4. u \in Nat /\ v \in Nat /\ DOMAIN s = 1 .. u + v
  BY <1>1, <1>2, <1>3
<1>5. ASSUME NEW i \in 1 .. u + v
      PROVE  /\ i <= u => s[i] = q[i] /\ i \in DOMAIN q /\ a < s[i] /\ s[i] <= b
             /\ ~ i <= u => s[i] = r[i - u] /\ i - u \in DOMAIN r /\ b < s[i] /\ s[i] <= c
             /\ s[i] \in Nat
  <2>1. CASE i <= u
    <3>1. s[i] = q[i] /\ i \in DOMAIN q
      BY <1>1, <1>2, <1>3, <1>4, <2>1
    <3>2. s[i] \in Keys
      BY <1>1, <3>1
    <3> QED
      BY <1>1, <2>1, <3>1, <3>2, INFType DEF Within
  <2>2. CASE ~ i <= u
    <3>1. s[i] = r[i - u] /\ i - u \in DOMAIN r
      BY <1>1, <1>2, <1>3, <1>4, <2>2
    <3>2. s[i] \in Keys
      BY <1>1, <3>1
    <3> QED
      BY <1>1, <2>2, <3>1, <3>2, INFType DEF Within
  <2> QED
    BY <2>1, <2>2
<1>6. Within(s, a, c)
  BY <1>4, <1>5 DEF Within
<1>7. ASSUME NEW i \in DOMAIN s, NEW j \in DOMAIN s, i < j PROVE s[i] < s[j]
  <2>1. CASE j <= u
    <3>1. s[i] = q[i] /\ s[j] = q[j] /\ i \in DOMAIN q /\ j \in DOMAIN q
      BY <1>4, <1>5, <1>7, <2>1
    <3> QED
      BY <1>1, <1>7, <3>1 DEF Increasing
  <2>2. CASE ~ j <= u /\ i <= u
    BY <1>4, <1>5, <2>2
  <2>3. CASE ~ j <= u /\ ~ i <= u
    <3>1. /\ s[i] = r[i - u] /\ s[j] = r[j - u] /\ i - u \in DOMAIN r /\ j - u \in DOMAIN r
          /\ i - u < j - u
      <4>1. i \in 1 .. u + v /\ j \in 1 .. u + v
        BY <1>4
      <4>2. i - u < j - u
        BY <1>4, <1>7, <4>1
      <4> QED
        BY <1>5, <2>3, <4>1, <4>2
    <3> QED
      BY <1>1, <3>1 DEF Increasing
  <2> QED
    BY <2>1, <2>2, <2>3
<1>8. Sorted(s, a, c)
  BY <1>3, <1>6, <1>7 DEF Sorted, Increasing
<1> QED
  BY <1>2, <1>8

\* Each node of the run r makes way for a run in the same range.
LEMMA RunsFlatten ==
  ASSUME NEW n, NEW lo, NEW hi, NEW ht, NEW g, NEW h, NEW a, NEW b,
         NEW r, Run(r, a, b, n, lo, hi, ht, g), NEW s, Len(s) = Len(r),
         \A i \in 1 .. Len(r) : Run(s[i], lo[r[i]], hi[r[i]], n, lo, hi, ht, h)
  PROVE  Run(FlattenSeq(s), a, b, n, lo, hi, ht, h)
<1>1. PICK u : u = Len(r)
  OBVIOUS
<1>2. /\ u \in Nat /\ u # 0 /\ Len(s) = u /\ lo[r[1]] = a /\ hi[r[u]] = b
      /\ \A i \in 1 .. u - 1 : hi[r[i]] = lo[r[i + 1]]
  BY <1>1 DEF Run
<1>3. PICK p : Joins(s, u, p) /\ FlattenSeq(s) = p[u]
  BY <1>2, FlattenSeqIs
<1> DEFINE Good(m) == Run(p[m], a, hi[r[m]], n, lo, hi, ht, h)
           T == {m \in Nat : m # 0 /\ m <= u /\ ~ Good(m)}
<1>4. ASSUME T # {} PROVE FALSE
  <2>1. PICK m \in T : \A l \in T : m <= l
    <3>1. T \subseteq Nat
      OBVIOUS
    <3> HIDE DEF T
    <3> QED
      BY <1>4, <3>1, LeastOfNaturals
  <2>2. m \in Nat /\ m # 0 /\ m <= u /\ ~ Good(m)
    OBVIOUS
  <2>3. m # 1
    <3>1. p[1] = s[1]
      BY <1>3 DEF Joins
    <3>2. Run(s[1], lo[r[1]], hi[r[1]], n, lo, hi, ht, h)
      <4>1. 1 \in 1 .. Len(r)
        BY <1>1, <1>2
      <4> QED
        BY <4>1
    <3>3. Good(1)
      BY <1>2, <3>1, <3>2
    <3> HIDE DEF Good
    <3> QED
      BY <2>2, <3>3
  <2>4. PICK o : o = m - 1
    OBVIOUS
  <2>5. o \in Nat /\ o # 0 /\ o <= u /\ o < m /\ o \in 1 .. u - 1 /\ m \in 2 .. u /\ o + 1 = m
        /\ m \in 1 .. Len(r)
    BY <1>1, <1>2, <2>2, <2>3, <2>4
  <2>6. Good(o)
    BY <2>1, <2>5
  <2>7. p[m] = p[o] \o s[m]
    BY <1>3, <2>4, <2>5 DEF Joins
  <2>8. hi[r[o]] = lo[r[m]]
    BY <1>2, <2>5
  <2>9. Run(s[m], hi[r[o]], hi[r[m]], n, lo, hi, ht, h)
    BY <2>5, <2>8
  <2>10. Run(p[o] \o s[m], a, hi[r[m]], n, lo, hi, ht, h)
    BY <2>6, <2>9, RunsJoin
  <2>11. Good(m)
    BY <2>7, <2>10
  <2> HIDE DEF Good
  <2> QED
    BY <2>2, <2>11
<1>5. Good(u)
  <2>1. u \notin T
    <3> HIDE DEF T
    <3> QED
      BY <1>4
  <2> HIDE DEF Good
  <2> QED
    BY <1>2, <2>1
<1> QED
  BY <1>2, <1>3, <1>5

LEMMA NumbersOf ==
  ASSUME NEW r \in Seq(Nat)
  PROVE  \A i \in 1 .. Len(r) : r[i] \in Nat
OBVIOUS

LEMMA SortedFlatten ==
  ASSUME NEW n, NEW lo \in [Nat -> Nat], NEW hi \in [Nat -> Nat], NEW ht, NEW h, NEW a, NEW b,
         NEW r, Run(r, a, b, n, lo, hi, ht, h), NEW s, Len(s) = Len(r),
         \A i \in 1 .. Len(r) : lo[r[i]] < hi[r[i]] /\ Sorted(s[i], lo[r[i]], hi[r[i]])
  PROVE  Sorted(FlattenSeq(s), a, b)
<1>1. PICK u : u = Len(r)
  OBVIOUS
<1>2. /\ u \in Nat /\ u # 0 /\ Len(s) = u /\ lo[r[1]] = a /\ hi[r[u]] = b
      /\ \A i \in 1 .. u - 1 : hi[r[i]] = lo[r[i + 1]]
      /\ \A i \in 1 .. u : r[i] \in Nat
  <2>1. \A i \in 1 .. Len(r) : r[i] \in Nat
    <3>1. r \in Seq(Nat)
      BY DEF Run
    <3> QED
      BY <3>1, NumbersOf
  <2>2. Len(r) \in Nat
    BY DEF Run
  <2> QED
    BY <1>1, <2>1, <2>2 DEF Run
<1>3. PICK p : Joins(s, u, p) /\ FlattenSeq(s) = p[u]
  BY <1>2, FlattenSeqIs
<1> DEFINE Good(m) == a <= hi[r[m]] /\ Sorted(p[m], a, hi[r[m]])
           T == {m \in Nat : m # 0 /\ m <= u /\ ~ Good(m)}
<1>4. ASSUME T # {} PROVE FALSE
  <2>1. PICK m \in T : \A l \in T : m <= l
    <3>1. T \subseteq Nat
      OBVIOUS
    <3> HIDE DEF T
    <3> QED
      BY <1>4, <3>1, LeastOfNaturals
  <2>2. m \in Nat /\ m # 0 /\ m <= u /\ ~ Good(m)
    OBVIOUS
  <2>0. 1 \in 1 .. u /\ a \in Nat
    <3>1. 1 \in 1 .. u
      BY <1>2
    <3> QED
      BY <1>2, <3>1
  <2>3. m # 1
    <3>1. p[1] = s[1]
      BY <1>3 DEF Joins
    <3>2. lo[r[1]] < hi[r[1]] /\ Sorted(s[1], lo[r[1]], hi[r[1]])
      BY <1>1, <2>0
    <3>3. hi[r[1]] \in Nat
      BY <1>2, <2>0
    <3>4. Good(1)
      <4>1. PICK c : c = hi[r[1]]
        OBVIOUS
      <4>2. a < c /\ c \in Nat /\ Sorted(p[1], a, c)
        BY <1>2, <3>1, <3>2, <3>3, <4>1
      <4>3. a <= c
        BY <2>0, <4>2
      <4> QED
        BY <4>1, <4>2, <4>3
    <3> HIDE DEF Good
    <3> QED
      BY <2>2, <3>4
  <2>4. PICK o : o = m - 1
    OBVIOUS
  <2>5. o \in Nat /\ o # 0 /\ o <= u /\ o < m /\ o \in 1 .. u - 1 /\ m \in 2 .. u /\ o + 1 = m
        /\ m \in 1 .. Len(r) /\ m \in 1 .. u /\ o \in 1 .. u
    BY <1>1, <1>2, <2>2, <2>3, <2>4
  <2>6. Good(o)
    <3>1. o \notin T
      <4>1. ~ m <= o
        BY <2>5
      <4> HIDE DEF T
      <4> QED
        BY <2>1, <4>1
    <3> HIDE DEF Good
    <3> QED
      BY <2>5, <3>1
  <2>7. p[m] = p[o] \o s[m]
    BY <1>3, <2>4, <2>5 DEF Joins
  <2>8. hi[r[o]] = lo[r[m]]
    BY <1>2, <2>5
  <2>9. PICK c, d : c = hi[r[o]] /\ d = hi[r[m]]
    OBVIOUS
  <2>10. c \in Nat /\ d \in Nat /\ c < d /\ a <= c
    BY <1>2, <2>5, <2>6, <2>8, <2>9
  <2>11. Sorted(p[o], a, c) /\ Sorted(s[m], c, d)
    BY <2>5, <2>6, <2>8, <2>9
  <2>12. Sorted(p[o] \o s[m], a, d) /\ a <= d
    <3>1. c <= d /\ a <= d
      <4> HIDE DEF Good, T
      <4>1. a \in Nat
        BY <2>0
      <4> QED
        BY <2>10, <4>1
    <3> QED
      BY <2>0, <2>10, <2>11, <3>1, SortedJoin
  <2>13. Good(m)
    BY <2>7, <2>9, <2>12
  <2> HIDE DEF Good
  <2> QED
    BY <2>2, <2>13
<1>5. Good(u)
  <2>1. u \notin T
    <3> HIDE DEF T
    <3> QED
      BY <1>4
  <2> HIDE DEF Good
  <2> QED
    BY <1>2, <2>1
<1> QED
  BY <1>2, <1>3, <1>5

LEMMA ChildrenRun ==
  ASSUME NEW lo, NEW hi, NEW ht, Maps(lo, lo, hi, ht), NEW n, NEW top \in Nat,
         Sound(n, lo, lo, hi, ht, top), NEW x \in DOMAIN n, NEW h \in Nat, ht[x] = h + 1
  PROVE  Run(Children(n[x]), lo[x], hi[x], n, lo, hi, ht, h)
<1>1. /\ ht[x] # 0 /\ n[x] \in TreeNodes /\ KidsSound(n, lo, lo, hi, ht, x)
      /\ lo[x] \in Nat /\ hi[x] \in Nat
  <2>1. ht[x] # 0
    OBVIOUS
  <2> QED
    BY <2>1, NodeFacts
<1>2. PICK t, u, f, q : /\ t = n[x] /\ u = Len(t.slots)
                        /\ f = [j \in DOMAIN t.slots |-> t.slots[j].adr] /\ q = Children(t)
  OBVIOUS
<1>3. /\ u \in Nat /\ DOMAIN t.slots = 1 .. u /\ t.last \in Nat
      /\ \A i \in 1 .. u : t.slots[i].adr \in Nat
  BY <1>1, <1>2, TreeNodeIs
<1>4. f \in [1 .. u -> Nat] /\ \A i \in 1 .. u : f[i] = t.slots[i].adr
  BY <1>2, <1>3
<1>5. f \in Seq(Nat) /\ Len(f) = u
  BY <1>3, <1>4
<1>6. q = Append(f, t.last)
  BY <1>2 DEF Children
<1>7. /\ q \in Seq(Nat) /\ Len(q) = u + 1
      /\ \A i \in 1 .. u : q[i] = f[i]
      /\ q[u + 1] = t.last
  BY <1>3, <1>5, <1>6, AppendProperties
<1>8. ASSUME NEW i \in 1 .. u + 1 PROVE q[i] = Kid(t, i)
  <2>1. CASE i <= u
    <3>1. i \in 1 .. u
      BY <1>3, <2>1
    <3>2. q[i] = t.slots[i].adr
      BY <1>4, <1>7, <3>1
    <3> QED
      BY <1>2, <2>1, <3>2 DEF Kid
  <2>2. CASE ~ i <= u
    <3>1. i = u + 1
      BY <1>3, <2>2
    <3> QED
      BY <1>2, <1>7, <2>2, <3>1 DEF Kid
  <2> QED
    BY <2>1, <2>2
<1>9. ASSUME NEW i \in 1 .. u + 1
      PROVE  /\ q[i] \in DOMAIN n /\ ht[q[i]] = h
             /\ lo[q[i]] = Low(t, i, lo[x]) /\ hi[q[i]] = High(t, i, hi[x])
  <2>1. /\ q[i] \in DOMAIN n /\ ht[q[i]] + 1 = ht[x]
        /\ lo[q[i]] = Low(t, i, lo[x]) /\ hi[q[i]] = High(t, i, hi[x])
    BY <1>1, <1>2, <1>8 DEF KidsSound
  <2>2. ht[q[i]] \in Nat
    BY <2>1, NodeFacts
  <2> QED
    BY <2>1, <2>2
<1>10. lo[q[1]] = lo[x]
  <2>1. 1 \in 1 .. u + 1
    BY <1>3
  <2> QED
    BY <1>9, <2>1 DEF Low
<1>11. hi[q[u + 1]] = hi[x]
  <2>1. u + 1 \in 1 .. u + 1 /\ ~ u + 1 <= u
    BY <1>3
  <2> QED
    BY <1>2, <1>9, <2>1 DEF High
<1>12. ASSUME NEW i \in 1 .. u PROVE hi[q[i]] = lo[q[i + 1]]
  <2>1. i \in 1 .. u + 1 /\ i + 1 \in 1 .. u + 1 /\ i <= u /\ i + 1 # 1 /\ (i + 1) - 1 = i
    BY <1>3
  <2>2. High(t, i, hi[x]) = t.slots[i].key
    BY <1>2, <2>1 DEF High
  <2>3. Low(t, i + 1, lo[x]) = t.slots[i].key
    BY <2>1 DEF Low
  <2> QED
    BY <1>9, <2>1, <2>2, <2>3
<1>13. Run(q, lo[x], hi[x], n, lo, hi, ht, h)
  <2>1. Len(q) # 0 /\ 1 .. Len(q) = 1 .. u + 1 /\ 1 .. Len(q) - 1 = 1 .. u
    BY <1>3, <1>7
  <2> QED
    BY <1>7, <1>9, <1>10, <1>11, <1>12, <2>1 DEF Run
<1> QED
  BY <1>2, <1>13

\* The tree nodes level by level.
Rows(m, p) ==
  p = [i \in 0 .. m |->
         IF i = 0 THEN <<root>>
         ELSE FlattenSeq([j \in DOMAIN p[i - 1] |-> Children(node[p[i - 1][j]])])]

LEMMA RowsExist ==
  ASSUME NEW top \in Nat
  PROVE  \E p : Rows(top, p)
<1> DEFINE T == {m \in Nat : ~ \E p : Rows(m, p)}
           N(q) == FlattenSeq([j \in DOMAIN q |-> Children(node[q[j]])])
<1> SUFFICES ASSUME T # {} PROVE FALSE
  OBVIOUS
<1>0. \A m, p : Rows(m, p) <=> p = [i \in 0 .. m |-> IF i = 0 THEN <<root>> ELSE N(p[i - 1])]
  BY DEF Rows
<1> HIDE DEF N
<1>1. PICK m \in T : \A l \in T : m <= l
  <2>1. T \subseteq Nat
    OBVIOUS
  <2> HIDE DEF T
  <2> QED
    BY <2>1, LeastOfNaturals
<1>2. CASE m = 0
  <2> DEFINE a == [o \in 0 .. 0 |-> <<root>>]
  <2>2. a = [o \in 0 .. 0 |-> IF o = 0 THEN <<root>> ELSE N(a[o - 1])]
    OBVIOUS
  <2>1. Rows(0, a)
    BY <1>0, <2>2
  <2> QED
    BY <1>2, <2>1
<1>3. CASE m # 0
  <2>1. m \in Nat /\ m - 1 \in Nat /\ m - 1 < m
    BY <1>3
  <2>2. m - 1 \notin T
    BY <1>1, <2>1
  <2>3. PICK a : Rows(m - 1, a)
    BY <2>1, <2>2
  <2>4. a = [i \in 0 .. m - 1 |-> IF i = 0 THEN <<root>> ELSE N(a[i - 1])]
    BY <1>0, <2>3
  <2> DEFINE b == [i \in 0 .. m |-> IF i = 0 THEN <<root>> ELSE N(a[i - 1])]
  <2>5. \A o \in 0 .. m - 1 : b[o] = a[o]
    <3>1. \A o \in 0 .. m - 1 : o \in 0 .. m
      BY <2>1
    <3>2. \A o \in 0 .. m : b[o] = IF o = 0 THEN <<root>> ELSE N(a[o - 1])
      OBVIOUS
    <3>3. \A o \in 0 .. m - 1 : a[o] = IF o = 0 THEN <<root>> ELSE N(a[o - 1])
      BY <2>4
    <3> HIDE DEF b
    <3> QED
      BY <3>1, <3>2, <3>3
  <2>6. \A o \in 0 .. m : o # 0 => o - 1 \in 0 .. m - 1
    BY <2>1
  <2>7. b = [i \in 0 .. m |-> IF i = 0 THEN <<root>> ELSE N(b[i - 1])]
    BY <2>5, <2>6
  <2>8. Rows(m, b)
    <3> HIDE DEF b
    <3> QED
      BY <1>0, <2>7
  <2> QED
    BY <1>1, <2>8
<1> QED
  BY <1>2, <1>3

LEMMA LeavesIs ==
  ASSUME levels \in Nat
  PROVE  \E p : Rows(levels, p) /\ Leaves = p[levels]
<1>1. PICK q : Rows(levels, q)
  BY RowsExist
<1>2. Leaves = (CHOOSE a : Rows(levels, a))[levels]
  BY DEF Leaves, Rows
<1>3. Rows(levels, CHOOSE a : Rows(levels, a))
  BY <1>1
<1> QED
  BY <1>2, <1>3

\* The leaves of the tree are next to one another, for all the keys.
LEMMA LeavesRun ==
  ASSUME NEW lo, NEW hi, NEW ht, Stands(lo, hi, ht)
  PROVE  Run(Leaves, 0, INF, node, lo, hi, ht, 0)
<1>1. /\ levels \in Nat /\ Maps(lo, lo, hi, ht) /\ Sound(node, lo, lo, hi, ht, levels)
      /\ root \in DOMAIN node /\ ht[root] = levels /\ lo[root] = 0 /\ hi[root] = INF
  BY DEF Stands, Types, Ranged, RootSound
<1>2. PICK p : Rows(levels, p) /\ Leaves = p[levels]
  BY <1>1, LeavesIs
<1> DEFINE Good(m) == Run(p[m], 0, INF, node, lo, hi, ht, levels - m)
           T == {m \in Nat : m <= levels /\ ~ Good(m)}
<1>3. ASSUME T # {} PROVE FALSE
  <2>1. PICK m \in T : \A l \in T : m <= l
    <3>1. T \subseteq Nat
      OBVIOUS
    <3> HIDE DEF T
    <3> QED
      BY <1>3, <3>1, LeastOfNaturals
  <2>2. m \in Nat /\ m <= levels /\ ~ Good(m)
    OBVIOUS
  <2>3. m # 0
    <3>1. p[0] = <<root>>
      <4>1. 0 \in 0 .. levels
        BY <1>1
      <4> QED
        BY <1>2, <4>1 DEF Rows
    <3>2. <<root>> \in Seq(Nat) /\ Len(<<root>>) = 1 /\ <<root>>[1] = root
      BY <1>1, NodeFacts
    <3>3. PICK q : q = <<root>>
      OBVIOUS
    <3>4. q \in Seq(Nat) /\ Len(q) = 1 /\ q[1] = root
      BY <3>2, <3>3
    <3>5. Run(q, 0, INF, node, lo, hi, ht, levels)
      <4>1. \A i \in 1 .. 1 : i = 1
        OBVIOUS
      <4>2. 1 .. 1 - 1 = {}
        OBVIOUS
      <4> QED
        BY <1>1, <3>4, <4>1, <4>2 DEF Run
    <3>6. Good(0)
      <4>1. levels - 0 = levels
        BY <1>1
      <4> QED
        BY <3>1, <3>3, <3>5, <4>1
    <3> HIDE DEF Good
    <3> QED
      BY <2>2, <3>6
  <2>4. PICK o : o = m - 1
    OBVIOUS
  <2>5. /\ o \in Nat /\ o <= levels /\ o < m /\ m \in 0 .. levels /\ m - 1 = o
        /\ levels - o = (levels - m) + 1 /\ levels - m \in Nat
    BY <1>1, <2>2, <2>3, <2>4
  <2>6. Good(o)
    <3>1. o \notin T
      <4>1. ~ m <= o
        BY <2>5
      <4> HIDE DEF T
      <4> QED
        BY <2>1, <4>1
    <3> HIDE DEF Good
    <3> QED
      BY <2>5, <3>1
  <2>7. PICK r, h, s : /\ r = p[o] /\ h = levels - m
                       /\ s = [j \in DOMAIN r |-> Children(node[r[j]])]
    OBVIOUS
  <2>8. p[m] = FlattenSeq(s)
    <3>1. p[m] = FlattenSeq([j \in DOMAIN p[m - 1] |-> Children(node[p[m - 1][j]])])
      BY <1>2, <2>3, <2>5 DEF Rows
    <3> QED
      BY <2>5, <2>7, <3>1
  <2>9. Run(r, 0, INF, node, lo, hi, ht, h + 1)
    BY <2>5, <2>6, <2>7
  <2>10. r \in Seq(Nat) /\ DOMAIN r = 1 .. Len(r) /\ Len(r) \in Nat
    BY <2>9 DEF Run
  <2>11. Len(s) = Len(r)
    BY <2>7, <2>10
  <2>12. ASSUME NEW i \in 1 .. Len(r)
         PROVE  Run(s[i], lo[r[i]], hi[r[i]], node, lo, hi, ht, h)
    <3>1. r[i] \in DOMAIN node /\ ht[r[i]] = h + 1
      BY <2>9 DEF Run
    <3>2. s[i] = Children(node[r[i]])
      BY <2>7, <2>10
    <3>3. PICK x : x = r[i]
      OBVIOUS
    <3>4. h \in Nat
      BY <2>5, <2>7
    <3>5. Run(Children(node[x]), lo[x], hi[x], node, lo, hi, ht, h)
      BY <1>1, <3>1, <3>3, <3>4, ChildrenRun
    <3> QED
      BY <3>2, <3>3, <3>5
  <2>13. Run(FlattenSeq(s), 0, INF, node, lo, hi, ht, h)
    BY <2>9, <2>11, <2>12, RunsFlatten
  <2>14. Good(m)
    BY <2>7, <2>8, <2>13
  <2> HIDE DEF Good
  <2> QED
    BY <2>2, <2>14
<1>4. Good(levels)
  <2>1. levels \notin T
    <3> HIDE DEF T
    <3> QED
      BY <1>3
  <2> HIDE DEF Good
  <2> QED
    BY <1>1, <2>1
<1>5. levels - levels = 0
  BY <1>1
<1> QED
  BY <1>2, <1>4, <1>5

\* The leaf that is for k is the one that a search finds.
LEMMA HomeIs ==
  ASSUME NEW lo, NEW hi, NEW ht, Stands(lo, hi, ht), NEW x, LeafAt(x, ht),
         NEW k \in Nat, lo[x] < k, k <= hi[x]
  PROVE  LeafOf(k) = x
<1>1. /\ lo \in [Nat -> Nat] /\ hi \in [Nat -> Nat] /\ ht \in [Nat -> Nat] /\ levels \in Nat
      /\ Sound(node, lo, lo, hi, ht, levels) /\ RootSound(node, root, lo, hi, ht, levels)
  BY DEF Stands, Maps, Types, Ranged
<1>2. x \in DOMAIN node /\ ht[x] = 0 /\ lo[x] \in Nat /\ hi[x] \in Nat /\ hi[x] <= INF
  BY LeafAtIs DEF LeafAt
<1>3. k \in 1 .. INF
  BY <1>2, INFType
<1>4. For(node, lo, hi, LeafOf(k), k) /\ ht[LeafOf(k)] = 0
  BY <1>1, <1>3, LeafOfIs
<1>5. For(node, lo, hi, x, k)
  BY <1>2 DEF For
<1> QED
  BY <1>1, <1>2, <1>4, <1>5, OnlyOneFor

\* Two leaves that are for keys up to the same one are the same.
LEMMA SameLeaf ==
  ASSUME NEW lo, NEW hi, NEW ht, Stands(lo, hi, ht), NEW x, LeafAt(x, ht), NEW y, LeafAt(y, ht),
         lo[x] < hi[y], hi[y] <= hi[x]
  PROVE  x = y
<1>1. lo[y] < hi[y] /\ hi[y] \in Nat
  BY LeafAtIs
<1>2. LeafOf(hi[y]) = x
  BY <1>1, HomeIs
<1>3. LeafOf(hi[y]) = y
  <2>1. hi[y] <= hi[y]
    BY <1>1
  <2> QED
    BY <1>1, <2>1, HomeIs
<1> QED
  BY <1>2, <1>3

LEMMA LeavesAll ==
  ASSUME NEW lo, NEW hi, NEW ht, Stands(lo, hi, ht), NEW y, LeafAt(y, ht)
  PROVE  \E i \in 1 .. Len(Leaves) : Leaves[i] = y
<1>1. PICK q, u : q = Leaves /\ u = Len(q)
  OBVIOUS
<1>2. Run(q, 0, INF, node, lo, hi, ht, 0)
  BY <1>1, LeavesRun
<1>3. /\ u \in Nat /\ u # 0 /\ lo[q[1]] = 0 /\ hi[q[u]] = INF
      /\ \A i \in 1 .. u : LeafAt(q[i], ht)
      /\ \A i \in 1 .. u - 1 : hi[q[i]] = lo[q[i + 1]]
  <2>1. Len(q) \in Nat
    BY <1>2 DEF Run
  <2> QED
    BY <1>1, <1>2, <2>1 DEF Run, LeafAt
<1>4. hi[y] \in Nat /\ lo[y] \in Nat /\ lo[y] < hi[y] /\ hi[y] <= INF
  BY LeafAtIs
<1> DEFINE T == {m \in Nat : m # 0 /\ m <= u /\ hi[y] <= hi[q[m]]}
<1>5. T \subseteq Nat /\ T # {}
  <2>1. u \in T
    BY <1>3, <1>4
  <2> QED
    BY <2>1
<1>6. PICK m \in T : \A l \in T : m <= l
  <2> HIDE DEF T
  <2> QED
    BY <1>5, LeastOfNaturals
<1>7. m \in Nat /\ m # 0 /\ m <= u /\ hi[y] <= hi[q[m]] /\ m \in 1 .. u
  BY <1>3
<1>8. lo[q[m]] < hi[y]
  <2>1. CASE m = 1
    <3>1. lo[q[m]] = 0
      BY <1>3, <2>1
    <3> QED
      BY <1>4, <3>1
  <2>2. CASE m # 1
    <3>1. PICK o : o = m - 1
      OBVIOUS
    <3>2. o \in Nat /\ o # 0 /\ o <= u /\ o \in 1 .. u - 1 /\ o \in 1 .. u /\ ~ m <= o /\ o + 1 = m
      BY <1>3, <1>7, <2>2, <3>1
    <3>3. ~ hi[y] <= hi[q[o]]
      <4>1. o \notin T
        <5> HIDE DEF T
        <5> QED
          BY <1>6, <3>2
      <4> QED
        BY <3>2, <4>1
    <3>4. hi[q[o]] = lo[q[m]]
      BY <1>3, <3>2
    <3>5. hi[q[o]] \in Nat
      BY <1>3, <3>2, LeafAtIs
    <3> QED
      BY <1>4, <3>3, <3>4, <3>5
  <2> QED
    BY <2>1, <2>2
<1>9. q[m] = y
  <2>1. PICK x : x = q[m]
    OBVIOUS
  <2>2. LeafAt(x, ht) /\ lo[x] < hi[y] /\ hi[y] <= hi[x]
    BY <1>3, <1>7, <1>8, <2>1
  <2>3. x = y
    BY <2>2, SameLeaf
  <2> QED
    BY <2>1, <2>3
<1> QED
  BY <1>1, <1>7, <1>9

\* What is along the leaves is what is in the tree.
LEMMA EntriesAre ==
  ASSUME NEW lo, NEW hi, NEW ht, Stands(lo, hi, ht)
  PROVE  Entries = EntriesIn(node, ht)
<1>1. Run(Leaves, 0, INF, node, lo, hi, ht, 0)
  BY LeavesRun
<1>2. /\ Leaves \in Seq(Nat) /\ \A i \in 1 .. Len(Leaves) : LeafAt(Leaves[i], ht)
  BY <1>1 DEF Run, LeafAt
<1>3. \A x : x \in ToSet(Leaves) <=> LeafAt(x, ht)
  <2>1. ToSet(Leaves) = {Leaves[i] : i \in 1 .. Len(Leaves)}
    BY <1>2 DEF ToSet
  <2>2. ASSUME NEW x, LeafAt(x, ht) PROVE \E i \in 1 .. Len(Leaves) : Leaves[i] = x
    BY <2>2, LeavesAll
  <2> QED
    BY <1>2, <2>1, <2>2
<1>4. ASSUME NEW x, LeafAt(x, ht), NEW e \in ToSet(node[x].slots) PROVE e \in Keys
  BY <1>4, LeafAtIs
<1>5. Entries = {e \in Keys : \E x : LeafAt(x, ht) /\ e \in ToSet(node[x].slots)}
  BY <1>3, <1>4 DEF Entries
<1> QED
  BY <1>5 DEF EntriesIn, LeafAt

\* The i-th leaf is linked with those before and after it.
LEMMA LinkedLeaf ==
  ASSUME NEW lo, NEW hi, NEW ht, Stands(lo, hi, ht), NEW i \in 1 .. Len(Leaves)
  PROVE  /\ LeafAt(Leaves[i], ht)
         /\ node[Leaves[i]].next = IF i = Len(Leaves) THEN NIL ELSE Leaves[i + 1]
         /\ node[Leaves[i]].prev = IF i = 1 THEN NIL ELSE Leaves[i - 1]
<1>1. PICK q, u, x : q = Leaves /\ u = Len(q) /\ x = q[i]
  OBVIOUS
<1>2. Run(q, 0, INF, node, lo, hi, ht, 0)
  BY <1>1, LeavesRun
<1>3. /\ u \in Nat /\ u # 0 /\ i \in 1 .. u /\ lo[q[1]] = 0 /\ hi[q[u]] = INF
      /\ \A j \in 1 .. u : LeafAt(q[j], ht)
      /\ \A j \in 1 .. u - 1 : hi[q[j]] = lo[q[j + 1]]
  <2>1. Len(q) \in Nat
    BY <1>2 DEF Run
  <2> QED
    BY <1>1, <1>2, <2>1 DEF Run, LeafAt
<1>4. LeafAt(x, ht)
  BY <1>1, <1>3
<1>5. /\ lo[x] \in Nat /\ hi[x] \in Nat
      /\ IF hi[x] = INF THEN node[x].next = NIL
         ELSE LeafAt(node[x].next, ht) /\ lo[node[x].next] = hi[x]
      /\ IF lo[x] = 0 THEN node[x].prev = NIL
         ELSE LeafAt(node[x].prev, ht) /\ hi[node[x].prev] = lo[x]
  BY <1>4, LeafAtIs
<1>6. node[x].next = IF i = u THEN NIL ELSE q[i + 1]
  <2>1. CASE i = u
    <3>1. hi[x] = INF
      BY <1>1, <1>3, <2>1
    <3> QED
      BY <1>5, <2>1, <3>1
  <2>2. CASE i # u
    <3>1. i \in 1 .. u - 1 /\ i + 1 \in 1 .. u
      BY <1>3, <2>2
    <3>2. PICK z, y : z = q[i + 1] /\ y = node[x].next
      OBVIOUS
    <3>3. LeafAt(z, ht) /\ lo[z] = hi[x]
      BY <1>1, <1>3, <3>1, <3>2
    <3>4. lo[z] < hi[z] /\ hi[z] <= INF /\ hi[z] \in Nat
      BY <3>3, LeafAtIs
    <3>5. LeafAt(y, ht) /\ lo[y] = hi[x]
      <4>1. hi[x] # INF
        BY <1>5, <3>3, <3>4
      <4> QED
        BY <1>5, <3>2, <4>1
    <3>6. lo[y] < hi[y] /\ hi[y] \in Nat
      BY <3>5, LeafAtIs
    <3>7. lo[y] < hi[z] /\ lo[z] < hi[y]
      BY <3>3, <3>4, <3>5, <3>6
    <3>8. y = z
      <4>1. CASE hi[y] <= hi[z]
        BY <3>3, <3>5, <3>7, <4>1, SameLeaf
      <4>2. CASE hi[z] <= hi[y]
        BY <3>3, <3>5, <3>7, <4>2, SameLeaf
      <4> QED
        BY <3>4, <3>6, <4>1, <4>2
    <3> QED
      BY <2>2, <3>2, <3>8
  <2> QED
    BY <2>1, <2>2
<1>7. node[x].prev = IF i = 1 THEN NIL ELSE q[i - 1]
  <2>1. CASE i = 1
    <3>1. lo[x] = 0
      BY <1>1, <1>3, <2>1
    <3> QED
      BY <1>5, <2>1, <3>1
  <2>2. CASE i # 1
    <3>1. i - 1 \in 1 .. u - 1 /\ i - 1 \in 1 .. u /\ (i - 1) + 1 = i
      BY <1>3, <2>2
    <3>2. PICK z, y : z = q[i - 1] /\ y = node[x].prev
      OBVIOUS
    <3>3. LeafAt(z, ht) /\ hi[z] = lo[x]
      BY <1>1, <1>3, <3>1, <3>2
    <3>4. lo[z] < hi[z] /\ hi[z] \in Nat /\ lo[z] \in Nat
      BY <3>3, LeafAtIs
    <3>5. LeafAt(y, ht) /\ hi[y] = lo[x]
      <4>1. lo[x] # 0
        BY <3>3, <3>4
      <4> QED
        BY <1>5, <3>2, <4>1
    <3>6. hi[z] <= hi[y] /\ lo[y] < hi[z]
      <4>1. lo[y] < hi[y]
        BY <3>5, LeafAtIs
      <4> QED
        BY <3>3, <3>4, <3>5, <4>1
    <3>7. y = z
      BY <3>3, <3>5, <3>6, SameLeaf
    <3> QED
      BY <2>2, <3>2, <3>7
  <2> QED
    BY <2>1, <2>2
<1> QED
  BY <1>1, <1>4, <1>6, <1>7

\* All entries from left to right are in order.
LEMMA EntriesSorted ==
  ASSUME NEW lo, NEW hi, NEW ht, Stands(lo, hi, ht)
  PROVE  Sorted(FlattenSeq([i \in DOMAIN Leaves |-> node[Leaves[i]].slots]), 0, INF)
<1>1. PICK q, s : q = Leaves /\ s = [i \in DOMAIN q |-> node[q[i]].slots]
  OBVIOUS
<1>2. Run(q, 0, INF, node, lo, hi, ht, 0)
  BY <1>1, LeavesRun
<1>3. Len(q) \in Nat /\ DOMAIN q = 1 .. Len(q) /\ \A i \in 1 .. Len(q) : LeafAt(q[i], ht)
  BY <1>2 DEF Run, LeafAt
<1>4. Len(s) = Len(q) /\ \A i \in 1 .. Len(q) : s[i] = node[q[i]].slots
  BY <1>1, <1>3
<1>5. ASSUME NEW x, LeafAt(x, ht)
      PROVE  lo[x] < hi[x] /\ Sorted(node[x].slots, lo[x], hi[x])
  <2>1. /\ levels \in Nat /\ Maps(lo, lo, hi, ht) /\ Sound(node, lo, lo, hi, ht, levels)
        /\ x \in DOMAIN node /\ ht[x] = 0
    BY <1>5 DEF Stands, Types, Ranged, LeafAt
  <2>2. lo[x] < hi[x] /\ node[x] \in LeafNodes /\ LeafSound(node, lo, hi, ht, levels, x)
    BY <2>1, NodeFacts
  <2>3. node[x].slots \in Seq(Keys)
    BY <2>2, LeafNodeIs
  <2> QED
    BY <2>2, <2>3 DEF LeafSound, Sorted
<1>6. ASSUME NEW i \in 1 .. Len(q)
      PROVE  lo[q[i]] < hi[q[i]] /\ Sorted(s[i], lo[q[i]], hi[q[i]])
  BY <1>3, <1>4, <1>5
<1>7. lo \in [Nat -> Nat] /\ hi \in [Nat -> Nat]
  BY DEF Stands, Maps
<1>8. Sorted(FlattenSeq(s), 0, INF)
  <2>1. Len(s) = Len(q)
    BY <1>4
  <2>2. \A i \in 1 .. Len(q) : lo[q[i]] < hi[q[i]] /\ Sorted(s[i], lo[q[i]], hi[q[i]])
    BY <1>6
  <2> QED
    BY <1>2, <1>7, <2>1, <2>2, SortedFlatten
<1> QED
  BY <1>1, <1>8

-----------------------------------------------------------------------------
(* What the runs check *)

LEMMA StandsTyped ==
  ASSUME NEW lo, NEW hi, NEW ht, Stands(lo, hi, ht)
  PROVE  BTypeOK
<1>1. /\ levels \in Nat /\ Maps(lo, lo, hi, ht) /\ Sound(node, lo, lo, hi, ht, levels)
      /\ RootSound(node, root, lo, hi, ht, levels) /\ Types
  BY DEF Stands, Types, Ranged
<1>2. ASSUME NEW x \in DOMAIN node
      PROVE  \/ node[x] \in [slots : Seq(Keys), next : Nat, prev : Nat]
             \/ node[x] \in [slots : Seq([key : Keys, adr : Nat]), last : Nat]
  <2>1. node[x] \in LeafNodes \/ node[x] \in TreeNodes
    BY <1>1, NodeFacts
  <2> QED
    BY <2>1 DEF LeafNodes, TreeNodes, Slot
<1>3. IsFiniteSet(DOMAIN node)
  BY <1>1 DEF Sound, Typed
<1>4. nnodes \in Nat
  BY <1>1, <1>3, FS_CardinalityType DEF Types
<1> QED
  BY <1>1, <1>2, <1>4 DEF BTypeOK, Types, RootSound

LEMMA StandsAtHome ==
  ASSUME NEW lo, NEW hi, NEW ht, Stands(lo, hi, ht)
  PROVE  FreshAtHome
<1> SUFFICES ASSUME it.fresh, it.off # NIL PROVE LeafOf(it.cur) = it.off
  BY DEF FreshAtHome
<1>1. /\ it.cur \in Keys
      /\ LeafAt(it.off, ht) /\ lo[it.off] < it.cur /\ it.cur <= hi[it.off]
  BY FreshLeaf
<1>2. it.cur \in Nat
  BY <1>1, INFType
<1> QED
  BY <1>1, <1>2, HomeIs

LEMMA StandsInOrder ==
  ASSUME NEW lo, NEW hi, NEW ht, Stands(lo, hi, ht)
  PROVE  TreeSound
<1> DEFINE ls == Leaves
           all == FlattenSeq([i \in DOMAIN ls |-> node[ls[i]].slots])
<1>1. DOMAIN ls = 1 .. Len(ls)
  BY LeavesRun DEF Run
<1>2. ASSUME NEW i \in DOMAIN ls
      PROVE  /\ node[ls[i]].next = IF i = Len(ls) THEN NIL ELSE ls[i + 1]
             /\ node[ls[i]].prev = IF i = 1 THEN NIL ELSE ls[i - 1]
             /\ node[ls[i]].slots # <<>> \/ levels = 0
             /\ \A k \in ToSet(node[ls[i]].slots) : LeafOf(k) = ls[i]
  <2>1. /\ LeafAt(ls[i], ht)
        /\ node[ls[i]].next = IF i = Len(ls) THEN NIL ELSE ls[i + 1]
        /\ node[ls[i]].prev = IF i = 1 THEN NIL ELSE ls[i - 1]
    BY <1>1, LinkedLeaf
  <2>2. PICK x : x = ls[i]
    OBVIOUS
  <2>3. LeafAt(x, ht)
    BY <2>1, <2>2
  <2>4. node[x].slots # <<>> \/ levels = 0
    BY <2>3, LeafAtIs
  <2>5. ASSUME NEW k \in ToSet(node[x].slots) PROVE LeafOf(k) = x
    <3>1. k \in Keys /\ lo[x] < k /\ k <= hi[x]
      BY <2>3, LeafAtIs
    <3>2. k \in Nat
      BY <3>1, INFType
    <3> QED
      BY <2>3, <3>1, <3>2, HomeIs
  <2> QED
    BY <2>1, <2>2, <2>4, <2>5
<1>3. ASSUME NEW i \in 1 .. (Len(all) - 1)
      PROVE  all[i] < all[i + 1]
  <2>1. all \in Seq(Keys) /\ Increasing(all)
    BY EntriesSorted DEF Sorted
  <2> HIDE DEF all
  <2>2. Len(all) \in Nat /\ DOMAIN all = 1 .. Len(all)
    BY <2>1
  <2>3. i \in DOMAIN all /\ i + 1 \in DOMAIN all /\ i < i + 1
    BY <2>2
  <2> QED
    BY <2>1, <2>3 DEF Increasing
<1>4. nnodes = Cardinality(DOMAIN node)
  BY DEF Stands, Types
<1> QED
  BY <1>2, <1>3, <1>4 DEF TreeSound

\* The tree's values have their types.
THEOREM BtreeTyped == BSpec => []BTypeOK
<1>1. BInv => BTypeOK
  BY BInvIs, StandsTyped
<1> QED
  BY <1>1, BtreeInv, PTL

\* The list of the leaves is their order in the tree, the entries are in order
\* along it and each is where a search looks for it, and nnodes is right,
\* after any inserts with their splits and any erases with what they unlink.
THEOREM BtreeSound == BSpec => []TreeSound
<1>1. BInv => TreeSound
  BY BInvIs, StandsInOrder
<1> QED
  BY <1>1, BtreeInv, PTL

\* Counting the splits and the unlinked leaves is enough: an iterator that has
\* not seen modified change is on the leaf that is for its entry.
THEOREM BtreeFreshAtHome == BSpec => []FreshAtHome
<1>1. BInv => FreshAtHome
  BY BInvIs, StandsAtHome
<1> QED
  BY <1>1, BtreeInv, PTL

-----------------------------------------------------------------------------
(* The refinement of SortedIndex *)

Pos(a) == IF a.off = NIL THEN NIL ELSE a.cur

LEMMA LeastPos ==
  ASSUME NEW a, NEW T, T \subseteq Keys, NEW lo, NEW hi, NEW ht, OnLeast(a, T, lo, hi, ht)
  PROVE  Pos(a) = Index!LeastOrEof(T)
<1>1. CASE a.off = NIL
  BY <1>1 DEF OnLeast, Pos, Index!LeastOrEof
<1>2. CASE a.off # NIL
  <2>1. PICK c : c = a.cur
    OBVIOUS
  <2>2. c \in T /\ \A e \in T : c <= e
    BY <1>2, <2>1 DEF OnLeast, On
  <2>3. T \subseteq Nat
    BY INFType
  <2>4. ASSUME NEW d \in T, \A e \in T : d <= e PROVE d = c
    <3>1. c <= d /\ d <= c /\ c \in Nat /\ d \in Nat
      BY <2>2, <2>3, <2>4
    <3> QED
      BY <3>1
  <2>5. Index!Least(T) = c
    BY <2>2, <2>4 DEF Index!Least
  <2> QED
    BY <1>2, <2>1, <2>2, <2>5 DEF Pos, Index!LeastOrEof
<1> QED
  BY <1>1, <1>2

LEMMA GreatestPos ==
  ASSUME NEW a, NEW T, T \subseteq Keys, NEW lo, NEW hi, NEW ht, OnGreatest(a, T, lo, hi, ht)
  PROVE  Pos(a) = Index!GreatestOrEof(T)
<1>1. CASE a.off = NIL
  BY <1>1 DEF OnGreatest, Pos, Index!GreatestOrEof
<1>2. CASE a.off # NIL
  <2>1. PICK c : c = a.cur
    OBVIOUS
  <2>2. c \in T /\ \A e \in T : e <= c
    BY <1>2, <2>1 DEF OnGreatest, On
  <2>3. T \subseteq Nat
    BY INFType
  <2>4. ASSUME NEW d \in T, \A e \in T : d >= e PROVE d = c
    <3>1. c <= d /\ d >= c /\ d <= c /\ c \in Nat /\ d \in Nat
      BY <2>2, <2>3, <2>4
    <3> QED
      BY <3>1
  <2>5. Index!Greatest(T) = c
    <3>1. \A e \in T : c >= e
      <4>1. ASSUME NEW e \in T PROVE c >= e
        <5>1. e <= c /\ e \in Nat /\ c \in Nat
          BY <2>2, <2>3
        <5> QED
          BY <5>1
      <4> QED
        BY <4>1
    <3> QED
      BY <2>2, <2>4, <3>1 DEF Index!Greatest
  <2> QED
    BY <1>2, <2>1, <2>2, <2>5 DEF Pos, Index!GreatestOrEof
<1> QED
  BY <1>1, <1>2

\* Whatever heights and ranges fit the nodes, the entries are the same.
EntriesFact == \A lo, hi, ht : Stands(lo, hi, ht) => Entries = EntriesIn(node, ht)

\* Each step of the tree is one of SortedIndex or changes nothing there.
LEMMA StepMaps ==
  ASSUME BInv, [BNext]_bvars, EntriesFact, EntriesFact'
  PROVE  [Index!Next]_(Index!vars)
<1>1. PICK lo, hi, ht : Stands(lo, hi, ht)
  BY BInvIs
<1>2. PICK lo2, hi2, ht2 : Stands(lo2, hi2, ht2)' /\ Does(lo, hi, ht, ht2)
  BY <1>1, SomeStep
<1>3. PICK S, T : S = EntriesIn(node, ht) /\ T = EntriesIn(node', ht2)
  OBVIOUS
<1>4. Entries = S
  BY <1>1, <1>3 DEF EntriesFact
<1>5. Entries' = T
  BY <1>2, <1>3 DEF EntriesFact
<1>6. S \subseteq Keys
  BY <1>3 DEF EntriesIn
<1>7. it.off # NIL => it.cur \in Keys /\ it.cur # NIL
  <2>1. it.off # NIL => it.cur \in Keys
    BY <1>1 DEF Stands, Types
  <2> QED
    BY <2>1, INFType DEF NIL
<1>8. CASE Edits(ht, ht2)
  <2>1. UNCHANGED (IF it.off = NIL THEN NIL ELSE it.cur)
    BY <1>8 DEF Edits
  <2>2. CASE Adding(ht, ht2)
    <3>1. PICK k \in Keys : k \notin S /\ T = S \cup {k}
      BY <1>3, <2>2 DEF Adding
    <3>2. Index!Insert(k)
      BY <1>4, <1>5, <2>1, <3>1 DEF Index!Insert
    <3> QED
      BY <3>2 DEF Index!Next
  <2>3. CASE Erasing(ht, ht2)
    <3>1. PICK k \in Keys : k \in S /\ T = S \ {k}
      BY <1>3, <2>3 DEF Erasing, Drops
    <3>2. Index!Erase(k)
      BY <1>4, <1>5, <2>1, <3>1 DEF Index!Erase
    <3> QED
      BY <3>2 DEF Index!Next
  <2> QED
    BY <1>8, <2>2, <2>3 DEF Edits
<1>9. CASE UNCHANGED node /\ ht2 = ht /\ Goes(it', EntriesIn(node, ht), lo, hi, ht)
  <2>1. Entries' = Entries
    BY <1>3, <1>4, <1>5, <1>9
  <2>2. Goes(it', S, lo, hi, ht)
    BY <1>3, <1>9
  <2>3. ASSUME NEW k \in Keys, OnLeast(it', FromOn(S, k), lo, hi, ht)
        PROVE  Index!Locate(k)
    <3>1. FromOn(S, k) \subseteq Keys
      BY <1>6 DEF FromOn
    <3>2. Pos(it') = Index!LeastOrEof(FromOn(S, k))
      BY <2>3, <3>1, LeastPos
    <3> QED
      BY <1>4, <2>1, <3>2 DEF Index!Locate, FromOn, Pos
  <2>4. ASSUME OnGreatest(it', S, lo, hi, ht)
        PROVE  Index!Last
    <3>1. Pos(it') = Index!GreatestOrEof(S)
      BY <1>6, <2>4, GreatestPos
    <3> QED
      BY <1>4, <2>1, <3>1 DEF Index!Last, Pos
  <2>5. ASSUME it.off # NIL, OnLeast(it', Beyond(S, it.cur), lo, hi, ht)
        PROVE  Index!NextEntry
    <3>1. Beyond(S, it.cur) \subseteq Keys
      BY <1>6 DEF Beyond
    <3>2. Pos(it') = Index!LeastOrEof(Beyond(S, it.cur))
      BY <2>5, <3>1, LeastPos
    <3> QED
      BY <1>4, <1>7, <2>1, <2>5, <3>2 DEF Index!NextEntry, Beyond, Pos
  <2>6. ASSUME it.off # NIL, StepsBack(it', S, it.cur, lo, hi, ht)
        PROVE  Index!PrevEntry
    <3>1. CASE OnGreatest(it', Below(S, it.cur), lo, hi, ht)
      <4>1. Below(S, it.cur) \subseteq Keys
        BY <1>6 DEF Below
      <4>2. Pos(it') = Index!GreatestOrEof(Below(S, it.cur))
        BY <3>1, <4>1, GreatestPos
      <4> QED
        BY <1>4, <1>7, <2>1, <2>6, <4>2 DEF Index!PrevEntry, Below, Pos
    <3>2. CASE it'.off = NIL /\ FromOn(S, it.cur) = {}
      <4>1. ASSUME NEW j \in S PROVE j < it.cur
        <5>1. ~ j >= it.cur
          BY <3>2 DEF FromOn
        <5>2. j \in Nat /\ it.cur \in Nat
          BY <1>6, <1>7, <2>6, INFType
        <5> QED
          BY <5>1, <5>2
      <4> QED
        BY <1>4, <1>7, <2>1, <2>6, <3>2, <4>1 DEF Index!PrevEntry
    <3> QED
      BY <2>6, <3>1, <3>2 DEF StepsBack
  <2> QED
    BY <2>2, <2>3, <2>4, <2>5, <2>6 DEF Goes, Index!Next
<1>10. CASE UNCHANGED <<node, it>> /\ ht2 = ht
  BY <1>3, <1>4, <1>5, <1>10 DEF Index!vars
<1> QED
  BY <1>2, <1>8, <1>9, <1>10 DEF Does

LEMMA InitMaps ==
  ASSUME BInit, EntriesFact
  PROVE  Index!Init
<1>1. BInv
  BY InitBInv
<1>2. PICK lo, hi, ht : Stands(lo, hi, ht)
  BY <1>1, BInvIs
<1>3. Entries = EntriesIn(node, ht)
  BY <1>2 DEF EntriesFact
<1>4. node = [x \in {1} |-> LeafNode(<<>>, NIL, NIL)] /\ it.off = NIL
  BY DEF BInit
<1>5. \A x \in DOMAIN node : node[x].slots = <<>>
  BY <1>4 DEF LeafNode
<1>6. ToSet(<<>>) = {}
  BY DEF ToSet
<1>7. EntriesIn(node, ht) = {}
  BY <1>5, <1>6 DEF EntriesIn
<1> QED
  BY <1>3, <1>4, <1>7 DEF Index!Init

\* To its users the tree is a sorted set with a cursor: what splits and
\* collapses do, and the iterator's trust in its leaf, cannot be told from the
\* outside.
THEOREM BtreeImplementsIndex == BSpec => ImplementsIndex
<1>1. EntriesFact
  BY EntriesAre DEF EntriesFact
<1>2. BInv /\ EntriesFact /\ EntriesFact' /\ [BNext]_bvars => [Index!Next]_(Index!vars)
  BY StepMaps
<1>3. BInit /\ EntriesFact => Index!Init
  BY InitMaps
<1> QED
  BY <1>1, <1>2, <1>3, BtreeInv, PTL DEF BSpec, ImplementsIndex, Index!Spec

=============================================================================
