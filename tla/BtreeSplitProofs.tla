-------------------------- MODULE BtreeSplitProofs --------------------------
(***************************************************************************)
(* Proofs about Btree, for any set of keys, sizes of entries and           *)
(* capacities of nodes: the inductive invariant, what a search finds, and  *)
(* that the tree stays sound through the split of a leaf, of the tree      *)
(* nodes above it and of the root.                                         *)
(***************************************************************************)
EXTENDS Btree, SequenceTheorems, FiniteSetTheorems, WellFoundedInduction, TLAPS

-----------------------------------------------------------------------------
(* The inductive invariant.  Each node x has a height, 0 for leaves, and a  *)
(* range: it is for the keys above lo[x] up to hi[x].  What has to hold of  *)
(* a node is said in terms of its neighbours only.                          *)

\* Above all keys.
INF == CHOOSE m \in Nat \ {0} : \A k \in Keys : k < m

LeafNodes == [slots : Seq(Keys), next : Nat, prev : Nat]
Slot == [key : Keys, adr : Nat]
TreeNodes == [slots : Seq(Slot), last : Nat]

Increasing(s) == \A i, j \in DOMAIN s : i < j => s[i] < s[j]
Within(s, a, b) == \A i \in DOMAIN s : a < s[i] /\ s[i] <= b

Typed(n, lo, hi, ht, top) ==
  /\ IsFiniteSet(DOMAIN n) /\ DOMAIN n \subseteq Nat \ {0}
  /\ \A x \in DOMAIN n : /\ lo[x] < hi[x] /\ hi[x] <= INF
                         /\ ht[x] <= top
                         /\ n[x] \in IF ht[x] = 0 THEN LeafNodes ELSE TreeNodes

\* Nodes of the same height are for different keys.
Disjoint(n, lo, hi, ht) ==
  \A x, y \in DOMAIN n :
    ht[x] = ht[y] /\ x # y => hi[x] <= lo[y] \/ hi[y] <= lo[x]

LeafSound(n, lo, hi, ht, top, x) ==
  /\ Increasing(n[x].slots)
  /\ Within(n[x].slots, lo[x], hi[x])
  /\ n[x].slots # <<>> \/ top = 0
  /\ IF hi[x] = INF THEN n[x].next = NIL
     ELSE n[x].next \in DOMAIN n /\ ht[n[x].next] = 0 /\ lo[n[x].next] = hi[x]
  /\ IF lo[x] = 0 THEN n[x].prev = NIL
     ELSE n[x].prev \in DOMAIN n /\ ht[n[x].prev] = 0 /\ hi[n[x].prev] = lo[x]

\* The j-th child of a tree node and what it is for.
Kid(t, j) == IF j <= Len(t.slots) THEN t.slots[j].adr ELSE t.last
Low(t, j, a) == IF j = 1 THEN a ELSE t.slots[j - 1].key
High(t, j, b) == IF j <= Len(t.slots) THEN t.slots[j].key ELSE b

\* The keys of t are in order and strictly between a and b.
Keyed(t, a, b) ==
  /\ Increasing(KeysOf(t.slots))
  /\ \A i \in DOMAIN t.slots : a < t.slots[i].key /\ t.slots[i].key < b

KidsSound(n, lo, seen, hi, ht, x) ==
  /\ Keyed(n[x], lo[x], hi[x])
  /\ \A j \in 1..(Len(n[x].slots) + 1) :
       /\ Kid(n[x], j) \in DOMAIN n
       /\ ht[Kid(n[x], j)] + 1 = ht[x]
       /\ seen[Kid(n[x], j)] = Low(n[x], j, lo[x])
       /\ hi[Kid(n[x], j)] = High(n[x], j, hi[x])

\* The tree, where its tree nodes take their children to be for the keys above
\* seen: lo, but for a node that has been split and whose parent does not
\* know yet.
Sound(n, lo, seen, hi, ht, top) ==
  /\ Typed(n, lo, hi, ht, top)
  /\ Disjoint(n, lo, hi, ht)
  /\ \A x \in DOMAIN n : IF ht[x] = 0 THEN LeafSound(n, lo, hi, ht, top, x)
                         ELSE KidsSound(n, lo, seen, hi, ht, x)

RootSound(n, r, seen, hi, ht, top) ==
  r \in DOMAIN n /\ ht[r] = top /\ seen[r] = 0 /\ hi[r] = INF

AtHome(n, i, lo, hi, ht) ==
  i.fresh /\ i.off # NIL =>
    i.off \in DOMAIN n /\ ht[i.off] = 0 /\ lo[i.off] < i.cur /\ i.cur <= hi[i.off]

Ranged(lo, hi, ht) ==
  /\ Sound(node, lo, lo, hi, ht, levels)
  /\ RootSound(node, root, lo, hi, ht, levels)
  /\ AtHome(node, it, lo, hi, ht)

BInv ==
  /\ levels \in Nat
  /\ levels > 0 => node[root].slots # <<>>
  /\ nnodes = Cardinality(DOMAIN node)
  /\ it \in [off : Nat, cur : Keys \cup {NIL}, fresh : BOOLEAN]
  /\ it.off # NIL => it.cur \in Keys
  /\ failed \in Keys \cup {NIL}
  /\ \E lo, hi, ht \in [Nat -> Nat] : Ranged(lo, hi, ht)

-----------------------------------------------------------------------------
(* Numbers and sequences *)

LEMMA LeastOfNaturals ==
  ASSUME NEW T, T \subseteq Nat, T # {}
  PROVE  \E x \in T : \A y \in T : x <= y
<1>1. PICK x \in T : \A y \in T : <<y, x>> \notin OpToRel(<, Nat)
  BY NatLessThanWellFounded, WFMin
<1>2. \A y \in T : ~ y < x
  BY <1>1 DEF OpToRel
<1> QED
  BY <1>2

LEMMA MinIs ==
  ASSUME NEW T, T \subseteq Nat, T # {}
  PROVE  Min(T) \in T /\ \A y \in T : Min(T) <= y
BY LeastOfNaturals DEF Min

Bounds(f, m, b) == \A i \in 1 .. m : f[i] < b

LEMMA NaturalsAreBounded ==
  ASSUME NEW n \in Nat, NEW f \in [1 .. n -> Nat]
  PROVE  \E b \in Nat \ {0} : Bounds(f, n, b)
<1> DEFINE T == {m \in Nat : m <= n /\ ~ \E b \in Nat \ {0} : Bounds(f, m, b)}
<1> SUFFICES ASSUME T # {} PROVE FALSE
  OBVIOUS
<1>1. T \subseteq Nat
  OBVIOUS
<1>2. PICK m \in T : \A l \in T : m <= l
  <2> HIDE DEF T
  <2> QED
    BY <1>1, LeastOfNaturals
<1>3. m \in Nat /\ m <= n /\ ~ \E b \in Nat \ {0} : Bounds(f, m, b)
  OBVIOUS
<1>4. m # 0
  <2>1. Bounds(f, 0, 1)
    BY DEF Bounds
  <2> QED
    BY <2>1, <1>3
<1>5. m - 1 \in Nat /\ m - 1 <= n /\ m - 1 < m
  BY <1>3, <1>4
<1>6. m - 1 \notin T
  BY <1>2, <1>5
<1>7. PICK b \in Nat \ {0} : Bounds(f, m - 1, b)
  BY <1>5, <1>6
<1> HIDE DEF T
<1>8. f[m] \in Nat
  BY <1>3, <1>4
<1> DEFINE c == b + f[m] + 1
<1>9. c \in Nat \ {0} /\ b <= c /\ f[m] < c
  BY <1>7, <1>8
<1> HIDE DEF c
<1>10. \A i \in 1 .. m : i \in 1 .. m - 1 \/ i = m
  BY <1>3
<1>11. \A i \in 1 .. m : f[i] \in Nat
  BY <1>3
<1>12. \A i \in 1 .. m - 1 : f[i] < b
  BY <1>7 DEF Bounds
<1>13. Bounds(f, m, c)
  BY <1>7, <1>9, <1>10, <1>11, <1>12 DEF Bounds
<1> QED
  BY <1>3, <1>9, <1>13

LEMMA INFType ==
  /\ INF \in Nat \ {0}
  /\ Keys \subseteq Nat \ {0}
  /\ \A k \in Keys : 0 < k /\ k < INF
<1>1. \E m \in Nat \ {0} : \A k \in Keys : k < m
  <2>1. IsFiniteSet(Keys) /\ Keys \subseteq Nat
    BY KeysAssumption
  <2>5. PICK n \in Nat : ExistsSurjection(1 .. n, Keys)
    BY <2>1, FS_NatSurjection
  <2>2. PICK f \in Surjection(1 .. n, Keys) : TRUE
    BY <2>5 DEF ExistsSurjection
  <2>3. f \in [1 .. n -> Nat] /\ \A k \in Keys : \E i \in 1 .. n : f[i] = k
    BY <2>1, <2>2 DEF Surjection
  <2>4. PICK b \in Nat \ {0} : Bounds(f, n, b)
    BY <2>3, NaturalsAreBounded
  <2> QED
    BY <2>3, <2>4 DEF Bounds
<1>2. INF \in Nat \ {0} /\ \A k \in Keys : k < INF
  BY <1>1 DEF INF
<1>3. Keys \subseteq Nat \ {0}
  BY KeysAssumption
<1>4. \A k \in Keys : 0 < k
  BY <1>3
<1> QED
  BY <1>2, <1>3, <1>4

\* The elements of s before position i are below k, the one at i is not.
FirstAtLeast(s, k, i) ==
  /\ i \in 1 .. Len(s) + 1
  /\ \A j \in 1 .. Len(s) : j < i => s[j] < k
  /\ i <= Len(s) => s[i] >= k

FirstAbove(s, k, i) ==
  /\ i \in 1 .. Len(s) + 1
  /\ \A j \in 1 .. Len(s) : j < i => s[j] <= k
  /\ i <= Len(s) => s[i] > k

LEMMA LowerBoundIs ==
  ASSUME NEW s \in Seq(Nat), NEW k \in Nat
  PROVE  FirstAtLeast(s, k, LowerBound(s, k))
<1> DEFINE T == {i \in 1 .. Len(s) : s[i] >= k} \cup {Len(s) + 1}
<1>1. Len(s) \in Nat /\ T \subseteq Nat /\ T # {}
  OBVIOUS
<1>2. Min(T) \in T /\ \A y \in T : Min(T) <= y
  BY <1>1, MinIs
<1>3. \A i \in 1 .. Len(s) : s[i] \in Nat
  OBVIOUS
<1>4. Min(T) \in 1 .. Len(s) + 1
  BY <1>1, <1>2
<1>5. \A j \in 1 .. Len(s) : j < Min(T) => s[j] < k
  BY <1>1, <1>2, <1>3, <1>4
<1>6. Min(T) <= Len(s) => s[Min(T)] >= k
  BY <1>1, <1>2
<1> QED
  BY <1>4, <1>5, <1>6 DEF LowerBound, FirstAtLeast

LEMMA UpperBoundIs ==
  ASSUME NEW s \in Seq(Nat), NEW k \in Nat
  PROVE  FirstAbove(s, k, UpperBound(s, k))
<1> DEFINE T == {i \in 1 .. Len(s) : s[i] > k} \cup {Len(s) + 1}
<1>1. Len(s) \in Nat /\ T \subseteq Nat /\ T # {}
  OBVIOUS
<1>2. Min(T) \in T /\ \A y \in T : Min(T) <= y
  BY <1>1, MinIs
<1>3. \A i \in 1 .. Len(s) : s[i] \in Nat
  OBVIOUS
<1>4. Min(T) \in 1 .. Len(s) + 1
  BY <1>1, <1>2
<1>5. \A j \in 1 .. Len(s) : j < Min(T) => s[j] <= k
  BY <1>1, <1>2, <1>3, <1>4
<1>6. Min(T) <= Len(s) => s[Min(T)] > k
  BY <1>1, <1>2
<1> QED
  BY <1>4, <1>5, <1>6 DEF UpperBound, FirstAbove

LEMMA InsertAtIs ==
  ASSUME NEW S, NEW s \in Seq(S), NEW i \in 1 .. Len(s) + 1, NEW e \in S
  PROVE  /\ InsertAt(s, i, e) \in Seq(S)
         /\ Len(InsertAt(s, i, e)) = Len(s) + 1
         /\ \A j \in 1 .. Len(s) + 1 :
              InsertAt(s, i, e)[j] =
                IF j < i THEN s[j] ELSE IF j = i THEN e ELSE s[j - 1]
<1> DEFINE a == SubSeq(s, 1, i - 1)
           c == SubSeq(s, i, Len(s))
<1>1. Len(s) \in Nat /\ i \in Nat /\ \A j \in 1 .. Len(s) : s[j] \in S
  OBVIOUS
<1>2. /\ a \in Seq(S) /\ Len(a) = i - 1
      /\ \A j \in 1 .. i - 1 : a[j] = s[j]
  BY <1>1, SubSeqProperties
<1>3. /\ c \in Seq(S) /\ Len(c) = Len(s) - i + 1
      /\ \A j \in 1 .. Len(s) - i + 1 : c[j] = s[i + j - 1]
  BY <1>1, SubSeqProperties
<1> HIDE DEF a, c
<1>4. <<e>> \in Seq(S) /\ Len(<<e>>) = 1 /\ <<e>>[1] = e
  OBVIOUS
<1>5. /\ a \o <<e>> \in Seq(S) /\ Len(a \o <<e>>) = i
      /\ \A j \in 1 .. i : (a \o <<e>>)[j] = IF j < i THEN s[j] ELSE e
  BY <1>1, <1>2, <1>4, ConcatProperties
<1> DEFINE d == a \o <<e>>
<1>6. d \in Seq(S) /\ Len(d) = i /\ \A j \in 1 .. i : d[j] = IF j < i THEN s[j] ELSE e
  BY <1>5
<1> HIDE DEF d
<1>10. /\ d \o c \in Seq(S) /\ Len(d \o c) = Len(d) + Len(c)
       /\ \A j \in 1 .. Len(d) + Len(c) :
            (d \o c)[j] = IF j <= Len(d) THEN d[j] ELSE c[j - Len(d)]
  BY <1>3, <1>6, ConcatProperties
<1>11. Len(d) = i /\ Len(d) + Len(c) = Len(s) + 1
  BY <1>1, <1>3, <1>6
<1>7. /\ d \o c \in Seq(S) /\ Len(d \o c) = Len(s) + 1
      /\ \A j \in 1 .. Len(s) + 1 : (d \o c)[j] = IF j <= i THEN d[j] ELSE c[j - i]
  BY <1>10, <1>11
<1>8. \A j \in 1 .. Len(s) + 1 : j > i => c[j - i] = s[j - 1]
  BY <1>1, <1>3
<1>9. InsertAt(s, i, e) = d \o c
  BY DEF InsertAt, a, c, d
<1> QED
  BY <1>1, <1>6, <1>7, <1>8, <1>9

LEMMA WithoutIs ==
  ASSUME NEW S, NEW s \in Seq(S), NEW i \in 1 .. Len(s)
  PROVE  /\ Without(s, i) \in Seq(S)
         /\ Len(Without(s, i)) = Len(s) - 1
         /\ \A j \in 1 .. Len(s) - 1 :
              Without(s, i)[j] = IF j < i THEN s[j] ELSE s[j + 1]
<1> DEFINE a == SubSeq(s, 1, i - 1)
           c == SubSeq(s, i + 1, Len(s))
<1>1. Len(s) \in Nat /\ i \in Nat /\ \A j \in 1 .. Len(s) : s[j] \in S
  OBVIOUS
<1>2. /\ a \in Seq(S) /\ Len(a) = i - 1
      /\ \A j \in 1 .. i - 1 : a[j] = s[j]
  BY <1>1, SubSeqProperties
<1>3. /\ c \in Seq(S) /\ Len(c) = Len(s) - i
      /\ \A j \in 1 .. Len(s) - i : c[j] = s[i + j]
  BY <1>1, SubSeqProperties
<1> HIDE DEF a, c
<1>7. /\ a \o c \in Seq(S) /\ Len(a \o c) = Len(a) + Len(c)
      /\ \A j \in 1 .. Len(a) + Len(c) :
           (a \o c)[j] = IF j <= Len(a) THEN a[j] ELSE c[j - Len(a)]
  BY <1>2, <1>3, ConcatProperties
<1>8. Len(a) = i - 1 /\ Len(a) + Len(c) = Len(s) - 1
  BY <1>1, <1>2, <1>3
<1>4. /\ a \o c \in Seq(S) /\ Len(a \o c) = Len(s) - 1
      /\ \A j \in 1 .. Len(s) - 1 : (a \o c)[j] = IF j <= i - 1 THEN a[j] ELSE c[j - (i - 1)]
  BY <1>7, <1>8
<1>5. \A j \in 1 .. Len(s) - 1 : j > i - 1 => c[j - (i - 1)] = s[j + 1]
  BY <1>1, <1>3
<1>6. Without(s, i) = a \o c
  BY DEF Without, a, c
<1> QED
  BY <1>1, <1>2, <1>4, <1>5, <1>6

LEMMA PrefixIs ==
  ASSUME NEW S, NEW s \in Seq(S), NEW m \in 0 .. Len(s)
  PROVE  /\ SubSeq(s, 1, m) \in Seq(S)
         /\ Len(SubSeq(s, 1, m)) = m
         /\ \A j \in 1 .. m : SubSeq(s, 1, m)[j] = s[j]
<1>1. \A j \in 1 .. m : s[j] \in S
  OBVIOUS
<1> QED
  BY <1>1, SubSeqProperties

LEMMA SuffixIs ==
  ASSUME NEW S, NEW s \in Seq(S), NEW m \in 0 .. Len(s)
  PROVE  /\ SubSeq(s, m + 1, Len(s)) \in Seq(S)
         /\ Len(SubSeq(s, m + 1, Len(s))) = Len(s) - m
         /\ \A j \in 1 .. Len(s) - m : SubSeq(s, m + 1, Len(s))[j] = s[m + j]
<1>1. \A j \in m + 1 .. Len(s) : s[j] \in S
  OBVIOUS
<1> QED
  BY <1>1, SubSeqProperties

LEMMA KeysOfIs ==
  ASSUME NEW s \in Seq(Slot)
  PROVE  /\ KeysOf(s) \in Seq(Nat)
         /\ Len(KeysOf(s)) = Len(s)
         /\ \A i \in 1 .. Len(s) : KeysOf(s)[i] = s[i].key /\ s[i].key \in Keys
<1>1. Len(s) \in Nat /\ DOMAIN s = 1 .. Len(s)
  OBVIOUS
<1>6. \A i \in 1 .. Len(s) : s[i] \in Slot
  BY <1>1
<1>2. \A i \in 1 .. Len(s) : s[i].key \in Keys /\ s[i].key \in Nat
  BY <1>6, INFType DEF Slot
<1>3. KeysOf(s) \in [1 .. Len(s) -> Nat]
  BY <1>1, <1>2 DEF KeysOf
<1>4. KeysOf(s) \in Seq(Nat)
  BY <1>1, <1>3
<1>5. Len(KeysOf(s)) = Len(s)
  BY <1>1, <1>3, <1>4
<1> QED
  BY <1>1, <1>2, <1>4, <1>5 DEF KeysOf

LEMMA SeqOfKeys ==
  ASSUME NEW s \in Seq(Keys)
  PROVE  s \in Seq(Nat) /\ Len(s) \in Nat /\ \A i \in 1 .. Len(s) : s[i] \in Keys /\ s[i] \in Nat
<1>1. s \in Seq(Nat)
  BY INFType, SeqMonotonic
<1> QED
  BY <1>1, INFType

-----------------------------------------------------------------------------
(* Nodes and what they are for *)

LEMMA LeafNodeIs ==
  ASSUME NEW f \in LeafNodes
  PROVE  f.slots \in Seq(Keys) /\ f.next \in Nat /\ f.prev \in Nat
BY DEF LeafNodes

LEMMA TreeNodeIs ==
  ASSUME NEW t \in TreeNodes
  PROVE  /\ t.slots \in Seq(Slot) /\ t.last \in Nat
         /\ Len(t.slots) \in Nat /\ DOMAIN t.slots = 1 .. Len(t.slots)
         /\ \A i \in 1 .. Len(t.slots) :
              /\ t.slots[i] \in Slot /\ t.slots[i].key \in Keys
              /\ t.slots[i].key \in Nat /\ t.slots[i].adr \in Nat
         /\ KeysOf(t.slots) \in Seq(Nat) /\ Len(KeysOf(t.slots)) = Len(t.slots)
         /\ \A i \in 1 .. Len(t.slots) : KeysOf(t.slots)[i] = t.slots[i].key
<1>1. t.slots \in Seq(Slot) /\ t.last \in Nat
  BY DEF TreeNodes
<1>2. Len(t.slots) \in Nat /\ DOMAIN t.slots = 1 .. Len(t.slots)
  BY <1>1
<1>3. \A i \in 1 .. Len(t.slots) : t.slots[i] \in Slot
  BY <1>1
<1>4. \A i \in 1 .. Len(t.slots) : t.slots[i].adr \in Nat /\ t.slots[i].key \in Keys /\ t.slots[i].key \in Nat
  BY <1>3, INFType DEF Slot
<1> QED
  BY <1>1, <1>2, <1>3, <1>4, KeysOfIs

\* The child of t that a search for k goes to is its j-th.
Finds(t, k, j, a, b) ==
  /\ j \in 1 .. Len(t.slots) + 1
  /\ Child(t, k) = Kid(t, j)
  /\ Low(t, j, a) < k /\ k <= High(t, j, b)

LEMMA ChildIs ==
  ASSUME NEW t \in TreeNodes, NEW k \in Nat, NEW a \in Nat, NEW b \in Nat,
         a < k, k <= b
  PROVE  Finds(t, k, LowerBound(KeysOf(t.slots), k), a, b)
<1> DEFINE s == KeysOf(t.slots)
           j == LowerBound(s, k)
<1>1. /\ s \in Seq(Nat) /\ Len(s) = Len(t.slots) /\ Len(s) \in Nat
      /\ \A i \in 1 .. Len(t.slots) : s[i] = t.slots[i].key
      /\ \A i \in 1 .. Len(t.slots) : t.slots[i].key \in Nat
  BY TreeNodeIs
<1>2. FirstAtLeast(s, k, j)
  BY <1>1, LowerBoundIs
<1>3. Child(t, k) = IF j <= Len(t.slots) THEN t.slots[j].adr ELSE t.last
  BY DEF Child
<1> HIDE DEF s, j
<1>4. j \in 1 .. Len(t.slots) + 1
  BY <1>1, <1>2 DEF FirstAtLeast
<1>5. Low(t, j, a) < k
  <2>1. CASE j = 1
    BY <2>1 DEF Low
  <2>2. CASE j # 1
    <3>1. j - 1 \in 1 .. Len(s) /\ j - 1 < j
      BY <1>1, <1>4, <2>2
    <3>2. s[j - 1] < k
      BY <1>2, <3>1 DEF FirstAtLeast
    <3> QED
      BY <1>1, <2>2, <3>1, <3>2 DEF Low
  <2> QED
    BY <2>1, <2>2
<1>6. k <= High(t, j, b)
  <2>1. CASE j <= Len(t.slots)
    <3>1. s[j] >= k /\ s[j] = t.slots[j].key /\ t.slots[j].key \in Nat
      BY <1>1, <1>2, <1>4, <2>1 DEF FirstAtLeast
    <3> QED
      BY <2>1, <3>1 DEF High
  <2>2. CASE ~ (j <= Len(t.slots))
    BY <2>2 DEF High
  <2> QED
    BY <2>1, <2>2
<1>7. Child(t, k) = Kid(t, j)
  BY <1>3 DEF Kid
<1>8. Finds(t, k, j, a, b)
  BY <1>4, <1>5, <1>6, <1>7 DEF Finds
<1> QED
  BY <1>8 DEF j, s

\* In a sound tree a child is for no more keys than its parent.
LEMMA KidsInside ==
  ASSUME NEW t \in TreeNodes, NEW a \in Nat, NEW b \in Nat, a < b, Keyed(t, a, b),
         NEW j \in 1 .. Len(t.slots) + 1
  PROVE  /\ Low(t, j, a) \in Nat /\ High(t, j, b) \in Nat
         /\ a <= Low(t, j, a)
         /\ Low(t, j, a) < High(t, j, b)
         /\ High(t, j, b) <= b
<1> DEFINE s == KeysOf(t.slots)
<1>1. /\ Len(t.slots) \in Nat /\ DOMAIN t.slots = 1 .. Len(t.slots)
      /\ \A i \in 1 .. Len(t.slots) : t.slots[i].key \in Nat
      /\ s \in Seq(Nat) /\ Len(s) = Len(t.slots)
      /\ \A i \in 1 .. Len(t.slots) : s[i] = t.slots[i].key
  BY TreeNodeIs
<1>2. \A i \in 1 .. Len(t.slots) : a < t.slots[i].key /\ t.slots[i].key < b
  BY <1>1 DEF Keyed
<1>3. \A i, m \in 1 .. Len(t.slots) : i < m => t.slots[i].key < t.slots[m].key
  <2>1. Increasing(s)
    BY DEF Keyed
  <2>2. DOMAIN s = 1 .. Len(t.slots)
    BY <1>1
  <2> QED
    BY <1>1, <2>1, <2>2 DEF Increasing
<1>4. CASE j = 1 /\ j <= Len(t.slots)
  <2>1. Low(t, j, a) = a /\ High(t, j, b) = t.slots[j].key
    BY <1>4 DEF Low, High
  <2> QED
    BY <1>1, <1>2, <1>4, <2>1
<1>5. CASE j # 1 /\ j <= Len(t.slots)
  <2>1. Low(t, j, a) = t.slots[j - 1].key /\ High(t, j, b) = t.slots[j].key
    BY <1>5 DEF Low, High
  <2>2. j - 1 \in 1 .. Len(t.slots) /\ j \in 1 .. Len(t.slots) /\ j - 1 < j
    BY <1>1, <1>5
  <2>3. t.slots[j - 1].key \in Nat /\ t.slots[j].key \in Nat
    BY <1>1, <2>2
  <2>4. t.slots[j - 1].key < t.slots[j].key
    BY <1>3, <2>2
  <2>5. a < t.slots[j - 1].key /\ t.slots[j].key < b
    BY <1>2, <2>2
  <2> QED
    BY <2>1, <2>3, <2>4, <2>5
<1>6. CASE j = 1 /\ ~ (j <= Len(t.slots))
  BY <1>6 DEF Low, High
<1>7. CASE j # 1 /\ ~ (j <= Len(t.slots))
  <2>1. Low(t, j, a) = t.slots[j - 1].key /\ High(t, j, b) = b
    BY <1>7 DEF Low, High
  <2>2. j - 1 \in 1 .. Len(t.slots)
    BY <1>1, <1>7
  <2> QED
    BY <1>1, <1>2, <2>1, <2>2
<1> QED
  BY <1>4, <1>5, <1>6, <1>7

LEMMA KidsApart ==
  ASSUME NEW t \in TreeNodes, NEW a \in Nat, NEW b \in Nat, a < b, Keyed(t, a, b),
         NEW i \in 1 .. Len(t.slots) + 1, NEW j \in 1 .. Len(t.slots) + 1, i < j
  PROVE  High(t, i, b) <= Low(t, j, a)
<1>1. /\ Len(t.slots) \in Nat /\ DOMAIN t.slots = 1 .. Len(t.slots)
      /\ \A m \in 1 .. Len(t.slots) : t.slots[m].key \in Nat
      /\ KeysOf(t.slots) \in Seq(Nat) /\ Len(KeysOf(t.slots)) = Len(t.slots)
      /\ \A m \in 1 .. Len(t.slots) : KeysOf(t.slots)[m] = t.slots[m].key
  BY TreeNodeIs
<1>2. i \in 1 .. Len(t.slots) /\ j - 1 \in 1 .. Len(t.slots) /\ i <= j - 1 /\ j # 1
  BY <1>1, SMTT(20)
<1>3. High(t, i, b) = t.slots[i].key /\ Low(t, j, a) = t.slots[j - 1].key
  BY <1>2 DEF High, Low
<1>4. DOMAIN KeysOf(t.slots) = 1 .. Len(t.slots) /\ Increasing(KeysOf(t.slots))
  BY <1>1 DEF Keyed
<1>5. i < j - 1 => t.slots[i].key < t.slots[j - 1].key
  BY <1>1, <1>2, <1>4 DEF Increasing
<1>6. t.slots[i].key \in Nat /\ t.slots[j - 1].key \in Nat
  BY <1>1, <1>2
<1>7. i = j - 1 \/ i < j - 1
  BY <1>2
<1> QED
  BY <1>3, <1>5, <1>6, <1>7

\* What there is to know of a node of a sound tree.
LEMMA NodeIs ==
  ASSUME NEW lo \in [Nat -> Nat], NEW hi \in [Nat -> Nat], NEW ht \in [Nat -> Nat],
         NEW seen \in [Nat -> Nat], NEW n, NEW top \in Nat,
         Sound(n, lo, seen, hi, ht, top), NEW x \in DOMAIN n
  PROVE  /\ x \in Nat /\ x # 0 /\ lo[x] \in Nat /\ hi[x] \in Nat /\ ht[x] \in Nat
         /\ seen[x] \in Nat
         /\ lo[x] < hi[x] /\ hi[x] <= INF /\ ht[x] <= top
         /\ ht[x] = 0 => n[x] \in LeafNodes /\ LeafSound(n, lo, hi, ht, top, x)
         /\ ht[x] # 0 => n[x] \in TreeNodes /\ KidsSound(n, lo, seen, hi, ht, x)
         /\ ht[x] # 0 => Keyed(n[x], lo[x], hi[x])
<1>1. x \in Nat /\ x # 0
  BY DEF Sound, Typed
<1>2. lo[x] \in Nat /\ hi[x] \in Nat /\ ht[x] \in Nat /\ seen[x] \in Nat
  BY <1>1
<1>3. lo[x] < hi[x] /\ hi[x] <= INF /\ ht[x] <= top
  BY DEF Sound, Typed
<1>4. n[x] \in IF ht[x] = 0 THEN LeafNodes ELSE TreeNodes
  BY DEF Sound, Typed
<1>5. IF ht[x] = 0 THEN LeafSound(n, lo, hi, ht, top, x) ELSE KidsSound(n, lo, seen, hi, ht, x)
  BY DEF Sound
<1>6. KidsSound(n, lo, seen, hi, ht, x) => Keyed(n[x], lo[x], hi[x])
  BY DEF KidsSound
<1> QED
  BY <1>1, <1>2, <1>3, <1>4, <1>5, <1>6

\* x is for k.
For(n, lo, hi, x, k) == x \in DOMAIN n /\ lo[x] < k /\ k <= hi[x]

LEMMA OnlyOneFor ==
  ASSUME NEW lo \in [Nat -> Nat], NEW hi \in [Nat -> Nat], NEW ht \in [Nat -> Nat],
         NEW seen \in [Nat -> Nat], NEW n, NEW top \in Nat,
         Sound(n, lo, seen, hi, ht, top), NEW x, NEW y, NEW k \in Nat,
         For(n, lo, hi, x, k), For(n, lo, hi, y, k), ht[x] = ht[y]
  PROVE  x = y
<1>1. x \in DOMAIN n /\ y \in DOMAIN n
  BY DEF For
<1>2. lo[x] \in Nat /\ hi[x] \in Nat /\ lo[y] \in Nat /\ hi[y] \in Nat
  BY <1>1, NodeIs
<1>3. x # y => hi[x] <= lo[y] \/ hi[y] <= lo[x]
  BY <1>1 DEF Sound, Disjoint
<1>4. lo[x] < k /\ k <= hi[x] /\ lo[y] < k /\ k <= hi[y]
  BY DEF For
<1> QED
  BY <1>2, <1>3, <1>4

\* A search for k goes from a node that is for k to a child that is.
LEMMA Descend ==
  ASSUME NEW lo \in [Nat -> Nat], NEW hi \in [Nat -> Nat], NEW ht \in [Nat -> Nat],
         NEW n, NEW top \in Nat, Sound(n, lo, lo, hi, ht, top),
         NEW x, NEW k \in Nat, For(n, lo, hi, x, k), ht[x] # 0
  PROVE  /\ For(n, lo, hi, Child(n[x], k), k)
         /\ ht[Child(n[x], k)] + 1 = ht[x]
<1>1. x \in DOMAIN n /\ lo[x] < k /\ k <= hi[x]
  BY DEF For
<1>2. n[x] \in TreeNodes /\ KidsSound(n, lo, lo, hi, ht, x) /\ lo[x] \in Nat /\ hi[x] \in Nat
  BY <1>1, NodeIs
<1> DEFINE j == LowerBound(KeysOf(n[x].slots), k)
<1>3. Finds(n[x], k, j, lo[x], hi[x])
  BY <1>1, <1>2, ChildIs
<1> HIDE DEF j
<1> DEFINE c == Child(n[x], k)
<1>4. /\ j \in 1 .. Len(n[x].slots) + 1 /\ c = Kid(n[x], j)
      /\ Low(n[x], j, lo[x]) < k /\ k <= High(n[x], j, hi[x])
  BY <1>3 DEF Finds
<1>5. /\ c \in DOMAIN n /\ ht[c] + 1 = ht[x]
      /\ lo[c] = Low(n[x], j, lo[x]) /\ hi[c] = High(n[x], j, hi[x])
  BY <1>2, <1>4 DEF KidsSound
<1> QED
  BY <1>4, <1>5 DEF For

-----------------------------------------------------------------------------
(* Searching *)

\* p is the way that a search for k takes from r, as far as m levels down.
Walk(n, r, k, m, p) ==
  p = [i \in 0 .. m |-> IF i = 0 THEN r ELSE Child(n[p[i - 1]], k)]

StepsDown(n, r, k, m, p) ==
  p[0] = r /\ \A i \in 1 .. m : p[i] = Child(n[p[i - 1]], k)

LEMMA WalkIs ==
  ASSUME NEW n, NEW r, NEW k, NEW m \in Nat, NEW p, Walk(n, r, k, m, p)
  PROVE  StepsDown(n, r, k, m, p)
<1>1. \A i \in 0 .. m : p[i] = IF i = 0 THEN r ELSE Child(n[p[i - 1]], k)
  BY DEF Walk
<1>2. 0 \in 0 .. m /\ \A i \in 1 .. m : i \in 0 .. m /\ i # 0
  OBVIOUS
<1> QED
  BY <1>1, <1>2 DEF StepsDown

LEMMA WalkExists ==
  ASSUME NEW n, NEW r, NEW k, NEW top \in Nat
  PROVE  \E p : Walk(n, r, k, top, p)
<1> DEFINE T == {m \in Nat : ~ \E p : Walk(n, r, k, m, p)}
<1> SUFFICES ASSUME T # {} PROVE FALSE
  OBVIOUS
<1>1. PICK m \in T : \A l \in T : m <= l
  <2>1. T \subseteq Nat
    OBVIOUS
  <2> HIDE DEF T
  <2> QED
    BY <2>1, LeastOfNaturals
<1>2. CASE m = 0
  <2> DEFINE a == [o \in 0 .. 0 |-> r]
  <2>1. Walk(n, r, k, 0, a)
    BY DEF Walk
  <2> QED
    BY <1>2, <2>1
<1>3. CASE m # 0
  <2>1. m \in Nat /\ m - 1 \in Nat /\ m - 1 < m
    BY <1>3
  <2>2. m - 1 \notin T
    BY <1>1, <2>1
  <2>3. PICK a : Walk(n, r, k, m - 1, a)
    BY <2>1, <2>2
  <2> DEFINE b == [i \in 0 .. m |-> IF i = 0 THEN r ELSE Child(n[a[i - 1]], k)]
  <2>4. \A o \in 0 .. m - 1 : b[o] = a[o]
    BY <2>1, <2>3 DEF Walk
  <2>5. \A o \in 0 .. m : o # 0 => o - 1 \in 0 .. m - 1
    BY <2>1
  <2>6. b = [i \in 0 .. m |-> IF i = 0 THEN r ELSE Child(n[b[i - 1]], k)]
    BY <2>4, <2>5
  <2>7. Walk(n, r, k, m, b)
    BY <2>6 DEF Walk
  <2> QED
    BY <1>1, <2>7
<1> QED
  BY <1>2, <1>3

LEMMA PathIs ==
  ASSUME NEW k, levels \in Nat
  PROVE  Walk(node, root, k, levels, Path(k))
<1> DEFINE p == CHOOSE p : Walk(node, root, k, levels, p)
<1>1. Walk(node, root, k, levels, p)
  BY WalkExists
<1>2. Path(k) = p
  BY DEF Path, Walk
<1> QED
  BY <1>1, <1>2

\* Each node of the way p is for k, and one lower than the one before.
Leads(n, lo, hi, ht, top, k, p) ==
  \A i \in 0 .. top : For(n, lo, hi, p[i], k) /\ ht[p[i]] + i = top

LEMMA WalkLeads ==
  ASSUME NEW lo \in [Nat -> Nat], NEW hi \in [Nat -> Nat], NEW ht \in [Nat -> Nat],
         NEW n, NEW top \in Nat, Sound(n, lo, lo, hi, ht, top),
         NEW r, RootSound(n, r, lo, hi, ht, top),
         NEW k \in 1 .. INF, NEW p, Walk(n, r, k, top, p)
  PROVE  Leads(n, lo, hi, ht, top, k, p)
<1>4. StepsDown(n, r, k, top, p)
  BY WalkIs
<1> DEFINE T == {i \in Nat : i <= top /\ ~ (For(n, lo, hi, p[i], k) /\ ht[p[i]] + i = top)}
<1> SUFFICES ASSUME T # {} PROVE FALSE
  BY DEF Leads
<1>1. PICK m \in T : \A l \in T : m <= l
  <2>1. T \subseteq Nat
    OBVIOUS
  <2> HIDE DEF T
  <2> QED
    BY <2>1, LeastOfNaturals
<1>2. CASE m = 0
  <2>1. p[0] = r
    BY <1>4 DEF StepsDown
  <2>2. r \in DOMAIN n /\ ht[r] = top /\ lo[r] = 0 /\ hi[r] = INF
    BY DEF RootSound
  <2>3. For(n, lo, hi, r, k)
    BY <2>2, INFType DEF For
  <2> QED
    BY <1>1, <1>2, <2>1, <2>2, <2>3
<1>3. CASE m # 0
  <2>1. m \in Nat /\ m - 1 \in Nat /\ m - 1 < m /\ m - 1 <= top /\ m <= top
    BY <1>3
  <2>2. m - 1 \notin T
    BY <1>1, <2>1
  <2>3. For(n, lo, hi, p[m - 1], k) /\ ht[p[m - 1]] + (m - 1) = top
    BY <2>1, <2>2
  <2>4. ht[p[m - 1]] \in Nat
    BY <2>3, NodeIs DEF For
  <2>5. ht[p[m - 1]] # 0
    BY <2>1, <2>3, <2>4
  <2>6. p[m] = Child(n[p[m - 1]], k)
    BY <2>1, <1>3, <1>4 DEF StepsDown
  <2>7. k \in Nat
    OBVIOUS
  <2>8. For(n, lo, hi, p[m], k) /\ ht[p[m]] + 1 = ht[p[m - 1]]
    BY <2>3, <2>5, <2>6, <2>7, Descend
  <2>9. ht[p[m]] \in Nat
    BY <2>8, NodeIs DEF For
  <2>10. ht[p[m]] + m = top
    BY <2>1, <2>3, <2>4, <2>8, <2>9
  <2> QED
    BY <1>1, <2>8, <2>10
<1> QED
  BY <1>2, <1>3

\* The leaf that a search for k ends at is the one that is for k.
LEMMA LeafOfIs ==
  ASSUME NEW lo \in [Nat -> Nat], NEW hi \in [Nat -> Nat], NEW ht \in [Nat -> Nat],
         levels \in Nat, Sound(node, lo, lo, hi, ht, levels),
         RootSound(node, root, lo, hi, ht, levels), NEW k \in 1 .. INF
  PROVE  For(node, lo, hi, LeafOf(k), k) /\ ht[LeafOf(k)] = 0
<1>1. Walk(node, root, k, levels, Path(k))
  BY PathIs
<1>2. Leads(node, lo, hi, ht, levels, k, Path(k))
  BY <1>1, WalkLeads
<1>3. For(node, lo, hi, Path(k)[levels], k) /\ ht[Path(k)[levels]] + levels = levels
  BY <1>2 DEF Leads
<1> DEFINE x == Path(k)[levels]
<1> HIDE DEF x
<1>4. For(node, lo, hi, x, k) /\ ht[x] + levels = levels
  BY <1>3 DEF x
<1>5. ht[x] \in Nat
  BY <1>4, NodeIs DEF For
<1>6. ht[x] = 0
  BY <1>4, <1>5
<1> QED
  BY <1>4, <1>6 DEF LeafOf, x

-----------------------------------------------------------------------------
(* Entries *)

EntriesIn(n, ht) ==
  {e \in Keys : \E x \in DOMAIN n : ht[x] = 0 /\ e \in ToSet(n[x].slots)}

\* The slots of one leaf are others.
Reslotted(n, x, s) == [n EXCEPT ![x].slots = s]

SlotsFor(s, a, b, top) ==
  /\ s \in Seq(Keys) /\ Increasing(s) /\ Within(s, a, b)
  /\ s # <<>> \/ top = 0

LEMMA ReslottedSound ==
  ASSUME NEW lo \in [Nat -> Nat], NEW hi \in [Nat -> Nat], NEW ht \in [Nat -> Nat],
         NEW n, NEW top \in Nat, Sound(n, lo, lo, hi, ht, top),
         NEW x \in DOMAIN n, ht[x] = 0, NEW s, SlotsFor(s, lo[x], hi[x], top)
  PROVE  /\ Sound(Reslotted(n, x, s), lo, lo, hi, ht, top)
         /\ DOMAIN Reslotted(n, x, s) = DOMAIN n
<1> DEFINE n2 == Reslotted(n, x, s)
<1>1. DOMAIN n2 = DOMAIN n /\ \A y \in DOMAIN n : y # x => n2[y] = n[y]
  BY DEF Reslotted
<1>2. n[x] \in LeafNodes /\ LeafSound(n, lo, hi, ht, top, x)
  BY NodeIs
<1>3. /\ n2[x] \in LeafNodes /\ n2[x].slots = s
      /\ n2[x].next = n[x].next /\ n2[x].prev = n[x].prev
  BY <1>2 DEF Reslotted, LeafNodes, SlotsFor
<1> HIDE DEF n2
<1>4. Typed(n2, lo, hi, ht, top)
  BY <1>1, <1>3 DEF Sound, Typed
<1>5. Disjoint(n2, lo, hi, ht)
  BY <1>1 DEF Sound, Disjoint
<1>6. LeafSound(n2, lo, hi, ht, top, x)
  BY <1>1, <1>2, <1>3 DEF LeafSound, SlotsFor
<1>7. ASSUME NEW y \in DOMAIN n, y # x
      PROVE  IF ht[y] = 0 THEN LeafSound(n2, lo, hi, ht, top, y) ELSE KidsSound(n2, lo, lo, hi, ht, y)
  <2>1. n2[y] = n[y]
    BY <1>1, <1>7
  <2>2. CASE ht[y] = 0
    <3>1. LeafSound(n, lo, hi, ht, top, y)
      BY <2>2, NodeIs
    <3> QED
      BY <1>1, <2>1, <2>2, <3>1 DEF LeafSound
  <2>3. CASE ht[y] # 0
    <3>1. KidsSound(n, lo, lo, hi, ht, y)
      BY <2>3, NodeIs
    <3> QED
      BY <1>1, <2>1, <2>3, <3>1 DEF KidsSound
  <2> QED
    BY <2>2, <2>3
<1>8. Sound(n2, lo, lo, hi, ht, top)
  BY <1>1, <1>4, <1>5, <1>6, <1>7 DEF Sound
<1> QED
  BY <1>1, <1>8 DEF n2

LEMMA InsertKeyIs ==
  ASSUME NEW s \in Seq(Keys), Increasing(s), NEW k \in Keys, k \notin ToSet(s),
         NEW a \in Nat, NEW b \in Nat, Within(s, a, b), a < k, k <= b
  PROVE  /\ InsertKey(s, k) \in Seq(Keys) /\ InsertKey(s, k) # <<>>
         /\ Increasing(InsertKey(s, k)) /\ Within(InsertKey(s, k), a, b)
         /\ ToSet(InsertKey(s, k)) = ToSet(s) \cup {k}
         /\ Len(InsertKey(s, k)) = Len(s) + 1
         /\ InsertKey(s, k)[Len(s) + 1] =
              IF s # <<>> /\ k < s[Len(s)] THEN s[Len(s)] ELSE k
<1> DEFINE i == LowerBound(s, k)
           t == InsertAt(s, i, k)
<1>1. /\ s \in Seq(Nat) /\ Len(s) \in Nat /\ k \in Nat /\ DOMAIN s = 1 .. Len(s)
      /\ \A j \in 1 .. Len(s) : s[j] \in Keys /\ s[j] \in Nat
  BY SeqOfKeys, INFType
<1>2. FirstAtLeast(s, k, i)
  BY <1>1, LowerBoundIs
<1> HIDE DEF i
<1>3. i \in 1 .. Len(s) + 1
  BY <1>2 DEF FirstAtLeast
<1>4. /\ t \in Seq(Keys) /\ Len(t) = Len(s) + 1
      /\ \A j \in 1 .. Len(s) + 1 :
           t[j] = IF j < i THEN s[j] ELSE IF j = i THEN k ELSE s[j - 1]
  BY <1>3, InsertAtIs
<1> HIDE DEF t
<1>5. DOMAIN t = 1 .. Len(s) + 1
  BY <1>1, <1>4
<1>6. \A j \in 1 .. Len(s) : j < i => s[j] < k
  BY <1>2 DEF FirstAtLeast
<1>7. \A j, m \in 1 .. Len(s) : j < m => s[j] < s[m]
  BY <1>1 DEF Increasing
<1>8. \A j \in 1 .. Len(s) : s[j] # k
  BY <1>1 DEF ToSet
<1>9. \A j \in 1 .. Len(s) : j >= i => k < s[j]
  <2> TAKE j \in 1 .. Len(s)
  <2> HAVE j >= i
  <2>1. i \in 1 .. Len(s) /\ s[i] >= k
    BY <1>1, <1>2, <1>3 DEF FirstAtLeast
  <2>2. k < s[i]
    BY <1>1, <1>8, <2>1
  <2>3. i = j \/ (i < j /\ s[i] < s[j])
    BY <1>1, <1>7, <2>1
  <2> QED
    BY <1>1, <2>1, <2>2, <2>3
<1>10. Increasing(t)
  <2> SUFFICES ASSUME NEW j \in 1 .. Len(s) + 1, NEW m \in 1 .. Len(s) + 1, j < m
               PROVE  t[j] < t[m]
    BY <1>5 DEF Increasing
  <2>1. CASE m < i
    <3>1. t[j] = s[j] /\ t[m] = s[m] /\ j \in 1 .. Len(s) /\ m \in 1 .. Len(s)
      BY <1>1, <1>3, <1>4, <2>1
    <3> QED
      BY <1>7, <3>1
  <2>2. CASE m = i
    <3>1. t[j] = s[j] /\ t[m] = k /\ j \in 1 .. Len(s) /\ j < i
      BY <1>1, <1>3, <1>4, <2>2
    <3> QED
      BY <1>6, <3>1
  <2>3. CASE m > i /\ j < i
    <3>1. t[j] = s[j] /\ t[m] = s[m - 1] /\ j \in 1 .. Len(s) /\ m - 1 \in 1 .. Len(s) /\ j < m - 1
      BY <1>1, <1>3, <1>4, <2>3
    <3> QED
      BY <1>7, <3>1
  <2>4. CASE m > i /\ j = i
    <3>1. t[j] = k /\ t[m] = s[m - 1] /\ m - 1 \in 1 .. Len(s) /\ m - 1 >= i
      BY <1>1, <1>3, <1>4, <2>4
    <3> QED
      BY <1>9, <3>1
  <2>5. CASE m > i /\ j > i
    <3>1. t[j] = s[j - 1] /\ t[m] = s[m - 1] /\ j - 1 \in 1 .. Len(s) /\ m - 1 \in 1 .. Len(s) /\ j - 1 < m - 1
      BY <1>1, <1>3, <1>4, <2>5
    <3> QED
      BY <1>7, <3>1
  <2> QED
    BY <1>1, <1>3, <2>1, <2>2, <2>3, <2>4, <2>5
<1>11. \A j \in 1 .. Len(s) + 1 : t[j] = k \/ \E m \in 1 .. Len(s) : t[j] = s[m]
  <2> TAKE j \in 1 .. Len(s) + 1
  <2>1. CASE j < i
    BY <1>1, <1>3, <1>4, <2>1
  <2>2. CASE j = i
    BY <1>4, <2>2
  <2>3. CASE j > i
    <3>1. t[j] = s[j - 1] /\ j - 1 \in 1 .. Len(s)
      BY <1>1, <1>3, <1>4, <2>3
    <3> QED
      BY <3>1
  <2> QED
    BY <1>3, <2>1, <2>2, <2>3
<1>12. Within(t, a, b)
  BY <1>1, <1>5, <1>11 DEF Within
<1>13. t[i] = k /\ i \in 1 .. Len(s) + 1
  BY <1>3, <1>4
<1>14. \A m \in 1 .. Len(s) : \E j \in 1 .. Len(s) + 1 : t[j] = s[m]
  <2> TAKE m \in 1 .. Len(s)
  <2>1. CASE m < i
    <3>1. m \in 1 .. Len(s) + 1 /\ t[m] = s[m]
      BY <1>1, <1>4, <2>1
    <3> QED
      BY <3>1
  <2>2. CASE m >= i
    <3>1. m + 1 \in 1 .. Len(s) + 1 /\ ~ (m + 1 < i) /\ m + 1 # i /\ m + 1 - 1 = m
      BY <1>1, <1>3, <2>2
    <3>2. t[m + 1] = s[m]
      BY <1>4, <3>1
    <3> QED
      BY <3>1, <3>2
  <2> QED
    BY <1>3, <2>1, <2>2
<1>15. ToSet(t) = ToSet(s) \cup {k}
  <2>1. \A e : e \in ToSet(t) <=> \E j \in 1 .. Len(s) + 1 : t[j] = e
    BY <1>5 DEF ToSet
  <2>2. \A e : e \in ToSet(s) <=> \E j \in 1 .. Len(s) : s[j] = e
    BY <1>1 DEF ToSet
  <2>3. \A e : e \in ToSet(t) => e \in ToSet(s) \/ e = k
    BY <1>11, <2>1, <2>2
  <2>4. \A e : e \in ToSet(s) => e \in ToSet(t)
    BY <1>14, <2>1, <2>2
  <2>5. k \in ToSet(t)
    BY <1>13, <2>1
  <2> QED
    BY <2>3, <2>4, <2>5
<1>16. t[Len(s) + 1] = IF s # <<>> /\ k < s[Len(s)] THEN s[Len(s)] ELSE k
  <2>1. CASE s = <<>>
    <3>1. i = 1 /\ Len(s) = 0
      BY <1>3, <2>1
    <3> QED
      BY <1>4, <2>1, <3>1
  <2>2. CASE s # <<>> /\ i = Len(s) + 1
    <3>1. Len(s) \in 1 .. Len(s) /\ Len(s) < i
      BY <1>1, <2>2
    <3>2. s[Len(s)] < k /\ s[Len(s)] \in Nat
      BY <1>1, <1>6, <3>1
    <3>3. t[Len(s) + 1] = k
      BY <1>13, <2>2
    <3> QED
      BY <1>1, <3>2, <3>3
  <2>3. CASE s # <<>> /\ i # Len(s) + 1
    <3>1. Len(s) \in 1 .. Len(s) /\ Len(s) >= i /\ Len(s) + 1 > i
      BY <1>1, <1>3, <2>3
    <3>2. k < s[Len(s)]
      BY <1>9, <3>1
    <3>3. t[Len(s) + 1] = s[Len(s)]
      BY <1>1, <1>3, <1>4, <3>1
    <3> QED
      BY <2>3, <3>2, <3>3
  <2> QED
    BY <2>1, <2>2, <2>3
<1>17. t # <<>>
  BY <1>1, <1>4
<1> QED
  BY <1>4, <1>10, <1>12, <1>15, <1>16, <1>17 DEF InsertKey, t, i

LEMMA WithoutKeyIs ==
  ASSUME NEW s \in Seq(Keys), Increasing(s), NEW k \in ToSet(s),
         NEW a \in Nat, NEW b \in Nat, Within(s, a, b)
  PROVE  /\ Without(s, LowerBound(s, k)) \in Seq(Keys)
         /\ Increasing(Without(s, LowerBound(s, k)))
         /\ Within(Without(s, LowerBound(s, k)), a, b)
         /\ ToSet(Without(s, LowerBound(s, k))) = ToSet(s) \ {k}
         /\ Len(Without(s, LowerBound(s, k))) = Len(s) - 1
<1> DEFINE i == LowerBound(s, k)
           t == Without(s, i)
<1>1. /\ s \in Seq(Nat) /\ Len(s) \in Nat /\ DOMAIN s = 1 .. Len(s)
      /\ \A j \in 1 .. Len(s) : s[j] \in Keys /\ s[j] \in Nat
  BY SeqOfKeys, INFType
<1>2. PICK h \in 1 .. Len(s) : s[h] = k
  BY <1>1 DEF ToSet
<1>3. k \in Nat
  BY <1>1, <1>2
<1>4. FirstAtLeast(s, k, i)
  BY <1>1, <1>3, LowerBoundIs
<1> HIDE DEF i
<1>5. i \in 1 .. Len(s) + 1
  BY <1>4 DEF FirstAtLeast
<1>6. \A j, m \in 1 .. Len(s) : j < m => s[j] < s[m]
  BY <1>1 DEF Increasing
<1>7. i = h
  <2>1. ~ (h < i)
    BY <1>1, <1>2, <1>3, <1>4 DEF FirstAtLeast
  <2>2. i <= h /\ i \in 1 .. Len(s)
    BY <1>1, <1>5, <2>1
  <2>3. s[i] >= k /\ s[i] \in Nat
    BY <1>1, <1>4, <2>2 DEF FirstAtLeast
  <2>4. i < h => s[i] < k
    BY <1>2, <1>6, <2>2
  <2> QED
    BY <1>3, <2>2, <2>3, <2>4
<1>8. i \in 1 .. Len(s) /\ s[i] = k
  BY <1>2, <1>7
<1>9. /\ t \in Seq(Keys) /\ Len(t) = Len(s) - 1
      /\ \A j \in 1 .. Len(s) - 1 : t[j] = IF j < i THEN s[j] ELSE s[j + 1]
  BY <1>8, WithoutIs
<1> HIDE DEF t
<1>10. DOMAIN t = 1 .. Len(s) - 1
  BY <1>1, <1>9
<1>11. Increasing(t)
  <2> SUFFICES ASSUME NEW j \in 1 .. Len(s) - 1, NEW m \in 1 .. Len(s) - 1, j < m
               PROVE  t[j] < t[m]
    BY <1>10 DEF Increasing
  <2>1. j \in 1 .. Len(s) /\ m \in 1 .. Len(s) /\ j + 1 \in 1 .. Len(s) /\ m + 1 \in 1 .. Len(s)
    BY <1>1
  <2>2. CASE m < i
    <3>1. t[j] = s[j] /\ t[m] = s[m]
      BY <1>8, <1>9, <2>2
    <3> QED
      BY <1>6, <2>1, <3>1
  <2>3. CASE ~ (m < i) /\ j < i
    <3>1. t[j] = s[j] /\ t[m] = s[m + 1] /\ j < m + 1
      BY <1>8, <1>9, <2>3
    <3> QED
      BY <1>6, <2>1, <3>1
  <2>4. CASE ~ (m < i) /\ ~ (j < i)
    <3>1. t[j] = s[j + 1] /\ t[m] = s[m + 1] /\ j + 1 < m + 1
      BY <1>8, <1>9, <2>4
    <3> QED
      BY <1>6, <2>1, <3>1
  <2> QED
    BY <2>2, <2>3, <2>4
<1>12. \A j \in 1 .. Len(s) - 1 : \E m \in 1 .. Len(s) : m # i /\ t[j] = s[m]
  <2> TAKE j \in 1 .. Len(s) - 1
  <2>1. j \in 1 .. Len(s) /\ j + 1 \in 1 .. Len(s)
    BY <1>1
  <2>2. CASE j < i
    <3>1. t[j] = s[j] /\ j # i
      BY <1>8, <1>9, <2>2
    <3> QED
      BY <2>1, <3>1
  <2>3. CASE ~ (j < i)
    <3>1. t[j] = s[j + 1] /\ j + 1 # i
      BY <1>8, <1>9, <2>3
    <3> QED
      BY <2>1, <3>1
  <2> QED
    BY <2>2, <2>3
<1>13. Within(t, a, b)
  BY <1>1, <1>10, <1>12 DEF Within
<1>14. \A m \in 1 .. Len(s) : m # i => \E j \in 1 .. Len(s) - 1 : t[j] = s[m]
  <2> TAKE m \in 1 .. Len(s)
  <2> HAVE m # i
  <2>1. CASE m < i
    <3>1. m \in 1 .. Len(s) - 1
      BY <1>1, <1>8, <2>1
    <3>2. t[m] = s[m]
      BY <1>9, <2>1, <3>1
    <3> QED
      BY <3>1, <3>2
  <2>2. CASE m > i
    <3>1. m - 1 \in 1 .. Len(s) - 1 /\ ~ (m - 1 < i) /\ m - 1 + 1 = m
      BY <1>1, <1>8, <2>2
    <3>2. t[m - 1] = s[m]
      BY <1>9, <3>1
    <3> QED
      BY <3>1, <3>2
  <2> QED
    BY <1>8, <2>1, <2>2
<1>15. ToSet(t) = ToSet(s) \ {k}
  <2>1. \A e : e \in ToSet(t) <=> \E j \in 1 .. Len(s) - 1 : t[j] = e
    BY <1>10 DEF ToSet
  <2>2. \A e : e \in ToSet(s) <=> \E j \in 1 .. Len(s) : s[j] = e
    BY <1>1 DEF ToSet
  <2>3. \A m \in 1 .. Len(s) : m # i => s[m] # k
    <3> TAKE m \in 1 .. Len(s)
    <3> HAVE m # i
    <3>1. m < i \/ i < m
      BY <1>8
    <3>2. s[m] < s[i] \/ s[i] < s[m]
      BY <1>6, <1>8, <3>1
    <3> QED
      BY <1>1, <1>8, <3>2
  <2>4. \A e : e \in ToSet(t) => e \in ToSet(s) /\ e # k
    BY <1>12, <2>1, <2>2, <2>3
  <2>5. \A e : e \in ToSet(s) /\ e # k => e \in ToSet(t)
    BY <1>8, <1>14, <2>1, <2>2
  <2> QED
    BY <2>4, <2>5
<1> QED
  BY <1>9, <1>11, <1>13, <1>15 DEF t, i

LEMMA MembersAre ==
  ASSUME NEW s \in Seq(Keys)
  PROVE  /\ DOMAIN s = 1 .. Len(s) /\ ToSet(s) \subseteq Keys
         /\ \A e : e \in ToSet(s) <=> \E i \in 1 .. Len(s) : s[i] = e
<1>1. DOMAIN s = 1 .. Len(s)
  OBVIOUS
<1>2. \A i \in 1 .. Len(s) : s[i] \in Keys
  OBVIOUS
<1>3. \A e : e \in ToSet(s) <=> \E i \in 1 .. Len(s) : s[i] = e
  BY <1>1 DEF ToSet
<1> QED
  BY <1>1, <1>2, <1>3

\* An entry is in a leaf that is for it.
LEMMA EntryPlace ==
  ASSUME NEW lo \in [Nat -> Nat], NEW hi \in [Nat -> Nat], NEW ht \in [Nat -> Nat],
         NEW seen \in [Nat -> Nat], NEW n, NEW top \in Nat,
         Sound(n, lo, seen, hi, ht, top), NEW x \in DOMAIN n, ht[x] = 0,
         NEW e \in ToSet(n[x].slots)
  PROVE  For(n, lo, hi, x, e) /\ e \in Keys /\ e \in Nat
<1>1. n[x] \in LeafNodes /\ LeafSound(n, lo, hi, ht, top, x)
  BY NodeIs
<1>2. n[x].slots \in Seq(Keys) /\ Within(n[x].slots, lo[x], hi[x])
  BY <1>1, LeafNodeIs DEF LeafSound
<1>3. PICK i \in DOMAIN n[x].slots : e = n[x].slots[i]
  BY DEF ToSet
<1>4. e \in Keys
  BY <1>2, MembersAre
<1>5. lo[x] < e /\ e <= hi[x]
  BY <1>2, <1>3 DEF Within
<1> QED
  BY <1>4, <1>5, INFType DEF For

Adds(S, k, T) == T = S \cup {k}
Drops(S, k, T) == k \in S /\ T = S \ {k}

LEMMA EntriesReslotted ==
  ASSUME NEW lo \in [Nat -> Nat], NEW hi \in [Nat -> Nat], NEW ht \in [Nat -> Nat],
         NEW n, NEW top \in Nat, Sound(n, lo, lo, hi, ht, top),
         NEW x \in DOMAIN n, ht[x] = 0, NEW s, NEW k \in Keys
  PROVE  /\ Adds(ToSet(n[x].slots), k, ToSet(s)) =>
              Adds(EntriesIn(n, ht), k, EntriesIn(Reslotted(n, x, s), ht))
         /\ Drops(ToSet(n[x].slots), k, ToSet(s)) =>
              Drops(EntriesIn(n, ht), k, EntriesIn(Reslotted(n, x, s), ht))
<1> DEFINE n2 == Reslotted(n, x, s)
<1>1. DOMAIN n2 = DOMAIN n /\ \A y \in DOMAIN n : y # x => n2[y] = n[y]
  BY DEF Reslotted
<1>2. n[x] \in LeafNodes
  BY NodeIs
<1>3. n2[x].slots = s
  BY <1>2 DEF Reslotted, LeafNodes
<1> HIDE DEF n2
<1>4. \A e \in Keys : e \in EntriesIn(n2, ht) <=>
        e \in ToSet(s) \/ \E y \in DOMAIN n : y # x /\ ht[y] = 0 /\ e \in ToSet(n[y].slots)
  BY <1>1, <1>3 DEF EntriesIn
<1>5. \A e \in Keys : e \in EntriesIn(n, ht) <=>
        e \in ToSet(n[x].slots) \/ \E y \in DOMAIN n : y # x /\ ht[y] = 0 /\ e \in ToSet(n[y].slots)
  BY DEF EntriesIn
<1>6. EntriesIn(n, ht) \subseteq Keys /\ EntriesIn(n2, ht) \subseteq Keys
  BY DEF EntriesIn
<1>7. ASSUME ToSet(s) = ToSet(n[x].slots) \cup {k}
      PROVE  EntriesIn(n2, ht) = EntriesIn(n, ht) \cup {k}
  BY <1>4, <1>5, <1>6, <1>7
<1>8. ASSUME k \in ToSet(n[x].slots), ToSet(s) = ToSet(n[x].slots) \ {k}
      PROVE  EntriesIn(n2, ht) = EntriesIn(n, ht) \ {k}
  <2>1. For(n, lo, hi, x, k) /\ k \in Nat
    BY <1>8, EntryPlace
  <2>2. ASSUME NEW y \in DOMAIN n, y # x, ht[y] = 0, k \in ToSet(n[y].slots)
        PROVE  FALSE
    <3>1. For(n, lo, hi, y, k)
      BY <2>2, EntryPlace
    <3> QED
      BY <2>1, <2>2, <3>1, OnlyOneFor
  <2> QED
    BY <1>4, <1>5, <1>6, <1>8, <2>2
<1>9. k \in ToSet(n[x].slots) => k \in EntriesIn(n, ht)
  BY <1>5
<1> QED
  BY <1>7, <1>8, <1>9 DEF n2, Adds, Drops

-----------------------------------------------------------------------------
(* Inserts and erases that leave the nodes as they are *)

\* What a step of the iterator or of the tree leaves.
Types ==
  /\ levels \in Nat
  /\ levels > 0 => node[root].slots # <<>>
  /\ nnodes = Cardinality(DOMAIN node)
  /\ it \in [off : Nat, cur : Keys \cup {NIL}, fresh : BOOLEAN]
  /\ it.off # NIL => it.cur \in Keys
  /\ failed \in Keys \cup {NIL}

LEMMA LeafFacts ==
  ASSUME NEW lo \in [Nat -> Nat], NEW hi \in [Nat -> Nat], NEW ht \in [Nat -> Nat],
         Types, Ranged(lo, hi, ht), NEW k \in Keys
  PROVE  /\ LeafOf(k) \in DOMAIN node /\ ht[LeafOf(k)] = 0
         /\ lo[LeafOf(k)] \in Nat /\ hi[LeafOf(k)] \in Nat
         /\ lo[LeafOf(k)] < k /\ k <= hi[LeafOf(k)]
         /\ node[LeafOf(k)] \in LeafNodes
         /\ node[LeafOf(k)].slots \in Seq(Keys)
         /\ Increasing(node[LeafOf(k)].slots)
         /\ Within(node[LeafOf(k)].slots, lo[LeafOf(k)], hi[LeafOf(k)])
         /\ node[LeafOf(k)].slots # <<>> \/ levels = 0
<1>1. k \in 1 .. INF
  BY INFType
<1>2. levels \in Nat /\ Sound(node, lo, lo, hi, ht, levels) /\ RootSound(node, root, lo, hi, ht, levels)
  BY DEF Types, Ranged
<1>3. For(node, lo, hi, LeafOf(k), k) /\ ht[LeafOf(k)] = 0
  BY <1>1, <1>2, LeafOfIs
<1> DEFINE x == LeafOf(k)
<1> HIDE DEF x
<1>4. x \in DOMAIN node /\ ht[x] = 0 /\ lo[x] < k /\ k <= hi[x]
  BY <1>3 DEF For, x
<1>5. lo[x] \in Nat /\ hi[x] \in Nat /\ node[x] \in LeafNodes /\ LeafSound(node, lo, hi, ht, levels, x)
  BY <1>2, <1>4, NodeIs
<1>6. /\ node[x].slots \in Seq(Keys) /\ Increasing(node[x].slots)
      /\ Within(node[x].slots, lo[x], hi[x])
      /\ node[x].slots # <<>> \/ levels = 0
  BY <1>5, LeafNodeIs DEF LeafSound
<1> QED
  BY <1>4, <1>5, <1>6 DEF x

\* The nodes are where they were.
LEMMA StillRanged ==
  ASSUME NEW lo \in [Nat -> Nat], NEW hi \in [Nat -> Nat], NEW ht \in [Nat -> Nat],
         Types, Ranged(lo, hi, ht), NEW x \in DOMAIN node, ht[x] = 0,
         NEW s, SlotsFor(s, lo[x], hi[x], levels),
         node' = Reslotted(node, x, s), UNCHANGED <<root, levels, nnodes, it, failed>>
  PROVE  Types' /\ Ranged(lo, hi, ht)'
<1>1. /\ Sound(node, lo, lo, hi, ht, levels) /\ levels \in Nat
      /\ RootSound(node, root, lo, hi, ht, levels) /\ AtHome(node, it, lo, hi, ht)
  BY DEF Types, Ranged
<1>2. /\ Sound(Reslotted(node, x, s), lo, lo, hi, ht, levels)
      /\ DOMAIN Reslotted(node, x, s) = DOMAIN node
  BY <1>1, ReslottedSound
<1>3. DOMAIN node' = DOMAIN node /\ Sound(node', lo, lo, hi, ht, levels)
  BY <1>2
<1>4. RootSound(node', root', lo, hi, ht, levels') /\ AtHome(node', it', lo, hi, ht)
  BY <1>1, <1>3 DEF RootSound, AtHome
<1>5. Ranged(lo, hi, ht)'
  BY <1>3, <1>4 DEF Ranged
<1>6. levels > 0 => node'[root].slots # <<>>
  <2>1. CASE root = x
    <3>1. ht[root] = levels
      BY <1>1 DEF RootSound
    <3>2. levels = 0
      BY <2>1, <3>1
    <3> QED
      BY <3>2
  <2>2. CASE root # x
    BY <2>2 DEF Types, Reslotted
  <2> QED
    BY <2>1, <2>2
<1>7. Types'
  BY <1>3, <1>6 DEF Types
<1> QED
  BY <1>5, <1>7

LEMMA InsertFitsStep ==
  ASSUME NEW lo \in [Nat -> Nat], NEW hi \in [Nat -> Nat], NEW ht \in [Nat -> Nat],
         Types, Ranged(lo, hi, ht), NEW k \in Keys, InsertFits(k)
  PROVE  /\ Types' /\ Ranged(lo, hi, ht)'
         /\ Adds(EntriesIn(node, ht), k, EntriesIn(node', ht))
<1>9. PICK x, q, s : x = LeafOf(k) /\ q = node[x].slots /\ s = InsertKey(q, k)
  OBVIOUS
<1>1. k \notin ToSet(q) /\ node' = [node EXCEPT ![x].slots = s]
      /\ UNCHANGED <<root, levels, nnodes, it, failed>>
  BY <1>9 DEF InsertFits
<1>2. /\ x \in DOMAIN node /\ ht[x] = 0
      /\ lo[x] \in Nat /\ hi[x] \in Nat /\ lo[x] < k /\ k <= hi[x]
      /\ q \in Seq(Keys) /\ Increasing(q)
      /\ Within(q, lo[x], hi[x])
  BY LeafFacts, <1>9
<1>3. /\ s \in Seq(Keys) /\ s # <<>> /\ Increasing(s) /\ Within(s, lo[x], hi[x])
      /\ ToSet(s) = ToSet(q) \cup {k}
  BY <1>1, <1>2, <1>9, InsertKeyIs
<1>4. SlotsFor(s, lo[x], hi[x], levels)
  BY <1>3 DEF SlotsFor
<1>5. node' = Reslotted(node, x, s)
  BY <1>1 DEF Reslotted
<1>6. Types' /\ Ranged(lo, hi, ht)'
  BY <1>1, <1>2, <1>4, <1>5, StillRanged
<1>7. Sound(node, lo, lo, hi, ht, levels) /\ levels \in Nat
  BY DEF Types, Ranged
<1>10. Adds(ToSet(node[x].slots), k, ToSet(s))
  BY <1>3, <1>9 DEF Adds
<1>8. Adds(EntriesIn(node, ht), k, EntriesIn(Reslotted(node, x, s), ht))
  BY <1>2, <1>7, <1>10, EntriesReslotted
<1> QED
  BY <1>5, <1>6, <1>8

LEMMA EraseKeyStep ==
  ASSUME NEW lo \in [Nat -> Nat], NEW hi \in [Nat -> Nat], NEW ht \in [Nat -> Nat],
         Types, Ranged(lo, hi, ht), NEW k \in Keys, EraseKey(k)
  PROVE  /\ Types' /\ Ranged(lo, hi, ht)'
         /\ Drops(EntriesIn(node, ht), k, EntriesIn(node', ht))
<1>11. PICK x, q, s : x = LeafOf(k) /\ q = node[x].slots /\ s = Without(q, LowerBound(q, k))
  OBVIOUS
<1>1. k \in ToSet(q) /\ node' = [node EXCEPT ![x].slots = s]
      /\ (Len(q) > 1 \/ levels = 0)
      /\ UNCHANGED <<root, levels, nnodes, it, failed>>
  BY <1>11 DEF EraseKey
<1>2. /\ x \in DOMAIN node /\ ht[x] = 0
      /\ lo[x] \in Nat /\ hi[x] \in Nat
      /\ q \in Seq(Keys) /\ Increasing(q)
      /\ Within(q, lo[x], hi[x])
  BY LeafFacts, <1>11
<1>3. /\ s \in Seq(Keys) /\ Increasing(s) /\ Within(s, lo[x], hi[x])
      /\ ToSet(s) = ToSet(q) \ {k} /\ Len(s) = Len(q) - 1
  BY <1>1, <1>2, <1>11, WithoutKeyIs
<1>4. s # <<>> \/ levels = 0
  <2>1. Len(q) \in Nat
    BY <1>2
  <2> QED
    BY <1>1, <1>3, <2>1
<1>5. SlotsFor(s, lo[x], hi[x], levels)
  BY <1>3, <1>4 DEF SlotsFor
<1>6. node' = Reslotted(node, x, s)
  BY <1>1 DEF Reslotted
<1>7. Types' /\ Ranged(lo, hi, ht)'
  BY <1>1, <1>2, <1>5, <1>6, StillRanged
<1>8. Sound(node, lo, lo, hi, ht, levels) /\ levels \in Nat
  BY DEF Types, Ranged
<1>12. Drops(ToSet(node[x].slots), k, ToSet(s))
  BY <1>1, <1>3, <1>11 DEF Drops
<1>9. Drops(EntriesIn(node, ht), k, EntriesIn(Reslotted(node, x, s), ht))
  BY <1>2, <1>8, <1>12, EntriesReslotted
<1> QED
  BY <1>6, <1>7, <1>9

-----------------------------------------------------------------------------
(* Splits *)

LEMMA AllocIs ==
  ASSUME NEW n, IsFiniteSet(DOMAIN n), DOMAIN n \subseteq Nat \ {0}
  PROVE  Alloc(n) \in Nat /\ Alloc(n) # 0 /\ Alloc(n) \notin DOMAIN n
<1> DEFINE D == DOMAIN n \cup {it.off}
           C == Cardinality(DOMAIN n)
           T == 1 .. (C + 2) \ D
<1>1. C \in Nat
  BY FS_CardinalityType
<1>2. IsFiniteSet(D) /\ Cardinality(D) <= C + 1
  BY <1>1, FS_AddElement
<1>3. IsFiniteSet(1 .. C + 2) /\ Cardinality(1 .. C + 2) = C + 2
  BY <1>1, FS_Interval
<1>4. T # {}
  <2>1. ASSUME T = {} PROVE FALSE
    <3>1. 1 .. C + 2 \in SUBSET D
      BY <2>1
    <3>2. Cardinality(1 .. C + 2) <= Cardinality(D)
      BY <1>2, <3>1, FS_Subset
    <3>3. Cardinality(D) \in Nat
      BY <1>2, FS_CardinalityType
    <3> QED
      BY <1>1, <1>2, <1>3, <3>2, <3>3
  <2> QED
    BY <2>1
<1>5. T \subseteq Nat
  BY <1>1
<1>6. Min(T) \in T
  BY <1>4, <1>5, MinIs
<1> QED
  BY <1>6, <1>1 DEF Alloc

\* Node x has been cut at key c, and l is for what is up to c.
LoCut(lo, x, l, c) == [lo EXCEPT ![x] = c, ![l] = lo[x]]
HiCut(hi, l, c) == [hi EXCEPT ![l] = c]
HtCut(ht, x, l) == [ht EXCEPT ![l] = ht[x]]
SeenCut(lo, x, l) == [lo EXCEPT ![l] = lo[x]]

CutAt(D, lo, hi, ht, x, l, c, lo2, seen, hi2, ht2) ==
  /\ lo2 \in [Nat -> Nat] /\ hi2 \in [Nat -> Nat] /\ ht2 \in [Nat -> Nat]
  /\ seen \in [Nat -> Nat]
  /\ \A y \in D : /\ hi2[y] = hi[y] /\ ht2[y] = ht[y] /\ seen[y] = lo[y]
                  /\ y # x => lo2[y] = lo[y]
  /\ lo2[x] = c /\ lo2[l] = lo[x] /\ hi2[l] = c /\ ht2[l] = ht[x] /\ seen[l] = lo[x]
  /\ l \notin D /\ l \in Nat /\ l # 0 /\ l # x

LEMMA CutIs ==
  ASSUME NEW lo \in [Nat -> Nat], NEW hi \in [Nat -> Nat], NEW ht \in [Nat -> Nat],
         NEW D, D \subseteq Nat, NEW x \in D, NEW l \in Nat, l \notin D, l # 0, NEW c \in Nat
  PROVE  CutAt(D, lo, hi, ht, x, l, c, LoCut(lo, x, l, c), SeenCut(lo, x, l),
               HiCut(hi, l, c), HtCut(ht, x, l))
<1>1. x \in Nat /\ x # l /\ lo[x] \in Nat /\ ht[x] \in Nat
  OBVIOUS
<1>2. /\ LoCut(lo, x, l, c) \in [Nat -> Nat] /\ HiCut(hi, l, c) \in [Nat -> Nat]
      /\ HtCut(ht, x, l) \in [Nat -> Nat] /\ SeenCut(lo, x, l) \in [Nat -> Nat]
  BY <1>1 DEF LoCut, HiCut, HtCut, SeenCut
<1>3. ASSUME NEW y \in D
      PROVE  /\ HiCut(hi, l, c)[y] = hi[y] /\ HtCut(ht, x, l)[y] = ht[y]
             /\ SeenCut(lo, x, l)[y] = lo[y]
             /\ y # x => LoCut(lo, x, l, c)[y] = lo[y]
  <2>1. y \in Nat /\ y # l
    OBVIOUS
  <2> QED
    BY <1>1, <2>1 DEF LoCut, HiCut, HtCut, SeenCut
<1>4. /\ LoCut(lo, x, l, c)[x] = c /\ LoCut(lo, x, l, c)[l] = lo[x]
      /\ HiCut(hi, l, c)[l] = c /\ HtCut(ht, x, l)[l] = ht[x] /\ SeenCut(lo, x, l)[l] = lo[x]
  BY <1>1 DEF LoCut, HiCut, HtCut, SeenCut
<1> QED
  BY <1>1, <1>2, <1>3, <1>4 DEF CutAt

LEMMA CutDisjoint ==
  ASSUME NEW lo \in [Nat -> Nat], NEW hi \in [Nat -> Nat], NEW ht \in [Nat -> Nat],
         NEW n, NEW top \in Nat, Sound(n, lo, lo, hi, ht, top),
         NEW x \in DOMAIN n, NEW l, NEW c \in Nat, lo[x] < c, c < hi[x],
         NEW lo2, NEW seen, NEW hi2, NEW ht2,
         CutAt(DOMAIN n, lo, hi, ht, x, l, c, lo2, seen, hi2, ht2),
         NEW n2, DOMAIN n2 = DOMAIN n \cup {l}
  PROVE  Disjoint(n2, lo2, hi2, ht2)
<1> SUFFICES ASSUME NEW y \in DOMAIN n2, NEW z \in DOMAIN n2, ht2[y] = ht2[z], y # z
             PROVE  hi2[y] <= lo2[z] \/ hi2[z] <= lo2[y]
  BY DEF Disjoint
<1>1. \A u \in DOMAIN n : /\ lo[u] \in Nat /\ hi[u] \in Nat /\ lo[u] < hi[u]
                          /\ hi2[u] = hi[u] /\ ht2[u] = ht[u]
                          /\ u # x => lo2[u] = lo[u]
  BY NodeIs, ZenonT(30) DEF CutAt
<1>2. lo2[x] = c /\ lo2[l] = lo[x] /\ hi2[l] = c /\ ht2[l] = ht[x] /\ l \notin DOMAIN n
  BY DEF CutAt
<1>3. \A u, v \in DOMAIN n : ht[u] = ht[v] /\ u # v => hi[u] <= lo[v] \/ hi[v] <= lo[u]
  BY DEF Sound, Disjoint
<1>4. y \in DOMAIN n \/ y = l
  OBVIOUS
<1>5. z \in DOMAIN n \/ z = l
  OBVIOUS
<1>6. CASE y \in DOMAIN n /\ z \in DOMAIN n
  <2>1. hi[y] <= lo[z] \/ hi[z] <= lo[y]
    BY <1>1, <1>3, <1>6
  <2>2. hi2[y] = hi[y] /\ hi2[z] = hi[z] /\ lo[y] <= lo2[y] /\ lo[z] <= lo2[z]
        /\ lo2[y] \in Nat /\ lo2[z] \in Nat
    BY <1>1, <1>2, <1>6
  <2>3. lo[y] \in Nat /\ lo[z] \in Nat /\ hi[y] \in Nat /\ hi[z] \in Nat
    BY <1>1, <1>6
  <2> QED
    BY <2>1, <2>2, <2>3
<1>7. ASSUME NEW u \in DOMAIN n, ht2[u] = ht2[l]
      PROVE  hi2[u] <= lo2[l] \/ hi2[l] <= lo2[u]
  <2>1. CASE u = x
    BY <1>1, <1>2, <2>1
  <2>2. CASE u # x
    <3>1. hi[u] <= lo[x] \/ hi[x] <= lo[u]
      BY <1>1, <1>2, <1>3, <1>7, <2>2
    <3>2. lo[x] \in Nat /\ hi[x] \in Nat /\ lo[u] \in Nat /\ hi[u] \in Nat
      BY <1>1
    <3>3. hi2[u] = hi[u] /\ lo2[u] = lo[u]
      BY <1>1, <2>2
    <3> QED
      BY <1>2, <3>1, <3>2, <3>3
  <2> QED
    BY <2>1, <2>2
<1> QED
  BY <1>4, <1>5, <1>6, <1>7

Kinds(D, ht, n) == \A y \in D : n[y] \in IF ht[y] = 0 THEN LeafNodes ELSE TreeNodes

\* Where children are taken to be has not changed.
Agree(D, seen, hi, ht, seen2, hi2, ht2) ==
  \A z \in D : seen2[z] = seen[z] /\ hi2[z] = hi[z] /\ ht2[z] = ht[z]

LEMMA KidsKept ==
  ASSUME NEW n, NEW lo, NEW seen, NEW hi, NEW ht,
         NEW n2, NEW lo2, NEW seen2, NEW hi2, NEW ht2,
         NEW x \in DOMAIN n, KidsSound(n, lo, seen, hi, ht, x),
         DOMAIN n \subseteq DOMAIN n2, n2[x] = n[x],
         lo2[x] = lo[x], hi2[x] = hi[x],
         Agree(DOMAIN n, seen, hi, ht, seen2, hi2, ht2)
  PROVE  KidsSound(n2, lo2, seen2, hi2, ht2, x)
<1>1. Keyed(n2[x], lo2[x], hi2[x])
  BY DEF KidsSound
<1>2. ht2[x] = ht[x]
  BY DEF Agree
<1>3. ASSUME NEW j \in 1 .. Len(n[x].slots) + 1
      PROVE  /\ Kid(n[x], j) \in DOMAIN n2
             /\ ht2[Kid(n[x], j)] + 1 = ht2[x]
             /\ seen2[Kid(n[x], j)] = Low(n[x], j, lo[x])
             /\ hi2[Kid(n[x], j)] = High(n[x], j, hi[x])
  <2>1. /\ Kid(n[x], j) \in DOMAIN n
        /\ ht[Kid(n[x], j)] + 1 = ht[x]
        /\ seen[Kid(n[x], j)] = Low(n[x], j, lo[x])
        /\ hi[Kid(n[x], j)] = High(n[x], j, hi[x])
    BY DEF KidsSound
  <2> QED
    BY <1>2, <2>1 DEF Agree
<1> QED
  BY <1>1, <1>3 DEF KidsSound

LEMMA CutTyped ==
  ASSUME NEW lo \in [Nat -> Nat], NEW hi \in [Nat -> Nat], NEW ht \in [Nat -> Nat],
         NEW n, NEW top \in Nat, Sound(n, lo, lo, hi, ht, top),
         NEW x \in DOMAIN n, NEW l, NEW c \in Nat, lo[x] < c, c < hi[x],
         NEW lo2, NEW seen, NEW hi2, NEW ht2,
         CutAt(DOMAIN n, lo, hi, ht, x, l, c, lo2, seen, hi2, ht2),
         NEW n2, DOMAIN n2 = DOMAIN n \cup {l},
         Kinds(DOMAIN n, ht, n2),
         n2[l] \in IF ht[x] = 0 THEN LeafNodes ELSE TreeNodes
  PROVE  Typed(n2, lo2, hi2, ht2, top)
<1>1. IsFiniteSet(DOMAIN n) /\ DOMAIN n \subseteq Nat \ {0}
  BY DEF Sound, Typed
<1>2. IsFiniteSet(DOMAIN n2)
  BY <1>1, FS_AddElement
<1>10. l \in Nat \ {0}
  BY DEF CutAt
<1>3. DOMAIN n2 \subseteq Nat \ {0}
  BY <1>1, <1>10
<1>11. \A u \in DOMAIN n : /\ lo[u] \in Nat /\ hi[u] \in Nat /\ lo[u] < hi[u]
                           /\ hi[u] <= INF /\ ht[u] <= top
  BY NodeIs
<1>4. \A u \in DOMAIN n : /\ lo[u] \in Nat /\ hi[u] \in Nat /\ lo[u] < hi[u]
                          /\ hi[u] <= INF /\ ht[u] <= top
                          /\ hi2[u] = hi[u] /\ ht2[u] = ht[u]
                          /\ u # x => lo2[u] = lo[u]
  BY <1>11 DEF CutAt
<1>5. lo2[x] = c /\ lo2[l] = lo[x] /\ hi2[l] = c /\ ht2[l] = ht[x]
  BY DEF CutAt
<1>6. ASSUME NEW y \in DOMAIN n
      PROVE  /\ lo2[y] < hi2[y] /\ hi2[y] <= INF /\ ht2[y] <= top
             /\ n2[y] \in IF ht2[y] = 0 THEN LeafNodes ELSE TreeNodes
  <2>1. lo2[y] < hi2[y] /\ hi2[y] <= INF /\ ht2[y] <= top
    BY <1>4, <1>5
  <2> QED
    BY <1>4, <2>1 DEF Kinds
<1>7. lo2[l] < hi2[l] /\ hi2[l] <= INF /\ ht2[l] <= top
  BY <1>4, <1>5, INFType
<1>8. n2[l] \in IF ht2[l] = 0 THEN LeafNodes ELSE TreeNodes
  BY <1>5
<1>9. \A y \in DOMAIN n2 : y \in DOMAIN n \/ y = l
  OBVIOUS
<1> QED
  BY <1>2, <1>3, <1>6, <1>7, <1>8, <1>9 DEF Typed

\* The leaf x in two halves, with slots s1 at l and s2 at x.
LeafHalves(n, x, l, s1, s2) ==
  [y \in DOMAIN n \cup {l} |->
     IF y = l THEN LeafNode(s1, x, n[x].prev)
     ELSE IF y = x THEN LeafNode(s2, n[x].next, l)
     ELSE IF y = n[x].prev THEN [n[y] EXCEPT !.next = l] ELSE n[y]]

Half(s, a, b) == s \in Seq(Keys) /\ s # <<>> /\ Increasing(s) /\ Within(s, a, b)

LEMMA LeafHalved ==
  ASSUME NEW lo \in [Nat -> Nat], NEW hi \in [Nat -> Nat], NEW ht \in [Nat -> Nat],
         NEW n, NEW top \in Nat, Sound(n, lo, lo, hi, ht, top),
         NEW x \in DOMAIN n, ht[x] = 0, NEW l, NEW c \in Nat, lo[x] < c, c < hi[x],
         NEW lo2, NEW seen, NEW hi2, NEW ht2,
         CutAt(DOMAIN n, lo, hi, ht, x, l, c, lo2, seen, hi2, ht2),
         NEW s1, Half(s1, lo[x], c), NEW s2, Half(s2, c, hi[x])
  PROVE  Sound(LeafHalves(n, x, l, s1, s2), lo2, seen, hi2, ht2, top)
<1> DEFINE n2 == LeafHalves(n, x, l, s1, s2)
           pv == n[x].prev
<1>1. /\ n[x] \in LeafNodes /\ LeafSound(n, lo, hi, ht, top, x)
      /\ x \in Nat /\ lo[x] \in Nat /\ hi[x] \in Nat /\ hi[x] <= INF /\ x # 0
  BY NodeIs
<1>2. l \notin DOMAIN n /\ l \in Nat /\ l # x
  BY DEF CutAt
<1>3. /\ DOMAIN n2 = DOMAIN n \cup {l}
      /\ n2[l] = LeafNode(s1, x, pv) /\ n2[x] = LeafNode(s2, n[x].next, l)
      /\ \A y \in DOMAIN n : y # x /\ y # pv => n2[y] = n[y]
      /\ pv \in DOMAIN n /\ pv # x => n2[pv] = [n[pv] EXCEPT !.next = l]
  BY <1>2 DEF LeafHalves
<1>4. pv \in Nat /\ n[x].next \in Nat
  BY <1>1, LeafNodeIs
<1>5. IF lo[x] = 0 THEN pv = NIL ELSE pv \in DOMAIN n /\ ht[pv] = 0 /\ hi[pv] = lo[x]
  BY <1>1 DEF LeafSound
<1>6. 0 \notin DOMAIN n
  BY DEF Sound, Typed
<1>7. pv \in DOMAIN n => lo[x] # 0 /\ ht[pv] = 0 /\ hi[pv] = lo[x] /\ pv # x
  BY <1>1, <1>5, <1>6 DEF NIL
<1>8. IF hi[x] = INF THEN n[x].next = NIL
      ELSE n[x].next \in DOMAIN n /\ ht[n[x].next] = 0 /\ lo[n[x].next] = hi[x]
  BY <1>1 DEF LeafSound
<1> HIDE DEF n2, pv
<1>9. /\ n2[l] \in LeafNodes /\ n2[l].slots = s1 /\ n2[l].next = x /\ n2[l].prev = pv
      /\ n2[x] \in LeafNodes /\ n2[x].slots = s2 /\ n2[x].next = n[x].next /\ n2[x].prev = l
  BY <1>1, <1>2, <1>3, <1>4 DEF LeafNode, LeafNodes, Half
<1>10. ASSUME pv \in DOMAIN n
       PROVE  /\ n[pv] \in LeafNodes /\ n2[pv] \in LeafNodes /\ n2[pv].slots = n[pv].slots
              /\ n2[pv].next = l /\ n2[pv].prev = n[pv].prev
  <2>1. n[pv] \in LeafNodes /\ n2[pv] = [n[pv] EXCEPT !.next = l]
    BY <1>3, <1>7, <1>10, NodeIs
  <2> QED
    BY <1>2, <2>1 DEF LeafNodes
<1>11. \A y \in DOMAIN n : n2[y] \in IF ht[y] = 0 THEN LeafNodes ELSE TreeNodes
  <2> TAKE y \in DOMAIN n
  <2>1. n[y] \in IF ht[y] = 0 THEN LeafNodes ELSE TreeNodes
    BY NodeIs
  <2>2. CASE y = x
    BY <1>9, <2>2
  <2>3. CASE y = pv
    BY <1>7, <1>10, <2>3
  <2>4. CASE y # x /\ y # pv
    BY <1>3, <2>1, <2>4
  <2> QED
    BY <2>2, <2>3, <2>4
<1>12. n2[l] \in IF ht[x] = 0 THEN LeafNodes ELSE TreeNodes
  BY <1>9
<1>23. Kinds(DOMAIN n, ht, n2) /\ DOMAIN n2 = DOMAIN n \cup {l}
  BY <1>3, <1>11 DEF Kinds
<1>13. Typed(n2, lo2, hi2, ht2, top)
  BY <1>12, <1>23, CutTyped
<1>14. Disjoint(n2, lo2, hi2, ht2)
  BY <1>3, CutDisjoint
<1>15. /\ lo2[x] = c /\ lo2[l] = lo[x] /\ hi2[l] = c /\ ht2[l] = 0 /\ seen[l] = lo[x]
       /\ \A y \in DOMAIN n : /\ hi2[y] = hi[y] /\ ht2[y] = ht[y] /\ seen[y] = lo[y]
                              /\ y # x => lo2[y] = lo[y]
  BY DEF CutAt
<1>16. LeafSound(n2, lo2, hi2, ht2, top, l)
  <2>1. Increasing(s1) /\ Within(s1, lo[x], c) /\ s1 # <<>>
    BY DEF Half
  <2>2. hi2[l] # INF
    BY <1>1, <1>15, INFType
  <2>3. x \in DOMAIN n2 /\ ht2[x] = 0 /\ lo2[x] = hi2[l]
    BY <1>3, <1>15
  <2>4. IF lo2[l] = 0 THEN pv = NIL ELSE pv \in DOMAIN n2 /\ ht2[pv] = 0 /\ hi2[pv] = lo2[l]
    BY <1>3, <1>5, <1>15
  <2> QED
    BY <1>9, <1>15, <2>1, <2>2, <2>3, <2>4 DEF LeafSound
<1>17. LeafSound(n2, lo2, hi2, ht2, top, x)
  <2>1. Increasing(s2) /\ Within(s2, c, hi[x]) /\ s2 # <<>>
    BY DEF Half
  <2>2. lo2[x] # 0
    BY <1>1, <1>15
  <2>3. l \in DOMAIN n2 /\ ht2[l] = 0 /\ hi2[l] = lo2[x]
    BY <1>3, <1>15
  <2>4. n[x].next \in DOMAIN n /\ lo[n[x].next] = hi[x] => n[x].next # x
    BY <1>1
  <2>5. IF hi2[x] = INF THEN n[x].next = NIL
        ELSE n[x].next \in DOMAIN n2 /\ ht2[n[x].next] = 0 /\ lo2[n[x].next] = hi2[x]
    BY <1>3, <1>8, <1>15, <2>4
  <2> QED
    BY <1>9, <1>15, <2>1, <2>2, <2>3, <2>5 DEF LeafSound
<1>18. ASSUME NEW y \in DOMAIN n, y # x, ht[y] = 0
       PROVE  LeafSound(n2, lo2, hi2, ht2, top, y)
  <2>1. /\ LeafSound(n, lo, hi, ht, top, y)
        /\ lo[y] \in Nat /\ hi[y] \in Nat /\ lo[y] < hi[y] /\ hi[y] <= INF
    BY <1>18, NodeIs
  <2>2. lo2[y] = lo[y] /\ hi2[y] = hi[y] /\ ht2[y] = 0
    BY <1>15, <1>18
  <2>3. n2[y].slots = n[y].slots /\ n2[y].prev = n[y].prev
    BY <1>3, <1>10, <1>18
  <2>4. IF lo2[y] = 0 THEN n2[y].prev = NIL
        ELSE n2[y].prev \in DOMAIN n2 /\ ht2[n2[y].prev] = 0 /\ hi2[n2[y].prev] = lo2[y]
    BY <1>3, <1>15, <2>1, <2>2, <2>3, ZenonT(30) DEF LeafSound
  <2>5. IF hi2[y] = INF THEN n2[y].next = NIL
        ELSE n2[y].next \in DOMAIN n2 /\ ht2[n2[y].next] = 0 /\ lo2[n2[y].next] = hi2[y]
    <3>1. CASE y = pv
      <4>1. hi[y] = lo[x] /\ hi[y] # INF
        BY <1>1, <1>7, <3>1
      <4>2. n2[y].next = l
        BY <1>10, <3>1
      <4> QED
        BY <1>3, <1>15, <2>2, <4>1, <4>2
    <3>2. CASE y # pv
      <4>1. n2[y] = n[y]
        BY <1>3, <1>18, <3>2
      <4>2. CASE hi[y] = INF
        BY <2>1, <2>2, <4>1, <4>2 DEF LeafSound
      <4>3. CASE hi[y] # INF
        <5>1. n[y].next \in DOMAIN n /\ ht[n[y].next] = 0 /\ lo[n[y].next] = hi[y]
          BY <2>1, <4>3 DEF LeafSound
        <5>2. n[y].next # x
          <6>1. ASSUME n[y].next = x PROVE FALSE
            <7>1. hi[y] = lo[x] /\ lo[x] # 0
              BY <2>1, <5>1, <6>1
            <7>2. pv \in DOMAIN n /\ ht[pv] = 0 /\ hi[pv] = hi[y]
              BY <1>5, <7>1
            <7>3. For(n, lo, hi, y, hi[y])
              BY <2>1 DEF For
            <7>4. lo[pv] \in Nat /\ hi[pv] \in Nat /\ lo[pv] < hi[pv]
              BY <7>2, NodeIs
            <7>5. For(n, lo, hi, pv, hi[y])
              BY <2>1, <7>2, <7>4 DEF For
            <7>6. ht[y] = ht[pv] /\ hi[y] \in Nat
              BY <1>18, <2>1, <7>2
            <7>7. y = pv
              BY <7>3, <7>5, <7>6, OnlyOneFor
            <7> QED
              BY <3>2, <7>7
          <6> QED
            BY <6>1
        <5> QED
          BY <1>3, <1>15, <2>2, <4>1, <4>3, <5>1, <5>2
      <4> QED
        BY <4>2, <4>3
    <3> QED
      BY <3>1, <3>2
  <2> QED
    BY <2>1, <2>2, <2>3, <2>4, <2>5 DEF LeafSound
<1>19. ASSUME NEW y \in DOMAIN n, ht[y] # 0
       PROVE  KidsSound(n2, lo2, seen, hi2, ht2, y)
  <2>1. KidsSound(n, lo, lo, hi, ht, y)
    BY <1>19, NodeIs
  <2>2. n2[y] = n[y] /\ lo2[y] = lo[y] /\ hi2[y] = hi[y] /\ ht2[y] = ht[y]
    BY <1>3, <1>7, <1>15, <1>19
  <2>3. Agree(DOMAIN n, lo, hi, ht, seen, hi2, ht2) /\ DOMAIN n \subseteq DOMAIN n2
    BY <1>3, <1>15 DEF Agree
  <2> QED
    BY <2>1, <2>2, <2>3, KidsKept
<1>20. \A y \in DOMAIN n2 : y \in DOMAIN n \/ y = l
  BY <1>3
<1>21. ASSUME NEW y \in DOMAIN n2
       PROVE  IF ht2[y] = 0 THEN LeafSound(n2, lo2, hi2, ht2, top, y)
              ELSE KidsSound(n2, lo2, seen, hi2, ht2, y)
  <2>1. CASE y = l
    BY <1>15, <1>16, <2>1
  <2>2. CASE y = x
    BY <1>15, <1>17, <2>2
  <2>3. CASE y \in DOMAIN n /\ y # x
    BY <1>15, <1>18, <1>19, <2>3
  <2> QED
    BY <1>20, <2>1, <2>2, <2>3
<1>22. Sound(n2, lo2, seen, hi2, ht2, top)
  BY <1>13, <1>14, <1>21 DEF Sound
<1> QED
  BY <1>22 DEF n2

LEMMA KeyedSays ==
  ASSUME NEW t \in TreeNodes, NEW a, NEW b, Keyed(t, a, b)
  PROVE  /\ \A i, j \in 1 .. Len(t.slots) : i < j => t.slots[i].key < t.slots[j].key
         /\ \A i \in 1 .. Len(t.slots) : a < t.slots[i].key /\ t.slots[i].key < b
<1>1. /\ Len(t.slots) \in Nat /\ DOMAIN t.slots = 1 .. Len(t.slots)
      /\ KeysOf(t.slots) \in Seq(Nat) /\ Len(KeysOf(t.slots)) = Len(t.slots)
      /\ \A i \in 1 .. Len(t.slots) : KeysOf(t.slots)[i] = t.slots[i].key
  BY TreeNodeIs
<1>2. DOMAIN KeysOf(t.slots) = 1 .. Len(t.slots)
  BY <1>1
<1>3. \A i, j \in 1 .. Len(t.slots) : i < j => KeysOf(t.slots)[i] < KeysOf(t.slots)[j]
  BY <1>2 DEF Keyed, Increasing
<1>4. \A i \in 1 .. Len(t.slots) : a < t.slots[i].key /\ t.slots[i].key < b
  BY <1>1 DEF Keyed
<1> QED
  BY <1>1, <1>3, <1>4

LEMMA KeyedIf ==
  ASSUME NEW t \in TreeNodes, NEW a, NEW b,
         \A i, j \in 1 .. Len(t.slots) : i < j => t.slots[i].key < t.slots[j].key,
         \A i \in 1 .. Len(t.slots) : a < t.slots[i].key /\ t.slots[i].key < b
  PROVE  Keyed(t, a, b)
<1>1. /\ Len(t.slots) \in Nat /\ DOMAIN t.slots = 1 .. Len(t.slots)
      /\ KeysOf(t.slots) \in Seq(Nat) /\ Len(KeysOf(t.slots)) = Len(t.slots)
      /\ \A i \in 1 .. Len(t.slots) : KeysOf(t.slots)[i] = t.slots[i].key
  BY TreeNodeIs
<1>2. DOMAIN KeysOf(t.slots) = 1 .. Len(t.slots)
  BY <1>1
<1>3. Increasing(KeysOf(t.slots))
  BY <1>1, <1>2 DEF Increasing
<1> QED
  BY <1>1, <1>3 DEF Keyed

\* A slot with this key belongs at position j of s.
Place(s, key, j) ==
  /\ j \in 1 .. Len(s) + 1
  /\ \A i \in 1 .. Len(s) : IF i < j THEN s[i].key < key ELSE key < s[i].key

\* T is s with the slot e at position j.
Opened(s, j, e, T) ==
  /\ T \in Seq(Slot) /\ Len(T) = Len(s) + 1
  /\ \A i \in 1 .. Len(s) + 1 :
       T[i] = IF i < j THEN s[i] ELSE IF i = j THEN e ELSE s[i - 1]

LEMMA InsertSlotIs ==
  ASSUME NEW s \in Seq(Slot), NEW key \in Keys, NEW d \in Nat, NEW j, Place(s, key, j)
  PROVE  Opened(s, j, [key |-> key, adr |-> d], InsertSlot(s, key, d))
<1> DEFINE q == KeysOf(s)
           e == [key |-> key, adr |-> d]
<1>1. /\ q \in Seq(Nat) /\ Len(q) = Len(s) /\ Len(s) \in Nat
      /\ \A i \in 1 .. Len(s) : q[i] = s[i].key /\ s[i].key \in Keys
  BY KeysOfIs
<1>2. key \in Nat /\ \A i \in 1 .. Len(s) : s[i].key \in Nat
  BY <1>1, INFType
<1>3. PICK i : i = LowerBound(q, key)
  OBVIOUS
<1>4. FirstAtLeast(q, key, i)
  BY <1>1, <1>2, <1>3, LowerBoundIs
<1>5. j \in 1 .. Len(s) + 1
  BY DEF Place
<1> HIDE DEF q
<1>6. i = j
  <2>1. ASSUME i < j PROVE FALSE
    <3>1. i \in 1 .. Len(s)
      BY <1>1, <1>4, <1>5, <2>1 DEF FirstAtLeast
    <3>2. s[i].key < key /\ q[i] >= key /\ q[i] = s[i].key
      BY <1>1, <1>4, <2>1, <3>1 DEF FirstAtLeast, Place
    <3> QED
      BY <1>2, <3>1, <3>2
  <2>2. ASSUME j < i PROVE FALSE
    <3>1. j \in 1 .. Len(s)
      BY <1>1, <1>4, <1>5, <2>2 DEF FirstAtLeast
    <3>2. key < s[j].key /\ q[j] < key /\ q[j] = s[j].key
      BY <1>1, <1>4, <2>2, <3>1 DEF FirstAtLeast, Place
    <3> QED
      BY <1>2, <3>1, <3>2
  <2>3. i \in Nat /\ j \in Nat
    BY <1>1, <1>4, <1>5 DEF FirstAtLeast
  <2> QED
    BY <2>1, <2>2, <2>3
<1>7. e \in Slot
  BY DEF Slot
<1> HIDE DEF e
<1>8. /\ InsertAt(s, j, e) \in Seq(Slot)
      /\ Len(InsertAt(s, j, e)) = Len(s) + 1
      /\ \A x \in 1 .. Len(s) + 1 :
           InsertAt(s, j, e)[x] = IF x < j THEN s[x] ELSE IF x = j THEN e ELSE s[x - 1]
  BY <1>5, <1>7, InsertAtIs
<1>9. Opened(s, j, e, InsertAt(s, j, e))
  BY <1>8 DEF Opened
<1>10. InsertSlot(s, key, d) = InsertAt(s, j, e)
  BY <1>3, <1>6 DEF InsertSlot, q, e
<1> QED
  BY <1>9, <1>10 DEF e

LEMMA PlaceIs ==
  ASSUME NEW t \in TreeNodes, NEW a \in Nat, NEW b \in Nat, Keyed(t, a, b),
         NEW j \in 1 .. Len(t.slots) + 1, NEW key \in Nat,
         Low(t, j, a) < key, key < High(t, j, b)
  PROVE  Place(t.slots, key, j) /\ a < key /\ key < b
<1>1. /\ Len(t.slots) \in Nat
      /\ \A i \in 1 .. Len(t.slots) : t.slots[i].key \in Nat
  BY TreeNodeIs
<1>2. /\ \A i, m \in 1 .. Len(t.slots) : i < m => t.slots[i].key < t.slots[m].key
      /\ \A i \in 1 .. Len(t.slots) : a < t.slots[i].key /\ t.slots[i].key < b
  BY KeyedSays
<1>3. ASSUME NEW i \in 1 .. Len(t.slots)
      PROVE  IF i < j THEN t.slots[i].key < key ELSE key < t.slots[i].key
  <2>1. CASE i < j
    <3>1. j # 1 /\ j - 1 \in 1 .. Len(t.slots) /\ (i = j - 1 \/ i < j - 1)
      BY <1>1, <2>1
    <3>2. t.slots[j - 1].key < key
      BY <3>1 DEF Low
    <3>3. t.slots[i].key <= t.slots[j - 1].key
      BY <1>1, <1>2, <3>1, SMTT(20)
    <3> QED
      BY <1>1, <2>1, <3>1, <3>2, <3>3, SMTT(20)
  <2>2. CASE ~ (i < j)
    <3>1. j \in 1 .. Len(t.slots) /\ (j = i \/ j < i)
      BY <1>1, <2>2
    <3>2. key < t.slots[j].key
      BY <3>1 DEF High
    <3>3. t.slots[j].key <= t.slots[i].key
      BY <1>1, <1>2, <3>1
    <3> QED
      BY <1>1, <2>2, <3>1, <3>2, <3>3
  <2> QED
    BY <2>1, <2>2
<1>4. Low(t, j, a) \in Nat /\ a <= Low(t, j, a)
  BY <1>1, <1>2 DEF Low
<1>5. High(t, j, b) \in Nat /\ High(t, j, b) <= b
  BY <1>1, <1>2 DEF High
<1>6. a < key /\ key < b
  BY <1>4, <1>5
<1> QED
  BY <1>3, <1>6 DEF Place

\* How the children of T are those of t with d before the j-th.
KidsOpened(t, T, j, key, d, a, b) ==
  \A i \in 1 .. Len(T.slots) + 1 :
    /\ Kid(T, i) = IF i < j THEN Kid(t, i) ELSE IF i = j THEN d ELSE Kid(t, i - 1)
    /\ Low(T, i, a) = IF i <= j THEN Low(t, i, a)
                      ELSE IF i = j + 1 THEN key ELSE Low(t, i - 1, a)
    /\ High(T, i, b) = IF i < j THEN High(t, i, b)
                       ELSE IF i = j THEN key ELSE High(t, i - 1, b)

LEMMA KidsOpenedIs ==
  ASSUME NEW t \in TreeNodes, NEW a \in Nat, NEW b \in Nat, Keyed(t, a, b),
         NEW j \in 1 .. Len(t.slots) + 1, NEW key \in Nat, NEW d \in Nat,
         Low(t, j, a) < key, key < High(t, j, b),
         NEW T \in TreeNodes, T.last = t.last,
         Opened(t.slots, j, [key |-> key, adr |-> d], T.slots)
  PROVE  Keyed(T, a, b) /\ KidsOpened(t, T, j, key, d, a, b)
<1>1. /\ Len(t.slots) \in Nat
      /\ \A i \in 1 .. Len(t.slots) : t.slots[i].key \in Nat
  BY TreeNodeIs
<1>2. /\ \A i, m \in 1 .. Len(t.slots) : i < m => t.slots[i].key < t.slots[m].key
      /\ \A i \in 1 .. Len(t.slots) : a < t.slots[i].key /\ t.slots[i].key < b
  BY KeyedSays
<1>3. Place(t.slots, key, j) /\ a < key /\ key < b
  BY PlaceIs
<1>4. \A i \in 1 .. Len(t.slots) : IF i < j THEN t.slots[i].key < key ELSE key < t.slots[i].key
  BY <1>3 DEF Place
<1>5. /\ Len(T.slots) = Len(t.slots) + 1
      /\ \A i \in 1 .. Len(t.slots) + 1 :
           T.slots[i] = IF i < j THEN t.slots[i]
                        ELSE IF i = j THEN [key |-> key, adr |-> d] ELSE t.slots[i - 1]
  BY DEF Opened
<1>6. \A i \in 1 .. Len(t.slots) + 1 :
        /\ T.slots[i].key = IF i < j THEN t.slots[i].key
                            ELSE IF i = j THEN key ELSE t.slots[i - 1].key
        /\ T.slots[i].adr = IF i < j THEN t.slots[i].adr
                            ELSE IF i = j THEN d ELSE t.slots[i - 1].adr
  BY <1>5
<1>7. ASSUME NEW i \in 1 .. Len(T.slots), NEW m \in 1 .. Len(T.slots), i < m
      PROVE  T.slots[i].key < T.slots[m].key
  <2>1. i \in Nat /\ m \in Nat /\ i \in 1 .. Len(t.slots) + 1 /\ m \in 1 .. Len(t.slots) + 1
    BY <1>1, <1>5
  <2>2. CASE m < j
    <3>1. i \in 1 .. Len(t.slots) /\ m \in 1 .. Len(t.slots) /\ i < j
      BY <1>1, <1>7, <2>1, <2>2
    <3> QED
      BY <1>2, <1>6, <1>7, <2>1, <2>2, <3>1
  <2>3. CASE m = j
    <3>1. i \in 1 .. Len(t.slots) /\ i < j
      BY <1>1, <1>7, <2>1, <2>3
    <3> QED
      BY <1>4, <1>6, <2>1, <2>3, <3>1, SMTT(20)
  <2>4. CASE m > j
    <3>1. m - 1 \in 1 .. Len(t.slots) /\ ~ (m - 1 < j) /\ T.slots[m].key = t.slots[m - 1].key
      BY <1>1, <1>6, <2>1, <2>4
    <3>2. CASE i < j
      <4>1. i \in 1 .. Len(t.slots) /\ i < m - 1
        BY <1>1, <2>1, <2>4, <3>2
      <4> QED
        BY <1>2, <1>6, <2>1, <3>1, <3>2, <4>1
    <3>3. CASE i = j
      <4>1. T.slots[i].key = key /\ key < t.slots[m - 1].key
        BY <1>4, <1>6, <2>1, <3>1, <3>3
      <4> QED
        BY <3>1, <4>1
    <3>4. CASE i > j
      <4>1. i - 1 \in 1 .. Len(t.slots) /\ i - 1 < m - 1 /\ T.slots[i].key = t.slots[i - 1].key
        BY <1>1, <1>6, <1>7, <2>1, <3>4
      <4> QED
        BY <1>2, <3>1, <4>1
    <3> QED
      BY <2>1, <3>2, <3>3, <3>4
  <2> QED
    BY <2>1, <2>2, <2>3, <2>4
<1>8. ASSUME NEW i \in 1 .. Len(T.slots)
      PROVE  a < T.slots[i].key /\ T.slots[i].key < b
  <2>1. CASE i < j
    <3>1. i \in 1 .. Len(t.slots) /\ T.slots[i].key = t.slots[i].key
      BY <1>1, <1>5, <1>6, <2>1
    <3> QED
      BY <1>2, <3>1
  <2>2. CASE i = j
    BY <1>3, <1>5, <1>6, <2>2
  <2>3. CASE i > j
    <3>1. i - 1 \in 1 .. Len(t.slots) /\ T.slots[i].key = t.slots[i - 1].key
      BY <1>1, <1>5, <1>6, <2>3
    <3> QED
      BY <1>2, <3>1
  <2> QED
    BY <1>1, <1>5, <2>1, <2>2, <2>3
<1>9. Keyed(T, a, b)
  BY <1>7, <1>8, KeyedIf
<1>10. ASSUME NEW i \in 1 .. Len(T.slots) + 1
       PROVE  /\ Kid(T, i) = IF i < j THEN Kid(t, i) ELSE IF i = j THEN d ELSE Kid(t, i - 1)
              /\ Low(T, i, a) = IF i <= j THEN Low(t, i, a)
                                ELSE IF i = j + 1 THEN key ELSE Low(t, i - 1, a)
              /\ High(T, i, b) = IF i < j THEN High(t, i, b)
                                 ELSE IF i = j THEN key ELSE High(t, i - 1, b)
  <2>1. i \in Nat /\ j \in Nat /\ j <= Len(t.slots) + 1 /\ i <= Len(t.slots) + 2 /\ 1 <= i
    BY <1>1, <1>5
  <2>2. Kid(T, i) = IF i < j THEN Kid(t, i) ELSE IF i = j THEN d ELSE Kid(t, i - 1)
    BY <1>1, <1>5, <1>6, <2>1 DEF Kid
  <2>3. Low(T, i, a) = IF i <= j THEN Low(t, i, a)
                       ELSE IF i = j + 1 THEN key ELSE Low(t, i - 1, a)
    <3>1. CASE i = 1
      BY <2>1, <3>1 DEF Low
    <3>2. CASE i # 1
      <4>1. i - 1 \in 1 .. Len(t.slots) + 1
        BY <1>1, <2>1, <3>2
      <4>2. T.slots[i - 1].key = IF i - 1 < j THEN t.slots[i - 1].key
                                 ELSE IF i - 1 = j THEN key ELSE t.slots[i - 1 - 1].key
        BY <1>6, <4>1
      <4>3. i > j + 1 => i - 1 # 1
        BY <2>1
      <4> QED
        BY <2>1, <3>2, <4>2, <4>3 DEF Low
    <3> QED
      BY <3>1, <3>2
  <2>4. High(T, i, b) = IF i < j THEN High(t, i, b)
                        ELSE IF i = j THEN key ELSE High(t, i - 1, b)
    BY <1>1, <1>5, <1>6, <2>1 DEF High
  <2> QED
    BY <2>2, <2>3, <2>4
<1> QED
  BY <1>9, <1>10 DEF KidsOpened

\* Node x has been split and its parent does not know yet of d, which is left
\* of it, for the keys up to c.
Pend(n, lo, seen, hi, ht, x, d, c) ==
  /\ x \in DOMAIN n /\ d \in DOMAIN n /\ x # d /\ ht[d] = ht[x] /\ c \in Keys
  /\ hi[d] = c /\ lo[x] = c /\ seen[x] = lo[d]
  /\ \A y \in DOMAIN n : y # x => seen[y] = lo[y]

\* One node is t now.
Swapped(n, x, t, n2) ==
  DOMAIN n2 = DOMAIN n /\ n2[x] = t /\ \A y \in DOMAIN n : y # x => n2[y] = n[y]

LEMMA LeafKept ==
  ASSUME NEW n, NEW lo, NEW hi, NEW ht, NEW top, NEW n2, DOMAIN n2 = DOMAIN n,
         NEW y \in DOMAIN n, n2[y] = n[y], LeafSound(n, lo, hi, ht, top, y)
  PROVE  LeafSound(n2, lo, hi, ht, top, y)
BY DEF LeafSound

LEMMA Between ==
  ASSUME NEW m \in Nat, NEW a \in Nat, NEW b \in Nat, m <= a, a < b
  PROVE  m < b
OBVIOUS

\* x is the i-th child of tree node y.
IsKid(n, ht, y, i, x) ==
  y \in DOMAIN n /\ ht[y] # 0 /\ i \in 1 .. Len(n[y].slots) + 1 /\ Kid(n[y], i) = x

\* Only its parent has x as a child, and once.
LEMMA OneParent ==
  ASSUME NEW lo \in [Nat -> Nat], NEW hi \in [Nat -> Nat], NEW ht \in [Nat -> Nat],
         NEW seen \in [Nat -> Nat], NEW n, NEW top \in Nat,
         Sound(n, lo, seen, hi, ht, top),
         NEW x, NEW y, NEW z, NEW i, NEW j,
         IsKid(n, ht, y, i, x), IsKid(n, ht, z, j, x)
  PROVE  y = z /\ i = j
<1>16. /\ y \in DOMAIN n /\ ht[y] # 0 /\ z \in DOMAIN n /\ ht[z] # 0
       /\ i \in 1 .. Len(n[y].slots) + 1 /\ j \in 1 .. Len(n[z].slots) + 1
       /\ x = Kid(n[y], i) /\ x = Kid(n[z], j)
  BY DEF IsKid
<1>1. /\ n[y] \in TreeNodes /\ KidsSound(n, lo, seen, hi, ht, y) /\ Keyed(n[y], lo[y], hi[y])
      /\ lo[y] \in Nat /\ hi[y] \in Nat /\ lo[y] < hi[y] /\ ht[y] \in Nat
  BY <1>16, NodeIs, ZenonT(30)
<1>2. /\ n[z] \in TreeNodes /\ KidsSound(n, lo, seen, hi, ht, z) /\ Keyed(n[z], lo[z], hi[z])
      /\ lo[z] \in Nat /\ hi[z] \in Nat /\ lo[z] < hi[z] /\ ht[z] \in Nat
  BY <1>16, NodeIs, ZenonT(30)
<1>3. PICK a, b : a = Low(n[y], i, lo[y]) /\ b = High(n[y], i, hi[y])
  OBVIOUS
<1>4. /\ x \in DOMAIN n /\ ht[x] + 1 = ht[y] /\ seen[x] = a /\ hi[x] = b
  BY <1>1, <1>3, <1>16 DEF KidsSound
<1>5. /\ ht[x] + 1 = ht[z] /\ a = Low(n[z], j, lo[z]) /\ b = High(n[z], j, hi[z])
  BY <1>2, <1>4, <1>16 DEF KidsSound
<1>6. a \in Nat /\ b \in Nat /\ lo[y] <= a /\ a < b /\ b <= hi[y]
  BY <1>1, <1>3, <1>16, KidsInside
<1>7. lo[z] <= a /\ b <= hi[z]
  BY <1>2, <1>5, <1>16, KidsInside
<1>8. lo[y] < b /\ lo[z] < b
  <2>1. lo[y] \in Nat /\ lo[z] \in Nat
    BY <1>1, <1>2
  <2>2. lo[y] < b
    BY <1>6, <2>1, Between
  <2>3. lo[z] < b
    BY <1>6, <1>7, <2>1, Between
  <2> QED
    BY <2>2, <2>3
<1>9. For(n, lo, hi, y, b) /\ For(n, lo, hi, z, b)
  BY <1>6, <1>7, <1>8, <1>16 DEF For
<1>10. ht[y] = ht[z]
  BY <1>4, <1>5
<1>11. y = z
  BY <1>6, <1>9, <1>10, OnlyOneFor
<1>12. ASSUME i < j PROVE FALSE
  <2>1. j \in 1 .. Len(n[y].slots) + 1
    BY <1>11, <1>16
  <2>2. High(n[y], i, hi[y]) <= Low(n[y], j, lo[y])
    BY <1>1, <1>12, <1>16, <2>1, KidsApart
  <2>3. b <= a
    BY <1>3, <1>5, <1>11, <2>2
  <2> QED
    BY <1>6, <2>3
<1>13. ASSUME j < i PROVE FALSE
  <2>1. j \in 1 .. Len(n[y].slots) + 1
    BY <1>11, <1>16
  <2>2. High(n[y], j, hi[y]) <= Low(n[y], i, lo[y])
    BY <1>1, <1>13, <1>16, <2>1, KidsApart
  <2>3. b <= a
    BY <1>3, <1>5, <1>11, <2>2
  <2> QED
    BY <1>6, <2>3
<1>14. i \in Nat /\ j \in Nat
  BY <1>16
<1>15. i = j
  BY <1>12, <1>13, <1>14
<1> QED
  BY <1>11, <1>15

LEMMA Shifted ==
  ASSUME NEW L \in Nat, NEW i \in 1 .. L + 2, NEW j \in 1 .. L + 1
  PROVE  /\ i < j => i \in 1 .. L + 1 /\ i # j /\ i <= j
         /\ i = j => ~ (i < j) /\ i <= j
         /\ i = j + 1 => i - 1 = j /\ ~ (i < j) /\ i # j /\ ~ (i <= j)
         /\ i > j + 1 => /\ i - 1 \in 1 .. L + 1 /\ i - 1 # j /\ i # j + 1
                         /\ ~ (i < j) /\ i # j /\ ~ (i <= j)
         /\ i < j \/ i = j \/ i = j + 1 \/ i > j + 1
OBVIOUS

\* T is the tree node t with d as its j-th child, up to key.
Widened(t, T, j, key, d) ==
  /\ T \in TreeNodes /\ T.last = t.last
  /\ Opened(t.slots, j, [key |-> key, adr |-> d], T.slots)

\* When the parent is told of the split the tree is sound again.
LEMMA KidInserted ==
  ASSUME NEW lo \in [Nat -> Nat], NEW hi \in [Nat -> Nat], NEW ht \in [Nat -> Nat],
         NEW seen \in [Nat -> Nat], NEW n, NEW top \in Nat,
         Sound(n, lo, seen, hi, ht, top), NEW x, NEW d, NEW key,
         Pend(n, lo, seen, hi, ht, x, d, key),
         NEW id, NEW j, IsKid(n, ht, id, j, x),
         NEW T, Widened(n[id], T, j, key, d),
         NEW n1, Swapped(n, id, T, n1)
  PROVE  Sound(n1, lo, lo, hi, ht, top)
<1>0. /\ id \in DOMAIN n /\ ht[id] # 0
      /\ j \in 1 .. Len(n[id].slots) + 1 /\ Kid(n[id], j) = x
  BY DEF IsKid
<1>1. /\ n[id] \in TreeNodes /\ KidsSound(n, lo, seen, hi, ht, id)
      /\ Keyed(n[id], lo[id], hi[id])
      /\ lo[id] \in Nat /\ hi[id] \in Nat /\ lo[id] < hi[id]
  BY <1>0, NodeIs
<1>2. /\ x \in DOMAIN n /\ d \in DOMAIN n /\ x # d /\ ht[d] = ht[x] /\ key \in Keys
      /\ hi[d] = key /\ lo[x] = key /\ seen[x] = lo[d]
      /\ \A y \in DOMAIN n : y # x => seen[y] = lo[y]
  BY DEF Pend
<1>3. /\ seen[x] = Low(n[id], j, lo[id]) /\ hi[x] = High(n[id], j, hi[id])
      /\ ht[x] + 1 = ht[id]
  BY <1>0, <1>1 DEF KidsSound
<1>4. lo[d] < hi[d] /\ lo[x] < hi[x] /\ d \in Nat /\ key \in Nat
  BY <1>2, NodeIs, INFType
<1>5. Low(n[id], j, lo[id]) < key /\ key < High(n[id], j, hi[id])
  BY <1>2, <1>3, <1>4
<1>16. /\ T \in TreeNodes /\ T.last = n[id].last
       /\ Opened(n[id].slots, j, [key |-> key, adr |-> d], T.slots)
  BY DEF Widened
<1>6. Keyed(T, lo[id], hi[id]) /\ KidsOpened(n[id], T, j, key, d, lo[id], hi[id])
  BY <1>0, <1>1, <1>4, <1>5, <1>16, KidsOpenedIs
<1>7. DOMAIN n1 = DOMAIN n /\ n1[id] = T /\ \A y \in DOMAIN n : y # id => n1[y] = n[y]
  BY DEF Swapped
<1>8. Len(T.slots) = Len(n[id].slots) + 1 /\ Len(n[id].slots) \in Nat
  BY <1>0, <1>1, <1>16, TreeNodeIs DEF Opened
<1>17. ASSUME NEW y, NEW i, IsKid(n, ht, y, i, x)
       PROVE  y = id /\ i = j
  BY <1>17, OneParent, SMTT(20)
<1>18. ASSUME NEW y, NEW i, NEW z, IsKid(n, ht, y, i, z), y # id \/ i # j
       PROVE  /\ z \in DOMAIN n /\ ht[z] + 1 = ht[y]
              /\ lo[z] = Low(n[y], i, lo[y]) /\ hi[z] = High(n[y], i, hi[y])
  <2>1. /\ y \in DOMAIN n /\ ht[y] # 0 /\ i \in 1 .. Len(n[y].slots) + 1
        /\ Kid(n[y], i) = z
    BY <1>18 DEF IsKid
  <2>2. KidsSound(n, lo, seen, hi, ht, y)
    BY <2>1, NodeIs
  <2>3. /\ z \in DOMAIN n /\ ht[z] + 1 = ht[y]
        /\ seen[z] = Low(n[y], i, lo[y]) /\ hi[z] = High(n[y], i, hi[y])
    BY <2>1, <2>2 DEF KidsSound
  <2>4. z # x
    BY <1>17, <1>18
  <2> QED
    BY <1>2, <2>3, <2>4
<1>9. ASSUME NEW y \in DOMAIN n, ht[y] # 0, NEW i \in 1 .. Len(n[y].slots) + 1,
             y # id \/ i # j
      PROVE  /\ Kid(n[y], i) \in DOMAIN n /\ ht[Kid(n[y], i)] + 1 = ht[y]
             /\ lo[Kid(n[y], i)] = Low(n[y], i, lo[y])
             /\ hi[Kid(n[y], i)] = High(n[y], i, hi[y])
  <2>1. IsKid(n, ht, y, i, Kid(n[y], i))
    BY <1>9 DEF IsKid
  <2> QED
    BY <1>9, <1>18, <2>1
<1>10. ASSUME NEW y \in DOMAIN n, ht[y] # 0, y # id
       PROVE  KidsSound(n1, lo, lo, hi, ht, y)
  <2>1. Keyed(n[y], lo[y], hi[y])
    BY <1>10, NodeIs
  <2>2. n1[y] = n[y]
    BY <1>7, <1>10
  <2>3. \A i \in 1 .. Len(n[y].slots) + 1 :
           /\ Kid(n[y], i) \in DOMAIN n1 /\ ht[Kid(n[y], i)] + 1 = ht[y]
           /\ lo[Kid(n[y], i)] = Low(n[y], i, lo[y])
           /\ hi[Kid(n[y], i)] = High(n[y], i, hi[y])
    BY <1>7, <1>9, <1>10
  <2> QED
    BY <2>1, <2>2, <2>3 DEF KidsSound
<1>11. ASSUME NEW i \in 1 .. Len(T.slots) + 1
       PROVE  /\ Kid(T, i) \in DOMAIN n /\ ht[Kid(T, i)] + 1 = ht[id]
              /\ lo[Kid(T, i)] = Low(T, i, lo[id])
              /\ hi[Kid(T, i)] = High(T, i, hi[id])
  <2>1. /\ Kid(T, i) = IF i < j THEN Kid(n[id], i) ELSE IF i = j THEN d ELSE Kid(n[id], i - 1)
        /\ Low(T, i, lo[id]) = IF i <= j THEN Low(n[id], i, lo[id])
                               ELSE IF i = j + 1 THEN key ELSE Low(n[id], i - 1, lo[id])
        /\ High(T, i, hi[id]) = IF i < j THEN High(n[id], i, hi[id])
                                ELSE IF i = j THEN key ELSE High(n[id], i - 1, hi[id])
    BY <1>6 DEF KidsOpened
  <2>2. i \in 1 .. Len(n[id].slots) + 2 /\ j \in 1 .. Len(n[id].slots) + 1
    <3>1. Len(T.slots) + 1 = Len(n[id].slots) + 2
      BY <1>8
    <3> QED
      BY <1>0, <3>1
  <2>3. CASE i < j
    <3>1. i \in 1 .. Len(n[id].slots) + 1 /\ i # j /\ i <= j
      BY <1>8, <2>2, <2>3, Shifted
    <3> QED
      BY <1>0, <1>9, <2>1, <2>3, <3>1
  <2>4. CASE i = j
    <3>1. ~ (i < j) /\ i <= j
      BY <1>8, <2>2, <2>4, Shifted
    <3> QED
      BY <1>2, <1>3, <2>1, <2>4, <3>1
  <2>5. CASE i = j + 1
    <3>1. i - 1 = j /\ ~ (i < j) /\ i # j /\ ~ (i <= j)
      BY <1>8, <2>2, <2>5, Shifted
    <3> QED
      BY <1>0, <1>2, <1>3, <2>1, <2>5, <3>1
  <2>6. CASE i > j + 1
    <3>1. /\ i - 1 \in 1 .. Len(n[id].slots) + 1 /\ i - 1 # j /\ i # j + 1
          /\ ~ (i < j) /\ i # j /\ ~ (i <= j)
      BY <1>8, <2>2, <2>6, Shifted
    <3> QED
      BY <1>0, <1>9, <2>1, <2>6, <3>1
  <2> QED
    BY <1>8, <2>2, <2>3, <2>4, <2>5, <2>6, Shifted
<1>12. KidsSound(n1, lo, lo, hi, ht, id)
  BY <1>0, <1>6, <1>7, <1>11 DEF KidsSound
<1>13. Typed(n1, lo, hi, ht, top)
  <2>1. T \in IF ht[id] = 0 THEN LeafNodes ELSE TreeNodes
    BY <1>0, <1>16
  <2> QED
    BY <1>0, <1>7, <2>1 DEF Sound, Typed
<1>14. Disjoint(n1, lo, hi, ht)
  BY <1>7 DEF Sound, Disjoint
<1>15. ASSUME NEW y \in DOMAIN n, ht[y] = 0
       PROVE  LeafSound(n1, lo, hi, ht, top, y)
  <2>1. LeafSound(n, lo, hi, ht, top, y)
    BY <1>15, NodeIs
  <2> QED
    BY <1>0, <1>7, <1>15, <2>1, LeafKept
<1> QED
  BY <1>7, <1>10, <1>12, <1>13, <1>14, <1>15 DEF Sound

\* The tree node t is cut at its q-th slot: tl has what is before, tr what is
\* after it.
Parted(t, q, tl, tr) ==
  /\ tl \in TreeNodes /\ tr \in TreeNodes /\ q \in 1 .. Len(t.slots)
  /\ Len(tl.slots) = q - 1 /\ tl.last = t.slots[q].adr
  /\ Len(tr.slots) = Len(t.slots) - q /\ tr.last = t.last
  /\ \A i \in 1 .. q - 1 : tl.slots[i] = t.slots[i]
  /\ \A i \in 1 .. Len(t.slots) - q : tr.slots[i] = t.slots[q + i]

LEMMA AfterCut ==
  ASSUME NEW L \in Nat, NEW q \in 1 .. L, NEW i \in 1 .. (L - q) + 1
  PROVE  /\ q + i \in 1 .. L + 1 /\ q + i # 1 /\ i \in Nat /\ q \in Nat /\ q < q + i
         /\ i \in 1 .. L - q => q + i \in 1 .. L
OBVIOUS

PartsKids(t, q, tl, tr, a, b, c) ==
  /\ c \in Keys /\ a < c /\ c < b
  /\ Keyed(tl, a, c) /\ Keyed(tr, c, b)
  /\ \A i \in 1 .. Len(tl.slots) + 1 :
       /\ i \in 1 .. Len(t.slots) + 1 /\ Kid(tl, i) = Kid(t, i)
       /\ Low(tl, i, a) = Low(t, i, a) /\ High(tl, i, c) = High(t, i, b)
  /\ \A i \in 1 .. Len(tr.slots) + 1 :
       /\ q + i \in 1 .. Len(t.slots) + 1 /\ Kid(tr, i) = Kid(t, q + i)
       /\ Low(tr, i, c) = Low(t, q + i, a) /\ High(tr, i, b) = High(t, q + i, b)

LEMMA PartedKids ==
  ASSUME NEW t \in TreeNodes, NEW a \in Nat, NEW b \in Nat, Keyed(t, a, b),
         NEW q, NEW tl, NEW tr, Parted(t, q, tl, tr), NEW c, c = t.slots[q].key
  PROVE  PartsKids(t, q, tl, tr, a, b, c)
<1>1. /\ Len(t.slots) \in Nat
      /\ \A i \in 1 .. Len(t.slots) : t.slots[i].key \in Nat /\ t.slots[i].key \in Keys
  BY TreeNodeIs
<1>2. /\ \A i, j \in 1 .. Len(t.slots) : i < j => t.slots[i].key < t.slots[j].key
      /\ \A i \in 1 .. Len(t.slots) : a < t.slots[i].key /\ t.slots[i].key < b
  BY KeyedSays
<1>3. /\ tl \in TreeNodes /\ tr \in TreeNodes /\ q \in 1 .. Len(t.slots)
      /\ Len(tl.slots) = q - 1 /\ tl.last = t.slots[q].adr
      /\ Len(tr.slots) = Len(t.slots) - q /\ tr.last = t.last
      /\ \A i \in 1 .. q - 1 : tl.slots[i] = t.slots[i]
      /\ \A i \in 1 .. Len(t.slots) - q : tr.slots[i] = t.slots[q + i]
  BY DEF Parted
<1>4. c \in Keys /\ c \in Nat /\ a < c /\ c < b
  BY <1>1, <1>2, <1>3
<1>5. Keyed(tl, a, c)
  <2>1. \A i \in 1 .. Len(tl.slots) : i \in 1 .. Len(t.slots) /\ tl.slots[i] = t.slots[i] /\ i < q
    BY <1>1, <1>3
  <2>2. \A i, j \in 1 .. Len(tl.slots) : i < j => tl.slots[i].key < tl.slots[j].key
    BY <1>2, <2>1
  <2>3. \A i \in 1 .. Len(tl.slots) : a < tl.slots[i].key /\ tl.slots[i].key < c
    BY <1>2, <1>3, <2>1
  <2> QED
    BY <1>3, <2>2, <2>3, KeyedIf
<1>6. Keyed(tr, c, b)
  <2>1. \A i \in 1 .. Len(tr.slots) : q + i \in 1 .. Len(t.slots) /\ tr.slots[i] = t.slots[q + i] /\ q < q + i
    <3> TAKE i \in 1 .. Len(tr.slots)
    <3>1. i \in 1 .. Len(t.slots) - q
      BY <1>3
    <3>2. i \in 1 .. (Len(t.slots) - q) + 1
      BY <1>1, <1>3, <3>1
    <3>3. q + i \in 1 .. Len(t.slots) /\ q < q + i
      BY <1>1, <1>3, <3>1, <3>2, AfterCut
    <3>4. tr.slots[i] = t.slots[q + i]
      BY <1>3, <3>1
    <3> QED
      BY <3>3, <3>4
  <2>2. \A i, j \in 1 .. Len(tr.slots) : i < j => tr.slots[i].key < tr.slots[j].key
    <3> TAKE i, j \in 1 .. Len(tr.slots)
    <3> HAVE i < j
    <3>1. q + i < q + j
      BY <1>3
    <3> QED
      BY <1>2, <2>1, <3>1
  <2>3. \A i \in 1 .. Len(tr.slots) : c < tr.slots[i].key /\ tr.slots[i].key < b
    BY <1>2, <1>3, <2>1
  <2> QED
    BY <1>3, <2>2, <2>3, KeyedIf
<1>7. ASSUME NEW i \in 1 .. Len(tl.slots) + 1
      PROVE  /\ i \in 1 .. Len(t.slots) + 1 /\ Kid(tl, i) = Kid(t, i)
             /\ Low(tl, i, a) = Low(t, i, a) /\ High(tl, i, c) = High(t, i, b)
  <2>1. i \in 1 .. q /\ i \in 1 .. Len(t.slots) /\ (i < q \/ i = q)
    BY <1>1, <1>3
  <2>2. i < q => i <= Len(tl.slots) /\ tl.slots[i] = t.slots[i]
    BY <1>1, <1>3, <2>1
  <2>3. i = q => ~ (i <= Len(tl.slots))
    BY <1>1, <1>3, <2>1
  <2>4. Kid(tl, i) = Kid(t, i)
    BY <1>3, <2>1, <2>2, <2>3 DEF Kid
  <2>5. High(tl, i, c) = High(t, i, b)
    BY <2>1, <2>2, <2>3 DEF High
  <2>6. i # 1 => i - 1 \in 1 .. q - 1
    BY <1>1, <1>3, <2>1
  <2>7. Low(tl, i, a) = Low(t, i, a)
    BY <1>3, <2>6 DEF Low
  <2>8. i \in 1 .. Len(t.slots) + 1
    BY <1>1, <2>1
  <2> QED
    BY <2>4, <2>5, <2>7, <2>8
<1>8. ASSUME NEW i \in 1 .. Len(tr.slots) + 1
      PROVE  /\ q + i \in 1 .. Len(t.slots) + 1 /\ Kid(tr, i) = Kid(t, q + i)
             /\ Low(tr, i, c) = Low(t, q + i, a) /\ High(tr, i, b) = High(t, q + i, b)
  <2>1. q + i \in 1 .. Len(t.slots) + 1 /\ q + i # 1 /\ i \in Nat /\ q \in Nat
    <3>1. i \in 1 .. (Len(t.slots) - q) + 1
      BY <1>3
    <3> QED
      BY <1>1, <1>3, <3>1, AfterCut
  <2>2. i <= Len(tr.slots) => q + i <= Len(t.slots) /\ tr.slots[i] = t.slots[q + i]
    BY <1>1, <1>3
  <2>3. ~ (i <= Len(tr.slots)) => ~ (q + i <= Len(t.slots))
    BY <1>1, <1>3
  <2>4. Kid(tr, i) = Kid(t, q + i)
    BY <1>3, <2>2, <2>3 DEF Kid
  <2>5. High(tr, i, b) = High(t, q + i, b)
    BY <2>2, <2>3 DEF High
  <2>6. i # 1 => i - 1 \in 1 .. Len(t.slots) - q /\ q + (i - 1) = q + i - 1
    BY <1>1, <1>3, SMTT(20)
  <2>7. i # 1 => tr.slots[i - 1] = t.slots[q + i - 1]
    <3>1. i # 1 => tr.slots[i - 1] = t.slots[q + (i - 1)]
      BY <1>3, <2>6
    <3> QED
      BY <2>6, <3>1
  <2>8. i = 1 => q + i - 1 = q
    BY <2>1
  <2>9. Low(tr, i, c) = Low(t, q + i, a)
    BY <2>1, <2>7, <2>8 DEF Low
  <2> QED
    BY <2>1, <2>4, <2>5, <2>9
<1> QED
  BY <1>4, <1>5, <1>6, <1>7, <1>8 DEF PartsKids

\* Node id of n has been cut in tl, at l, and tr.
Halved(n, id, l, tl, tr, n2) ==
  /\ DOMAIN n2 = DOMAIN n \cup {l} /\ n2[l] = tl /\ n2[id] = tr
  /\ \A y \in DOMAIN n : y # id => n2[y] = n[y]

LEMMA TreeHalved ==
  ASSUME NEW lo \in [Nat -> Nat], NEW hi \in [Nat -> Nat], NEW ht \in [Nat -> Nat],
         NEW n, NEW top \in Nat, Sound(n, lo, lo, hi, ht, top),
         NEW id \in DOMAIN n, ht[id] # 0,
         NEW q, NEW tl, NEW tr, Parted(n[id], q, tl, tr),
         NEW l, NEW lo2, NEW seen, NEW hi2, NEW ht2,
         CutAt(DOMAIN n, lo, hi, ht, id, l, n[id].slots[q].key, lo2, seen, hi2, ht2),
         NEW n2, Halved(n, id, l, tl, tr, n2)
  PROVE  /\ Sound(n2, lo2, seen, hi2, ht2, top)
         /\ Pend(n2, lo2, seen, hi2, ht2, id, l, n[id].slots[q].key)
<1>1. PICK t, c : t = n[id] /\ c = n[id].slots[q].key
  OBVIOUS
<1>2. /\ t \in TreeNodes /\ KidsSound(n, lo, lo, hi, ht, id)
      /\ Keyed(t, lo[id], hi[id]) /\ id \in Nat
      /\ lo[id] \in Nat /\ hi[id] \in Nat /\ lo[id] < hi[id]
  BY <1>1, NodeIs
<1>3. Parted(t, q, tl, tr) /\ c = t.slots[q].key
  BY <1>1
<1>4. /\ c \in Keys /\ lo[id] < c /\ c < hi[id]
      /\ Keyed(tl, lo[id], c) /\ Keyed(tr, c, hi[id])
      /\ \A i \in 1 .. Len(tl.slots) + 1 :
           /\ i \in 1 .. Len(t.slots) + 1 /\ Kid(tl, i) = Kid(t, i)
           /\ Low(tl, i, lo[id]) = Low(t, i, lo[id]) /\ High(tl, i, c) = High(t, i, hi[id])
      /\ \A i \in 1 .. Len(tr.slots) + 1 :
           /\ q + i \in 1 .. Len(t.slots) + 1 /\ Kid(tr, i) = Kid(t, q + i)
           /\ Low(tr, i, c) = Low(t, q + i, lo[id]) /\ High(tr, i, hi[id]) = High(t, q + i, hi[id])
  <2>1. PartsKids(t, q, tl, tr, lo[id], hi[id], c)
    BY <1>2, <1>3, PartedKids
  <2> QED
    BY <2>1 DEF PartsKids
<1>5. tl \in TreeNodes /\ tr \in TreeNodes
  BY DEF Parted
<1>6. /\ DOMAIN n2 = DOMAIN n \cup {l} /\ n2[l] = tl /\ n2[id] = tr
      /\ \A y \in DOMAIN n : y # id => n2[y] = n[y]
  BY DEF Halved
<1>7. CutAt(DOMAIN n, lo, hi, ht, id, l, c, lo2, seen, hi2, ht2) /\ c \in Nat
  BY <1>1, <1>4, INFType
<1>8. /\ lo2[id] = c /\ lo2[l] = lo[id] /\ hi2[l] = c /\ ht2[l] = ht[id] /\ seen[l] = lo[id]
      /\ l \notin DOMAIN n /\ l # id
      /\ \A y \in DOMAIN n : /\ hi2[y] = hi[y] /\ ht2[y] = ht[y] /\ seen[y] = lo[y]
                             /\ y # id => lo2[y] = lo[y]
  BY <1>7 DEF CutAt
<1>9. Kinds(DOMAIN n, ht, n2)
  <2>1. ASSUME NEW y \in DOMAIN n
        PROVE  n2[y] \in IF ht[y] = 0 THEN LeafNodes ELSE TreeNodes
    <3>1. n[y] \in IF ht[y] = 0 THEN LeafNodes ELSE TreeNodes
      BY NodeIs
    <3> QED
      BY <1>5, <1>6, <3>1
  <2> QED
    BY <2>1 DEF Kinds
<1>10. Typed(n2, lo2, hi2, ht2, top)
  <2>1. n2[l] \in IF ht[id] = 0 THEN LeafNodes ELSE TreeNodes
    BY <1>5, <1>6
  <2>2. DOMAIN n2 = DOMAIN n \cup {l}
    BY <1>6
  <2> QED
    BY <1>4, <1>7, <1>9, <2>1, <2>2, CutTyped
<1>11. Disjoint(n2, lo2, hi2, ht2)
  <2>2. DOMAIN n2 = DOMAIN n \cup {l}
    BY <1>6
  <2> QED
    BY <1>4, <1>7, <2>2, CutDisjoint
<1>12. ASSUME NEW j \in 1 .. Len(t.slots) + 1
       PROVE  /\ Kid(t, j) \in DOMAIN n2
              /\ ht2[Kid(t, j)] + 1 = ht[id]
              /\ seen[Kid(t, j)] = Low(t, j, lo[id])
              /\ hi2[Kid(t, j)] = High(t, j, hi[id])
  <2>1. /\ Kid(t, j) \in DOMAIN n
        /\ ht[Kid(t, j)] + 1 = ht[id]
        /\ lo[Kid(t, j)] = Low(t, j, lo[id])
        /\ hi[Kid(t, j)] = High(t, j, hi[id])
    BY <1>1, <1>2 DEF KidsSound
  <2> QED
    BY <1>6, <1>8, <2>1
<1>13. KidsSound(n2, lo2, seen, hi2, ht2, l)
  <2>1. Keyed(n2[l], lo2[l], hi2[l])
    BY <1>4, <1>6, <1>8
  <2>2. ASSUME NEW i \in 1 .. Len(tl.slots) + 1
        PROVE  /\ Kid(tl, i) \in DOMAIN n2 /\ ht2[Kid(tl, i)] + 1 = ht[id]
               /\ seen[Kid(tl, i)] = Low(tl, i, lo[id])
               /\ hi2[Kid(tl, i)] = High(tl, i, c)
    BY <1>4, <1>12
  <2> QED
    BY <1>6, <1>8, <2>1, <2>2 DEF KidsSound
<1>14. KidsSound(n2, lo2, seen, hi2, ht2, id)
  <2>1. Keyed(n2[id], lo2[id], hi2[id])
    BY <1>4, <1>6, <1>8
  <2>2. ASSUME NEW i \in 1 .. Len(tr.slots) + 1
        PROVE  /\ Kid(tr, i) \in DOMAIN n2 /\ ht2[Kid(tr, i)] + 1 = ht[id]
               /\ seen[Kid(tr, i)] = Low(tr, i, c)
               /\ hi2[Kid(tr, i)] = High(tr, i, hi[id])
    BY <1>4, <1>12
  <2> QED
    BY <1>6, <1>8, <2>1, <2>2 DEF KidsSound
<1>15. Agree(DOMAIN n, lo, hi, ht, seen, hi2, ht2) /\ DOMAIN n \subseteq DOMAIN n2
  BY <1>6, <1>8 DEF Agree
<1>16. ASSUME NEW y \in DOMAIN n, y # id, ht[y] # 0
       PROVE  KidsSound(n2, lo2, seen, hi2, ht2, y)
  <2>1. KidsSound(n, lo, lo, hi, ht, y)
    BY <1>16, NodeIs
  <2>2. n2[y] = n[y] /\ lo2[y] = lo[y] /\ hi2[y] = hi[y]
    BY <1>6, <1>8, <1>16
  <2> QED
    BY <1>15, <2>1, <2>2, KidsKept
<1>17. ASSUME NEW y \in DOMAIN n, ht[y] = 0
       PROVE  LeafSound(n2, lo2, hi2, ht2, top, y)
  <2>1. LeafSound(n, lo, hi, ht, top, y)
    BY <1>17, NodeIs
  <2>2. y # id /\ n2[y] = n[y] /\ lo2[y] = lo[y] /\ hi2[y] = hi[y]
    BY <1>6, <1>8, <1>17
  <2>3. IF hi2[y] = INF THEN n2[y].next = NIL
        ELSE n2[y].next \in DOMAIN n2 /\ ht2[n2[y].next] = 0 /\ lo2[n2[y].next] = hi2[y]
    BY <1>6, <1>8, <2>1, <2>2, ZenonT(30) DEF LeafSound
  <2>4. IF lo2[y] = 0 THEN n2[y].prev = NIL
        ELSE n2[y].prev \in DOMAIN n2 /\ ht2[n2[y].prev] = 0 /\ hi2[n2[y].prev] = lo2[y]
    BY <1>6, <1>8, <2>1, <2>2 DEF LeafSound
  <2> QED
    BY <2>1, <2>2, <2>3, <2>4 DEF LeafSound
<1>18. ASSUME NEW y \in DOMAIN n2
       PROVE  IF ht2[y] = 0 THEN LeafSound(n2, lo2, hi2, ht2, top, y)
              ELSE KidsSound(n2, lo2, seen, hi2, ht2, y)
  <2>1. CASE y = l
    BY <1>8, <1>13, <2>1
  <2>2. CASE y = id
    BY <1>8, <1>14, <2>2
  <2>3. CASE y \in DOMAIN n /\ y # id
    BY <1>8, <1>16, <1>17, <2>3
  <2> QED
    BY <1>6, <2>1, <2>2, <2>3
<1>19. Sound(n2, lo2, seen, hi2, ht2, top)
  BY <1>10, <1>11, <1>18 DEF Sound
<1>20. Pend(n2, lo2, seen, hi2, ht2, id, l, c)
  <2>1. \A y \in DOMAIN n2 : y # id => seen[y] = lo2[y]
    BY <1>6, <1>8
  <2> QED
    BY <1>4, <1>6, <1>8, <2>1 DEF Pend
<1> QED
  BY <1>1, <1>19, <1>20

LEMMA WidenedIs ==
  ASSUME NEW t \in TreeNodes, NEW key \in Keys, NEW d \in Nat, NEW j, Place(t.slots, key, j)
  PROVE  Widened(t, [t EXCEPT !.slots = InsertSlot(t.slots, key, d)], j, key, d)
<1>1. PICK s : s = InsertSlot(t.slots, key, d)
  OBVIOUS
<1>2. t.slots \in Seq(Slot) /\ t.last \in Nat
  BY TreeNodeIs
<1>3. Opened(t.slots, j, [key |-> key, adr |-> d], s)
  BY <1>1, <1>2, InsertSlotIs
<1>4. s \in Seq(Slot)
  BY <1>3 DEF Opened
<1>5. PICK T : T = [t EXCEPT !.slots = s]
  OBVIOUS
<1>6. T \in TreeNodes /\ T.slots = s /\ T.last = t.last
  BY <1>2, <1>4, <1>5 DEF TreeNodes
<1>7. Widened(t, T, j, key, d)
  BY <1>3, <1>6 DEF Widened
<1> QED
  BY <1>1, <1>5, <1>7

\* T in two parts.
Cleft(T, left, right) ==
  /\ left \in Seq(Slot) /\ left # <<>> /\ right \in Seq(Slot)
  /\ Len(T) = Len(left) + Len(right)
  /\ \A i \in 1 .. Len(left) : left[i] = T[i]
  /\ \A i \in 1 .. Len(right) : right[i] = T[Len(left) + i]

LEMMA CleftLeft ==
  ASSUME NEW s \in Seq(Slot), NEW m \in 1 .. Len(s), NEW key \in Keys, NEW d \in Nat,
         NEW j, Place(s, key, j), j <= m,
         NEW T, Opened(s, j, [key |-> key, adr |-> d], T)
  PROVE  Cleft(T, InsertSlot(SubSeq(s, 1, m), key, d), SubSeq(s, m + 1, Len(s)))
<1>1. PICK a, c, e : a = SubSeq(s, 1, m) /\ c = SubSeq(s, m + 1, Len(s)) /\ e = [key |-> key, adr |-> d]
  OBVIOUS
<1>2. Len(s) \in Nat /\ m \in 0 .. Len(s) /\ m \in Nat
  OBVIOUS
<1>3. a \in Seq(Slot) /\ Len(a) = m /\ \A i \in 1 .. m : a[i] = s[i]
  BY <1>1, <1>2, PrefixIs
<1>4. c \in Seq(Slot) /\ Len(c) = Len(s) - m /\ \A i \in 1 .. Len(s) - m : c[i] = s[m + i]
  BY <1>1, <1>2, SuffixIs
<1>5. Place(a, key, j)
  BY <1>2, <1>3 DEF Place
<1>6. PICK left : left = InsertSlot(a, key, d)
  OBVIOUS
<1>7. Opened(a, j, e, left)
  BY <1>1, <1>3, <1>5, <1>6, InsertSlotIs
<1>8. /\ left \in Seq(Slot) /\ Len(left) = m + 1
      /\ \A i \in 1 .. m + 1 : left[i] = IF i < j THEN a[i] ELSE IF i = j THEN e ELSE a[i - 1]
  BY <1>3, <1>7 DEF Opened
<1>9. /\ Len(T) = Len(s) + 1
      /\ \A i \in 1 .. Len(s) + 1 : T[i] = IF i < j THEN s[i] ELSE IF i = j THEN e ELSE s[i - 1]
  BY <1>1 DEF Opened
<1>10. j \in 1 .. m
  BY <1>2 DEF Place
<1>11. ASSUME NEW i \in 1 .. m + 1 PROVE left[i] = T[i]
  <2>1. i \in 1 .. Len(s) + 1
    BY <1>2
  <2>2. i < j => a[i] = s[i]
    BY <1>2, <1>3, <1>10
  <2>3. ~ (i < j) /\ i # j => i - 1 \in 1 .. m
    BY <1>2, <1>10
  <2>4. ~ (i < j) /\ i # j => a[i - 1] = s[i - 1]
    BY <1>3, <2>3
  <2> QED
    BY <1>8, <1>9, <2>1, <2>2, <2>4
<1>12. ASSUME NEW i \in 1 .. Len(c) PROVE c[i] = T[Len(left) + i]
  <2>1. i \in 1 .. Len(s) - m /\ c[i] = s[m + i]
    BY <1>4
  <2>2. m + 1 + i \in 1 .. Len(s) + 1 /\ ~ (m + 1 + i < j) /\ m + 1 + i # j /\ m + 1 + i - 1 = m + i
    BY <1>2, <1>10, <2>1
  <2>3. T[m + 1 + i] = s[m + i]
    BY <1>9, <2>2
  <2> QED
    BY <1>8, <2>1, <2>3
<1>13. left # <<>> /\ Len(T) = Len(left) + Len(c)
  BY <1>2, <1>4, <1>8, <1>9
<1>14. Cleft(T, left, c)
  BY <1>4, <1>8, <1>11, <1>12, <1>13 DEF Cleft
<1> QED
  BY <1>1, <1>6, <1>14

LEMMA CleftRight ==
  ASSUME NEW s \in Seq(Slot), NEW m \in 1 .. Len(s), NEW key \in Keys, NEW d \in Nat,
         NEW j, Place(s, key, j), m < j,
         NEW T, Opened(s, j, [key |-> key, adr |-> d], T)
  PROVE  Cleft(T, SubSeq(s, 1, m), InsertSlot(SubSeq(s, m + 1, Len(s)), key, d))
<1>1. PICK a, c, e : a = SubSeq(s, 1, m) /\ c = SubSeq(s, m + 1, Len(s)) /\ e = [key |-> key, adr |-> d]
  OBVIOUS
<1>2. Len(s) \in Nat /\ m \in 0 .. Len(s) /\ m \in Nat
  OBVIOUS
<1>3. a \in Seq(Slot) /\ Len(a) = m /\ \A i \in 1 .. m : a[i] = s[i]
  BY <1>1, <1>2, PrefixIs
<1>4. c \in Seq(Slot) /\ Len(c) = Len(s) - m /\ \A i \in 1 .. Len(s) - m : c[i] = s[m + i]
  BY <1>1, <1>2, SuffixIs
<1>10. j \in 1 .. Len(s) + 1 /\ j \in Nat
  BY <1>2 DEF Place
<1>5. Place(c, key, j - m)
  <2>1. j - m \in 1 .. Len(c) + 1
    BY <1>2, <1>4, <1>10
  <2>2. ASSUME NEW i \in 1 .. Len(c)
        PROVE  IF i < j - m THEN c[i].key < key ELSE key < c[i].key
    <3>1. m + i \in 1 .. Len(s) /\ (i < j - m <=> m + i < j)
      BY <1>2, <1>4, <1>10
    <3>2. IF m + i < j THEN s[m + i].key < key ELSE key < s[m + i].key
      BY <3>1 DEF Place
    <3> QED
      BY <1>4, <3>1, <3>2
  <2> QED
    BY <2>1, <2>2 DEF Place
<1>6. PICK right : right = InsertSlot(c, key, d)
  OBVIOUS
<1>7. Opened(c, j - m, e, right)
  BY <1>1, <1>4, <1>5, <1>6, InsertSlotIs
<1>8. /\ right \in Seq(Slot) /\ Len(right) = (Len(s) - m) + 1
      /\ \A i \in 1 .. (Len(s) - m) + 1 :
           right[i] = IF i < j - m THEN c[i] ELSE IF i = j - m THEN e ELSE c[i - 1]
  BY <1>4, <1>7 DEF Opened
<1>9. /\ Len(T) = Len(s) + 1
      /\ \A i \in 1 .. Len(s) + 1 : T[i] = IF i < j THEN s[i] ELSE IF i = j THEN e ELSE s[i - 1]
  BY <1>1 DEF Opened
<1>11. ASSUME NEW i \in 1 .. m PROVE a[i] = T[i]
  <2>1. i \in 1 .. Len(s) + 1 /\ i < j
    BY <1>2, <1>10
  <2> QED
    BY <1>3, <1>9, <2>1
<1>12. ASSUME NEW i \in 1 .. (Len(s) - m) + 1 PROVE right[i] = T[m + i]
  <2>1. m + i \in 1 .. Len(s) + 1 /\ (i < j - m <=> m + i < j) /\ (i = j - m <=> m + i = j)
    BY <1>2, <1>10
  <2>2. i < j - m => c[i] = s[m + i]
    <3>1. i < j - m => i \in 1 .. Len(s) - m
      BY <1>2, <1>10
    <3> QED
      BY <1>4, <3>1
  <2>3. ~ (i < j - m) /\ i # j - m => c[i - 1] = s[m + i - 1]
    <3>1. ~ (i < j - m) /\ i # j - m => i - 1 \in 1 .. Len(s) - m /\ m + (i - 1) = m + i - 1
      BY <1>2, <1>10
    <3>2. ~ (i < j - m) /\ i # j - m => c[i - 1] = s[m + (i - 1)]
      BY <1>4, <3>1
    <3> QED
      BY <3>1, <3>2
  <2>4. T[m + i] = IF m + i < j THEN s[m + i] ELSE IF m + i = j THEN e ELSE s[m + i - 1]
    BY <1>9, <2>1
  <2> QED
    BY <1>8, <2>1, <2>2, <2>3, <2>4
<1>13. a # <<>> /\ Len(T) = Len(a) + Len(right)
  BY <1>2, <1>3, <1>8, <1>9
<1>14. Cleft(T, a, right)
  BY <1>3, <1>8, <1>11, <1>12, <1>13 DEF Cleft
<1> QED
  BY <1>1, <1>6, <1>14

LEMMA CleftParted ==
  ASSUME NEW T \in TreeNodes, NEW left, NEW right, Cleft(T.slots, left, right)
  PROVE  /\ Parted(T, Len(left), TreeNode(Front(left), left[Len(left)].adr),
                   TreeNode(right, T.last))
         /\ left[Len(left)].key = T.slots[Len(left)].key
<1>1. /\ left \in Seq(Slot) /\ left # <<>> /\ right \in Seq(Slot)
      /\ Len(T.slots) = Len(left) + Len(right)
      /\ \A i \in 1 .. Len(left) : left[i] = T.slots[i]
      /\ \A i \in 1 .. Len(right) : right[i] = T.slots[Len(left) + i]
  BY DEF Cleft
<1>2. T.slots \in Seq(Slot) /\ T.last \in Nat
  BY TreeNodeIs
<1>3. Len(left) \in Nat /\ Len(right) \in Nat /\ Len(left) # 0
  BY <1>1
<1>4. PICK q, f : q = Len(left) /\ f = SubSeq(left, 1, q - 1)
  OBVIOUS
<1>5. q \in 1 .. Len(T.slots) /\ q - 1 \in 0 .. Len(left) /\ left[q] = T.slots[q]
  BY <1>1, <1>3, <1>4
<1>6. f \in Seq(Slot) /\ Len(f) = q - 1 /\ \A i \in 1 .. q - 1 : f[i] = left[i]
  BY <1>1, <1>4, <1>5, PrefixIs
<1>7. left[q] \in Slot
  BY <1>1, <1>3, <1>4
<1>8. left[q].adr \in Nat
  BY <1>7 DEF Slot
<1>9. PICK tl, tr : tl = TreeNode(f, left[q].adr) /\ tr = TreeNode(right, T.last)
  OBVIOUS
<1>10. /\ tl \in TreeNodes /\ tl.slots = f /\ tl.last = left[q].adr
       /\ tr \in TreeNodes /\ tr.slots = right /\ tr.last = T.last
  BY <1>1, <1>2, <1>6, <1>8, <1>9 DEF TreeNode, TreeNodes
<1>11. \A i \in 1 .. q - 1 : f[i] = T.slots[i]
  BY <1>1, <1>3, <1>4, <1>6
<1>12. Len(right) = Len(T.slots) - q
  BY <1>1, <1>3, <1>4
<1>13. \A i \in 1 .. Len(T.slots) - q : right[i] = T.slots[q + i]
  BY <1>1, <1>4, <1>12
<1>14. Parted(T, q, tl, tr)
  BY <1>5, <1>6, <1>10, <1>11, <1>12, <1>13 DEF Parted
<1>15. f = Front(left)
  BY <1>4 DEF Front
<1> QED
  BY <1>4, <1>5, <1>9, <1>14, <1>15

Shape(b) ==
  b = [more |-> b.more, key |-> b.key, off |-> b.off, count |-> b.count,
       fits |-> b.fits, node |-> b.node]

\* InsertUp where the slot fits in the node, and where the node is split.
UpFits(b, id, r) ==
  /\ ~ r.more /\ r.count = b.count /\ (r.fits <=> b.fits)
  /\ r.node = [b.node EXCEPT ![id].slots = InsertSlot(b.node[id].slots, b.key, b.off)]

UpSplit(b, id, m, left, right, r) ==
  /\ r.more /\ r.count = b.count + 1 /\ r.off = Alloc(b.node)
  /\ r.key = left[Len(left)].key
  /\ r.fits => b.fits /\ b.node[id].slots # <<>>
  /\ r.node = Put([b.node EXCEPT ![id].slots = right], r.off,
                  TreeNode(Front(left), left[Len(left)].adr))

Middle(s, p) == Len(s) - (Len(s) * p) \div 100

LEMMA InsertUpFits ==
  ASSUME NEW b, NEW id, Shape(b), b.more, TreeFits(b.node[id].slots, b.key)
  PROVE  Shape(InsertUp(b, id)) /\ UpFits(b, id, InsertUp(b, id))
<1>1. PICK mo, ke, of, co, fi, no :
        b = [more |-> mo, key |-> ke, off |-> of, count |-> co, fits |-> fi, node |-> no]
  BY DEF Shape
<1>2. /\ b.more = mo /\ b.key = ke /\ b.off = of /\ b.count = co /\ b.fits = fi
      /\ b.node = no
  BY <1>1
<1>3. PICK n1 : n1 = [no EXCEPT ![id].slots = InsertSlot(no[id].slots, ke, of)]
  OBVIOUS
<1>4. InsertUp(b, id) = [b EXCEPT !.node[id].slots = InsertSlot(no[id].slots, ke, of), !.more = FALSE]
  BY <1>2 DEF InsertUp
<1>5. InsertUp(b, id) = [more |-> FALSE, key |-> ke, off |-> of, count |-> co, fits |-> fi, node |-> n1]
  BY <1>1, <1>3, <1>4
<1>6. Shape(InsertUp(b, id))
  BY <1>5 DEF Shape
<1>7. UpFits(b, id, InsertUp(b, id))
  BY <1>2, <1>3, <1>5 DEF UpFits
<1> QED
  BY <1>6, <1>7

LEMMA InsertUpSplit ==
  ASSUME NEW b, NEW id, Shape(b), b.more, ~ TreeFits(b.node[id].slots, b.key)
  PROVE  LET s == b.node[id].slots
             m == Middle(s, Percent(KeysOf(s), b.key))
             lo == SubSeq(s, 1, m)
             hi == SubSeq(s, m + 1, Len(s))
         IN  /\ Shape(InsertUp(b, id))
             /\ UpSplit(b, id, m,
                        IF lo[m].key >= b.key THEN InsertSlot(lo, b.key, b.off) ELSE lo,
                        IF lo[m].key >= b.key THEN hi ELSE InsertSlot(hi, b.key, b.off),
                        InsertUp(b, id))
<1> DEFINE s == b.node[id].slots
           m == Middle(s, Percent(KeysOf(s), b.key))
           lo == SubSeq(s, 1, m)
           hi == SubSeq(s, m + 1, Len(s))
           inLeft == lo[m].key >= b.key
           left == IF inLeft THEN InsertSlot(lo, b.key, b.off) ELSE lo
           right == IF inLeft THEN hi ELSE InsertSlot(hi, b.key, b.off)
           up == left[Len(left)]
           fi == b.fits /\ s # <<>> /\ TreeFits(IF inLeft THEN lo ELSE hi, b.key)
           nd == Put([b.node EXCEPT ![id].slots = right], Alloc(b.node), TreeNode(Front(left), up.adr))
<1>1. InsertUp(b, id) = [more |-> TRUE, key |-> up.key, off |-> Alloc(b.node), count |-> b.count + 1,
                         fits |-> fi, node |-> nd]
  BY DEF InsertUp, Middle
<1>2. Shape(InsertUp(b, id))
  <2> HIDE DEF left, right, fi, nd, up
  <2> QED
    BY <1>1 DEF Shape
<1>3. UpSplit(b, id, m, left, right, InsertUp(b, id))
  <2>1. PICK r : r = InsertUp(b, id)
    OBVIOUS
  <2>2. r.more /\ r.key = up.key /\ r.off = Alloc(b.node) /\ r.count = b.count + 1 /\ r.fits = fi /\ r.node = nd
    <3> HIDE DEF left, right, fi, nd, up
    <3> QED
      BY <1>1, <2>1
  <2>3. fi => b.fits /\ s # <<>>
    <3> HIDE DEF left, right, nd, up, s, inLeft
    <3> QED
      OBVIOUS
  <2> HIDE DEF left, right, fi
  <2> QED
    BY <2>1, <2>2, <2>3 DEF UpSplit
<1> QED
  BY <1>2, <1>3

LEMMA PercentIs ==
  ASSUME NEW keys, NEW k
  PROVE  Percent(keys, k) \in {25, 50, 75}
BY DEF Percent

LEMMA MiddleIs ==
  ASSUME NEW s \in Seq(Slot), s # <<>>, NEW p \in {25, 50, 75}
  PROVE  Middle(s, p) \in 1 .. Len(s)
<1>1. PICK L \in Nat \ {0} : L = Len(s)
  OBVIOUS
<1>2. ASSUME NEW d \in Nat, d < L PROVE L - d \in 1 .. L
  BY <1>2
<1>3. p = 25 => (L * p) \div 100 \in Nat /\ (L * p) \div 100 < L
  OBVIOUS
<1>4. p = 50 => (L * p) \div 100 \in Nat /\ (L * p) \div 100 < L
  OBVIOUS
<1>5. p = 75 => (L * p) \div 100 \in Nat /\ (L * p) \div 100 < L
  OBVIOUS
<1>6. (L * p) \div 100 \in Nat /\ (L * p) \div 100 < L
  BY <1>3, <1>4, <1>5
<1>7. L - (L * p) \div 100 \in 1 .. L
  BY <1>2, <1>6
<1> QED
  BY <1>1, <1>7 DEF Middle

\* The parent id, whose j-th child x was, is told of d.
Told(n, id, key, d, n1) == n1 = [n EXCEPT ![id].slots = InsertSlot(n[id].slots, key, d)]

LEMMA ToldIs ==
  ASSUME NEW lo \in [Nat -> Nat], NEW hi \in [Nat -> Nat], NEW ht \in [Nat -> Nat],
         NEW seen \in [Nat -> Nat], NEW n, NEW top \in Nat,
         Sound(n, lo, seen, hi, ht, top), NEW x, NEW d, NEW key,
         Pend(n, lo, seen, hi, ht, x, d, key),
         NEW id, NEW j, IsKid(n, ht, id, j, x), NEW n1, Told(n, id, key, d, n1)
  PROVE  /\ Place(n[id].slots, key, j)
         /\ Swapped(n, id, n1[id], n1) /\ Widened(n[id], n1[id], j, key, d)
         /\ Sound(n1, lo, lo, hi, ht, top)
<1>0. /\ id \in DOMAIN n /\ ht[id] # 0
      /\ j \in 1 .. Len(n[id].slots) + 1 /\ Kid(n[id], j) = x
  BY DEF IsKid
<1>1. /\ n[id] \in TreeNodes /\ KidsSound(n, lo, seen, hi, ht, id)
      /\ Keyed(n[id], lo[id], hi[id])
      /\ lo[id] \in Nat /\ hi[id] \in Nat /\ lo[id] < hi[id]
  BY <1>0, NodeIs
<1>2. /\ x \in DOMAIN n /\ d \in DOMAIN n /\ key \in Keys
      /\ hi[d] = key /\ lo[x] = key /\ seen[x] = lo[d]
  BY DEF Pend
<1>3. /\ seen[x] = Low(n[id], j, lo[id]) /\ hi[x] = High(n[id], j, hi[id])
  BY <1>0, <1>1 DEF KidsSound
<1>4. lo[d] < hi[d] /\ lo[x] < hi[x] /\ d \in Nat /\ key \in Nat
  BY <1>2, NodeIs, INFType
<1>5. Low(n[id], j, lo[id]) < key /\ key < High(n[id], j, hi[id])
  BY <1>2, <1>3, <1>4
<1>6. Place(n[id].slots, key, j)
  BY <1>0, <1>1, <1>4, <1>5, PlaceIs
<1>7. PICK T : T = [n[id] EXCEPT !.slots = InsertSlot(n[id].slots, key, d)]
  OBVIOUS
<1>8. Widened(n[id], T, j, key, d)
  BY <1>1, <1>2, <1>4, <1>6, <1>7, WidenedIs
<1>9. n1[id] = T /\ Swapped(n, id, T, n1)
  BY <1>0, <1>7 DEF Told, Swapped
<1>10. Sound(n1, lo, lo, hi, ht, top)
  BY <1>8, <1>9, KidInserted
<1> QED
  BY <1>6, <1>8, <1>9, <1>10

\* r is b after the split of id: it is told and then cut at its q-th slot.
Splits(b, id, q, tl, tr, n1, r) ==
  /\ Told(b.node, id, b.key, b.off, n1)
  /\ Parted(n1[id], q, tl, tr)
  /\ Halved(n1, id, Alloc(b.node), tl, tr, r.node)
  /\ r.key = n1[id].slots[q].key /\ r.off = Alloc(b.node)
  /\ r.more /\ r.count = b.count + 1 /\ b.fits

LEMMA SplitsIs ==
  ASSUME NEW lo \in [Nat -> Nat], NEW hi \in [Nat -> Nat], NEW ht \in [Nat -> Nat],
         NEW seen \in [Nat -> Nat], NEW top \in Nat,
         NEW b, Shape(b), b.more, Sound(b.node, lo, seen, hi, ht, top),
         NEW x, Pend(b.node, lo, seen, hi, ht, x, b.off, b.key),
         NEW id, NEW j, IsKid(b.node, ht, id, j, x),
         ~ TreeFits(b.node[id].slots, b.key), InsertUp(b, id).fits
  PROVE  \E q, tl, tr, n1 : Splits(b, id, q, tl, tr, n1, InsertUp(b, id))
<1>1. PICK n, key, d, r : n = b.node /\ key = b.key /\ d = b.off /\ r = InsertUp(b, id)
  OBVIOUS
<1>2. PICK s, m : s = n[id].slots /\ m = Middle(s, Percent(KeysOf(s), key))
  OBVIOUS
<1>3. PICK ll, hh : ll = SubSeq(s, 1, m) /\ hh = SubSeq(s, m + 1, Len(s))
  OBVIOUS
<1>4. PICK left, right :
        /\ left = IF ll[m].key >= key THEN InsertSlot(ll, key, d) ELSE ll
        /\ right = IF ll[m].key >= key THEN hh ELSE InsertSlot(hh, key, d)
  OBVIOUS
<1>5. UpSplit(b, id, m, left, right, r)
  BY <1>1, <1>2, <1>3, <1>4, InsertUpSplit
<1>6. /\ r.more /\ r.count = b.count + 1 /\ r.off = Alloc(n) /\ r.key = left[Len(left)].key
      /\ b.fits /\ s # <<>>
      /\ r.node = Put([n EXCEPT ![id].slots = right], r.off,
                      TreeNode(Front(left), left[Len(left)].adr))
  BY <1>1, <1>2, <1>5 DEF UpSplit
<1>7. PICK n1 : Told(n, id, key, d, n1)
  BY DEF Told
<1>8. Sound(n, lo, seen, hi, ht, top) /\ Pend(n, lo, seen, hi, ht, x, d, key) /\ IsKid(n, ht, id, j, x)
  BY <1>1
<1>9. Place(s, key, j) /\ Swapped(n, id, n1[id], n1) /\ Widened(n[id], n1[id], j, key, d)
  BY <1>2, <1>7, <1>8, ToldIs
<1>10. /\ id \in DOMAIN n /\ n[id] \in TreeNodes /\ s \in Seq(Slot)
       /\ key \in Keys /\ d \in Nat
  <2>1. id \in DOMAIN n /\ ht[id] # 0
    BY <1>8 DEF IsKid
  <2>2. n[id] \in TreeNodes
    BY <1>8, <2>1, NodeIs
  <2>3. key \in Keys /\ d \in DOMAIN n
    BY <1>8 DEF Pend
  <2>4. d \in Nat
    BY <1>8, <2>3, NodeIs
  <2> QED
    BY <1>2, <2>1, <2>2, <2>3, <2>4, TreeNodeIs
<1>11. m \in 1 .. Len(s)
  <2>1. PICK p : p = Percent(KeysOf(s), key)
    OBVIOUS
  <2>2. p \in {25, 50, 75}
    BY <2>1, PercentIs
  <2>3. Middle(s, p) \in 1 .. Len(s)
    BY <1>6, <1>10, <2>2, MiddleIs
  <2> QED
    BY <1>2, <2>1, <2>3
<1>12. /\ n1[id] \in TreeNodes /\ n1[id].last = n[id].last
       /\ Opened(s, j, [key |-> key, adr |-> d], n1[id].slots)
  BY <1>2, <1>9 DEF Widened
<1>13. ll[m].key >= key <=> j <= m
  <2>1. ll[m] = s[m]
    <3>1. Len(s) \in Nat /\ m \in 0 .. Len(s) /\ m \in 1 .. m
      BY <1>10, <1>11
    <3> QED
      BY <1>3, <1>10, <3>1, PrefixIs
  <2>2. IF m < j THEN s[m].key < key ELSE key < s[m].key
    BY <1>9, <1>11 DEF Place
  <2>3. s[m].key \in Nat /\ key \in Nat
    BY <1>10, <1>11, KeysOfIs, INFType
  <2>4. j \in Nat /\ m \in Nat
    <3>1. Len(s) \in Nat
      BY <1>10
    <3> QED
      BY <1>9, <1>11, <3>1 DEF Place
  <2> QED
    BY <2>1, <2>2, <2>3, <2>4
<1>14. Cleft(n1[id].slots, left, right)
  <2>1. CASE j <= m
    <3>1. left = InsertSlot(ll, key, d) /\ right = hh
      BY <1>4, <1>13, <2>1
    <3> QED
      BY <1>3, <1>9, <1>10, <1>11, <1>12, <2>1, <3>1, CleftLeft
  <2>2. CASE ~ (j <= m)
    <3>1. left = ll /\ right = InsertSlot(hh, key, d)
      BY <1>4, <1>13, <2>2
    <3>2. m < j
      <4>1. Len(s) \in Nat
        BY <1>10
      <4> QED
        BY <1>9, <1>11, <2>2, <4>1 DEF Place
    <3> QED
      BY <1>3, <1>9, <1>10, <1>11, <1>12, <3>1, <3>2, CleftRight
  <2> QED
    BY <2>1, <2>2
<1>15. PICK q, tl, tr : /\ q = Len(left) /\ tl = TreeNode(Front(left), left[Len(left)].adr)
                        /\ tr = TreeNode(right, n1[id].last)
  OBVIOUS
<1>16. Parted(n1[id], q, tl, tr) /\ left[Len(left)].key = n1[id].slots[q].key
  BY <1>12, <1>14, <1>15, CleftParted
<1>17. Halved(n1, id, Alloc(n), tl, tr, r.node)
  <2>1. IsFiniteSet(DOMAIN n) /\ DOMAIN n \subseteq Nat \ {0}
    BY <1>8 DEF Sound, Typed
  <2>2. Alloc(n) \notin DOMAIN n
    BY <2>1, AllocIs
  <2>3. DOMAIN n1 = DOMAIN n /\ \A y \in DOMAIN n : y # id => n1[y] = n[y]
    BY <1>9 DEF Swapped
  <2>4. [n[id] EXCEPT !.slots = right] = tr
    <3>1. n[id] = [slots |-> n[id].slots, last |-> n[id].last]
      BY <1>10 DEF TreeNodes
    <3>2. tr = [slots |-> right, last |-> n[id].last]
      BY <1>12, <1>15 DEF TreeNode
    <3> QED
      BY <3>1, <3>2
  <2>5. PICK l, n3 : l = Alloc(n) /\ n3 = [n EXCEPT ![id].slots = right]
    OBVIOUS
  <2>6. DOMAIN n3 = DOMAIN n /\ n3[id] = tr /\ \A y \in DOMAIN n : y # id => n3[y] = n[y]
    BY <1>10, <2>4, <2>5
  <2>7. r.node = Put(n3, l, tl)
    BY <1>6, <1>15, <2>5
  <2> QED
    BY <1>10, <2>2, <2>3, <2>5, <2>6, <2>7 DEF Put, Halved
<1>18. Splits(b, id, q, tl, tr, n1, r)
  BY <1>1, <1>6, <1>7, <1>16, <1>17 DEF Splits
<1> QED
  BY <1>1, <1>18

LEMMA EntriesSame ==
  ASSUME NEW n, NEW ht, NEW n2, NEW ht2, DOMAIN n \subseteq DOMAIN n2,
         \A y \in DOMAIN n : ht2[y] = ht[y] /\ (ht[y] = 0 => n2[y] = n[y]),
         \A y \in DOMAIN n2 : y \notin DOMAIN n => ht2[y] # 0
  PROVE  EntriesIn(n2, ht2) = EntriesIn(n, ht)
BY DEF EntriesIn

-----------------------------------------------------------------------------
(* A split on its way up *)

\* Nodes higher than h are as they were.
Kept(lo, hi, ht, h, n2, lo2, hi2, ht2) ==
  /\ DOMAIN node \subseteq DOMAIN n2
  /\ \A y \in DOMAIN node : /\ hi2[y] = hi[y] /\ ht2[y] = ht[y]
                            /\ ht[y] > h => n2[y] = node[y] /\ lo2[y] = lo[y]

Counted(n2, c) == c \in Nat /\ Cardinality(DOMAIN n2) = Cardinality(DOMAIN node) + c

Whole(n, r, lo, hi, ht, top) ==
  /\ Sound(n, lo, lo, hi, ht, top) /\ RootSound(n, r, lo, hi, ht, top)
  /\ top > 0 => n[r].slots # <<>>

Maps(lo, seen, hi, ht) ==
  /\ lo \in [Nat -> Nat] /\ seen \in [Nat -> Nat]
  /\ hi \in [Nat -> Nat] /\ ht \in [Nat -> Nat]

\* b is what the split has led to at node x.
Risen(lo, hi, ht, S, x, b, lo2, seen, hi2, ht2) ==
  /\ Maps(lo2, seen, hi2, ht2)
  /\ Shape(b) /\ Counted(b.node, b.count) /\ EntriesIn(b.node, ht2) = S
  /\ Kept(lo, hi, ht, ht[x], b.node, lo2, hi2, ht2)
  /\ b.more => /\ Sound(b.node, lo2, seen, hi2, ht2, levels)
               /\ Pend(b.node, lo2, seen, hi2, ht2, x, b.off, b.key)
               /\ seen[x] = lo[x]
  /\ ~ b.more => Whole(b.node, root, lo2, hi2, ht2, levels)

LEMMA NodeFacts ==
  ASSUME NEW lo, NEW seen, NEW hi, NEW ht, Maps(lo, seen, hi, ht), NEW n, NEW top \in Nat,
         Sound(n, lo, seen, hi, ht, top), NEW y \in DOMAIN n
  PROVE  /\ y \in Nat /\ y # 0 /\ lo[y] \in Nat /\ hi[y] \in Nat /\ ht[y] \in Nat
         /\ lo[y] < hi[y] /\ hi[y] <= INF /\ ht[y] <= top
         /\ ht[y] = 0 => n[y] \in LeafNodes /\ LeafSound(n, lo, hi, ht, top, y)
         /\ ht[y] # 0 => n[y] \in TreeNodes /\ KidsSound(n, lo, seen, hi, ht, y)
<1>1. /\ lo \in [Nat -> Nat] /\ seen \in [Nat -> Nat]
      /\ hi \in [Nat -> Nat] /\ ht \in [Nat -> Nat]
  BY DEF Maps
<1> QED
  BY <1>1, NodeIs, SMTT(20)

LEMMA KidIs ==
  ASSUME NEW lo, NEW seen, NEW hi, NEW ht, Maps(lo, seen, hi, ht), NEW n, NEW top \in Nat,
         Sound(n, lo, seen, hi, ht, top), NEW id, NEW j, NEW x, IsKid(n, ht, id, j, x)
  PROVE  /\ id \in DOMAIN n /\ n[id] \in TreeNodes /\ ht[id] \in Nat /\ ht[id] <= top
         /\ x \in DOMAIN n /\ ht[x] \in Nat /\ ht[id] > ht[x] /\ ht[id] # 0
         /\ ht[id] = ht[x] + 1 /\ lo[id] \in Nat /\ lo[x] \in Nat
         /\ hi[id] \in Nat /\ hi[x] \in Nat /\ top > 0
<1>0. /\ lo \in [Nat -> Nat] /\ seen \in [Nat -> Nat]
      /\ hi \in [Nat -> Nat] /\ ht \in [Nat -> Nat]
  BY DEF Maps
<1>1. /\ id \in DOMAIN n /\ ht[id] # 0 /\ j \in 1 .. Len(n[id].slots) + 1
      /\ Kid(n[id], j) = x
  BY DEF IsKid
<1>2. /\ ht[id] \in Nat /\ ht[id] <= top /\ n[id] \in TreeNodes
      /\ KidsSound(n, lo, seen, hi, ht, id) /\ lo[id] \in Nat /\ hi[id] \in Nat
  BY <1>0, <1>1, NodeIs, ZenonT(30)
<1>3. x \in DOMAIN n /\ ht[x] + 1 = ht[id]
  BY <1>1, <1>2 DEF KidsSound
<1>4. ht[x] \in Nat /\ lo[x] \in Nat /\ hi[x] \in Nat
  BY <1>0, <1>3, NodeIs
<1>5. ht[id] > ht[x] /\ top > 0
  BY <1>1, <1>2, <1>3, <1>4
<1> QED
  BY <1>1, <1>2, <1>3, <1>4, <1>5

\* What the parent id has been told is in its node.
Heard(n, id, j, n1, lo, hi, ht, top) ==
  /\ Sound(n1, lo, lo, hi, ht, top)
  /\ DOMAIN n1 = DOMAIN n /\ \A y \in DOMAIN n : y # id => n1[y] = n[y]
  /\ n1[id] \in TreeNodes /\ n1[id].slots # <<>>

LEMMA OneLonger ==
  ASSUME NEW s, NEW t, Len(s) \in Nat, Len(t) = Len(s) + 1
  PROVE  t # <<>>
<1> SUFFICES ASSUME t = <<>> PROVE FALSE
  OBVIOUS
<1>1. Len(t) = 0
  OBVIOUS
<1> QED
  BY <1>1

LEMMA HeardIs ==
  ASSUME NEW lo, NEW seen, NEW hi, NEW ht, Maps(lo, seen, hi, ht), NEW n, NEW top \in Nat,
         Sound(n, lo, seen, hi, ht, top), NEW x, NEW d, NEW key,
         Pend(n, lo, seen, hi, ht, x, d, key),
         NEW id, NEW j, IsKid(n, ht, id, j, x), NEW n1, Told(n, id, key, d, n1)
  PROVE  Heard(n, id, j, n1, lo, hi, ht, top)
<1>0. /\ lo \in [Nat -> Nat] /\ seen \in [Nat -> Nat]
      /\ hi \in [Nat -> Nat] /\ ht \in [Nat -> Nat]
  BY DEF Maps
<1>1. /\ Swapped(n, id, n1[id], n1) /\ Widened(n[id], n1[id], j, key, d)
      /\ Sound(n1, lo, lo, hi, ht, top)
  BY <1>0, ToldIs
<1>2. n[id] \in TreeNodes
  BY KidIs
<1>3. PICK s, t : s = n[id].slots /\ t = n1[id].slots
  OBVIOUS
<1>4. Len(s) \in Nat
  BY <1>2, <1>3, TreeNodeIs
<1>5. n1[id] \in TreeNodes /\ Len(t) = Len(s) + 1
  BY <1>1, <1>3 DEF Widened, Opened
<1>6. t # <<>>
  BY <1>4, <1>5, OneLonger
<1> QED
  BY <1>1, <1>3, <1>5, <1>6 DEF Heard, Swapped

LEMMA RiseFits ==
  ASSUME NEW lo, NEW hi, NEW ht, Maps(lo, lo, hi, ht),
         levels \in Nat, Whole(node, root, lo, hi, ht, levels),
         NEW id, NEW j, NEW x, IsKid(node, ht, id, j, x),
         NEW b, NEW S, NEW lo2, NEW seen, NEW hi2, NEW ht2,
         Risen(lo, hi, ht, S, x, b, lo2, seen, hi2, ht2),
         b.more, TreeFits(b.node[id].slots, b.key)
  PROVE  Risen(lo, hi, ht, S, id, InsertUp(b, id), lo2, seen, hi2, ht2)
<1>1. PICK r, n, n1, key, d : /\ r = InsertUp(b, id) /\ n = b.node /\ n1 = r.node
                              /\ key = b.key /\ d = b.off
  OBVIOUS
<1>2. /\ Maps(lo2, seen, hi2, ht2)
      /\ Shape(b) /\ Counted(n, b.count) /\ EntriesIn(n, ht2) = S
      /\ Kept(lo, hi, ht, ht[x], n, lo2, hi2, ht2)
      /\ Sound(n, lo2, seen, hi2, ht2, levels)
      /\ Pend(n, lo2, seen, hi2, ht2, x, d, key)
  BY <1>1 DEF Risen
<1>3. Shape(r) /\ UpFits(b, id, r)
  BY <1>1, <1>2, InsertUpFits
<1>4. ~ r.more /\ r.count = b.count /\ Told(n, id, key, d, n1)
  BY <1>1, <1>3 DEF UpFits, Told
<1>5. Sound(node, lo, lo, hi, ht, levels)
  BY DEF Whole
<1>6. /\ id \in DOMAIN node /\ ht[id] \in Nat /\ ht[id] <= levels /\ ht[id] # 0
      /\ x \in DOMAIN node /\ ht[x] \in Nat /\ ht[id] > ht[x] /\ levels > 0
  BY <1>5, KidIs
<1>7. n[id] = node[id] /\ ht2[id] = ht[id] /\ id \in DOMAIN n
  BY <1>2, <1>6 DEF Kept
<1>8. IsKid(n, ht2, id, j, x)
  BY <1>7 DEF IsKid
<1>9. Heard(n, id, j, n1, lo2, hi2, ht2, levels)
  BY <1>2, <1>4, <1>8, HeardIs
<1>10. /\ DOMAIN n1 = DOMAIN n /\ \A y \in DOMAIN n : y # id => n1[y] = n[y]
       /\ n1[id].slots # <<>> /\ Sound(n1, lo2, lo2, hi2, ht2, levels)
  BY <1>9 DEF Heard
<1>11. Kept(lo, hi, ht, ht[id], n1, lo2, hi2, ht2)
  <2>1. DOMAIN node \subseteq DOMAIN n1
    BY <1>2, <1>10 DEF Kept
  <2>2. ASSUME NEW y \in DOMAIN node
        PROVE  /\ hi2[y] = hi[y] /\ ht2[y] = ht[y]
               /\ ht[y] > ht[id] => n1[y] = node[y] /\ lo2[y] = lo[y]
    <3>1. /\ hi2[y] = hi[y] /\ ht2[y] = ht[y] /\ y \in DOMAIN n
          /\ ht[y] > ht[x] => n[y] = node[y] /\ lo2[y] = lo[y]
      BY <1>2 DEF Kept
    <3>2. ht[y] \in Nat
      BY <1>5, NodeIs DEF Maps
    <3>3. ht[y] > ht[id] => ht[y] > ht[x] /\ y # id
      BY <1>6, <3>2
    <3> QED
      BY <1>10, <3>1, <3>3
  <2> QED
    BY <2>1, <2>2 DEF Kept
<1>12. Whole(n1, root, lo2, hi2, ht2, levels)
  <2>1. root \in DOMAIN node /\ ht[root] = levels /\ lo[root] = 0 /\ hi[root] = INF
    BY DEF Whole, RootSound
  <2>2. ht[root] > ht[x]
    BY <1>6, <2>1
  <2>3. /\ n[root] = node[root] /\ lo2[root] = lo[root] /\ hi2[root] = hi[root]
        /\ ht2[root] = ht[root] /\ root \in DOMAIN n
    BY <1>2, <2>1, <2>2 DEF Kept
  <2>4. node[root].slots # <<>>
    BY <1>6 DEF Whole
  <2>5. n1[root].slots # <<>>
    BY <1>10, <2>3, <2>4
  <2>6. RootSound(n1, root, lo2, hi2, ht2, levels)
    BY <1>10, <2>1, <2>3 DEF RootSound
  <2> QED
    BY <1>10, <2>5, <2>6 DEF Whole
<1>13. EntriesIn(n1, ht2) = S
  <2>1. \A y \in DOMAIN n : ht2[y] = ht2[y] /\ (ht2[y] = 0 => n1[y] = n[y])
    BY <1>6, <1>7, <1>10
  <2>2. EntriesIn(n1, ht2) = EntriesIn(n, ht2)
    BY <1>10, <2>1, EntriesSame
  <2> QED
    BY <1>2, <2>2
<1>14. Counted(n1, r.count)
  BY <1>2, <1>4, <1>10 DEF Counted
<1>15. Risen(lo, hi, ht, S, id, r, lo2, seen, hi2, ht2)
  <2> USE <1>1
  <2> QED
    BY <1>2, <1>3, <1>4, <1>11, <1>12, <1>13, <1>14 DEF Risen
<1> QED
  BY <1>1, <1>15

\* The maps after a cut at id, with what is up to c at l.
CutsTo(D, lo, hi, ht, id, l, c, lo2, seen, hi2, ht2) ==
  Maps(lo2, seen, hi2, ht2) /\ CutAt(D, lo, hi, ht, id, l, c, lo2, seen, hi2, ht2)

LEMMA CutsExist ==
  ASSUME NEW lo, NEW hi, NEW ht, Maps(lo, lo, hi, ht), NEW D, D \subseteq Nat, NEW id \in D,
         NEW l \in Nat, l \notin D, l # 0, NEW c \in Nat
  PROVE  \E lo2, seen, hi2, ht2 : CutsTo(D, lo, hi, ht, id, l, c, lo2, seen, hi2, ht2)
<1>1. CutAt(D, lo, hi, ht, id, l, c, LoCut(lo, id, l, c), SeenCut(lo, id, l),
            HiCut(hi, l, c), HtCut(ht, id, l))
  BY CutIs DEF Maps
<1>2. PICK lo2, seen, hi2, ht2 : CutAt(D, lo, hi, ht, id, l, c, lo2, seen, hi2, ht2)
  BY <1>1
<1>3. Maps(lo2, seen, hi2, ht2)
  BY <1>2 DEF Maps, CutAt
<1> QED
  BY <1>2, <1>3 DEF CutsTo

LEMMA CutSounds ==
  ASSUME NEW lo, NEW hi, NEW ht, Maps(lo, lo, hi, ht),
         NEW n, NEW top \in Nat, Sound(n, lo, lo, hi, ht, top),
         NEW id \in DOMAIN n, ht[id] # 0,
         NEW q, NEW tl, NEW tr, Parted(n[id], q, tl, tr),
         NEW l, NEW c, c = n[id].slots[q].key, NEW lo2, NEW seen, NEW hi2, NEW ht2,
         CutsTo(DOMAIN n, lo, hi, ht, id, l, c, lo2, seen, hi2, ht2),
         NEW n2, Halved(n, id, l, tl, tr, n2)
  PROVE  /\ Sound(n2, lo2, seen, hi2, ht2, top)
         /\ Pend(n2, lo2, seen, hi2, ht2, id, l, c)
<1>1. /\ lo \in [Nat -> Nat] /\ hi \in [Nat -> Nat] /\ ht \in [Nat -> Nat]
  BY DEF Maps
<1>2. CutAt(DOMAIN n, lo, hi, ht, id, l, n[id].slots[q].key, lo2, seen, hi2, ht2)
  BY DEF CutsTo
<1>3. /\ Sound(n2, lo2, seen, hi2, ht2, top)
      /\ Pend(n2, lo2, seen, hi2, ht2, id, l, n[id].slots[q].key)
  BY <1>1, <1>2, TreeHalved
<1> QED
  BY <1>3

LEMMA RiseSplit ==
  ASSUME NEW lo, NEW hi, NEW ht, Maps(lo, lo, hi, ht),
         levels \in Nat, Whole(node, root, lo, hi, ht, levels),
         NEW id, NEW j, NEW x, IsKid(node, ht, id, j, x),
         NEW b, NEW S, NEW lo2, NEW seen, NEW hi2, NEW ht2,
         Risen(lo, hi, ht, S, x, b, lo2, seen, hi2, ht2),
         b.more, ~ TreeFits(b.node[id].slots, b.key), InsertUp(b, id).fits
  PROVE  \E lo3, seen3, hi3, ht3 :
           Risen(lo, hi, ht, S, id, InsertUp(b, id), lo3, seen3, hi3, ht3)
<1>1. PICK r, n, key, d : /\ r = InsertUp(b, id) /\ n = b.node
                          /\ key = b.key /\ d = b.off
  OBVIOUS
<1>2. /\ Maps(lo2, seen, hi2, ht2)
      /\ Shape(b) /\ Counted(n, b.count) /\ EntriesIn(n, ht2) = S
      /\ Kept(lo, hi, ht, ht[x], n, lo2, hi2, ht2)
      /\ Sound(n, lo2, seen, hi2, ht2, levels)
      /\ Pend(n, lo2, seen, hi2, ht2, x, d, key)
  BY <1>1 DEF Risen
<1>3. Shape(r)
  BY <1>1, <1>2, InsertUpSplit
<1>5. Sound(node, lo, lo, hi, ht, levels)
  BY DEF Whole
<1>6. /\ id \in DOMAIN node /\ ht[id] \in Nat /\ ht[id] <= levels /\ ht[id] # 0
      /\ x \in DOMAIN node /\ ht[x] \in Nat /\ ht[id] > ht[x] /\ levels > 0
  BY <1>5, KidIs
<1>7. /\ n[id] = node[id] /\ ht2[id] = ht[id] /\ id \in DOMAIN n /\ lo2[id] = lo[id]
  BY <1>2, <1>6 DEF Kept
<1>8. IsKid(n, ht2, id, j, x)
  BY <1>7 DEF IsKid
<1>9. \E q, tl, tr, n1 : Splits(b, id, q, tl, tr, n1, r)
  <2>1. /\ lo2 \in [Nat -> Nat] /\ seen \in [Nat -> Nat]
        /\ hi2 \in [Nat -> Nat] /\ ht2 \in [Nat -> Nat]
    BY <1>2 DEF Maps
  <2>2. /\ Sound(b.node, lo2, seen, hi2, ht2, levels)
        /\ Pend(b.node, lo2, seen, hi2, ht2, x, b.off, b.key)
        /\ IsKid(b.node, ht2, id, j, x)
    BY <1>1, <1>2, <1>8
  <2> QED
    BY <1>1, <1>2, <2>1, <2>2, SplitsIs
<1>10. PICK q, tl, tr, n1 : Splits(b, id, q, tl, tr, n1, r)
  BY <1>9
<1>11. PICK l, c, n2 : l = Alloc(n) /\ c = r.key /\ n2 = r.node
  OBVIOUS
<1>12. /\ Told(n, id, key, d, n1) /\ Parted(n1[id], q, tl, tr)
       /\ Halved(n1, id, l, tl, tr, n2) /\ c = n1[id].slots[q].key
       /\ r.off = l /\ r.more /\ r.count = b.count + 1
  BY <1>1, <1>10, <1>11 DEF Splits
<1>13. Heard(n, id, j, n1, lo2, hi2, ht2, levels)
  BY <1>2, <1>8, <1>12, HeardIs
<1>14. /\ DOMAIN n1 = DOMAIN n /\ \A y \in DOMAIN n : y # id => n1[y] = n[y]
       /\ n1[id] \in TreeNodes /\ Sound(n1, lo2, lo2, hi2, ht2, levels)
  BY <1>13 DEF Heard
<1>15. /\ IsFiniteSet(DOMAIN n) /\ DOMAIN n \subseteq Nat \ {0}
  BY <1>2 DEF Sound, Typed
<1>16. l \in Nat /\ l # 0 /\ l \notin DOMAIN n1
  BY <1>11, <1>14, <1>15, AllocIs
<1>17. c \in Nat
  <2>1. q \in 1 .. Len(n1[id].slots)
    BY <1>12 DEF Parted
  <2> QED
    BY <1>12, <1>14, <2>1, TreeNodeIs
<1>18. Maps(lo2, lo2, hi2, ht2)
  BY <1>2 DEF Maps
<1>19. \E lo3, seen3, hi3, ht3 :
         CutsTo(DOMAIN n1, lo2, hi2, ht2, id, l, c, lo3, seen3, hi3, ht3)
  <2>1. DOMAIN n1 \subseteq Nat /\ id \in DOMAIN n1
    BY <1>7, <1>14, <1>15
  <2> QED
    BY <1>16, <1>17, <1>18, <2>1, CutsExist
<1>20. PICK lo3, seen3, hi3, ht3 :
         CutsTo(DOMAIN n1, lo2, hi2, ht2, id, l, c, lo3, seen3, hi3, ht3)
  BY <1>19
<1>21. /\ Sound(n2, lo3, seen3, hi3, ht3, levels)
       /\ Pend(n2, lo3, seen3, hi3, ht3, id, l, c)
  <2>1. id \in DOMAIN n1 /\ ht2[id] # 0
    BY <1>6, <1>7, <1>14
  <2> QED
    BY <1>12, <1>14, <1>18, <1>20, <2>1, CutSounds
<1>22. /\ Maps(lo3, seen3, hi3, ht3)
       /\ \A y \in DOMAIN n : /\ hi3[y] = hi2[y] /\ ht3[y] = ht2[y] /\ seen3[y] = lo2[y]
                              /\ y # id => lo3[y] = lo2[y]
       /\ ht3[l] = ht2[id]
  BY <1>14, <1>20 DEF CutsTo, CutAt
<1>23. DOMAIN n2 = DOMAIN n \cup {l} /\ \A y \in DOMAIN n : y # id => n2[y] = n[y]
  BY <1>12, <1>14 DEF Halved
<1>24. Kept(lo, hi, ht, ht[id], n2, lo3, hi3, ht3)
  <2>1. DOMAIN node \subseteq DOMAIN n2
    BY <1>2, <1>23 DEF Kept
  <2>2. ASSUME NEW y \in DOMAIN node
        PROVE  /\ hi3[y] = hi[y] /\ ht3[y] = ht[y]
               /\ ht[y] > ht[id] => n2[y] = node[y] /\ lo3[y] = lo[y]
    <3>1. /\ hi2[y] = hi[y] /\ ht2[y] = ht[y] /\ y \in DOMAIN n
          /\ ht[y] > ht[x] => n[y] = node[y] /\ lo2[y] = lo[y]
      BY <1>2 DEF Kept
    <3>2. ht[y] \in Nat
      BY <1>5, NodeIs DEF Maps
    <3>3. ht[y] > ht[id] => ht[y] > ht[x] /\ y # id
      BY <1>6, <3>2
    <3> QED
      BY <1>22, <1>23, <3>1, <3>3
  <2> QED
    BY <2>1, <2>2 DEF Kept
<1>25. EntriesIn(n2, ht3) = S
  <2>1. \A y \in DOMAIN n : ht3[y] = ht2[y] /\ (ht2[y] = 0 => n2[y] = n[y])
    BY <1>6, <1>7, <1>22, <1>23
  <2>2. \A y \in DOMAIN n2 : y \notin DOMAIN n => ht3[y] # 0
    BY <1>6, <1>7, <1>22, <1>23
  <2>3. EntriesIn(n2, ht3) = EntriesIn(n, ht2)
    BY <1>23, <2>1, <2>2, EntriesSame
  <2> QED
    BY <1>2, <2>3
<1>26. Counted(n2, r.count)
  <2>1. l \notin DOMAIN n
    BY <1>14, <1>16
  <2>2. Cardinality(DOMAIN n2) = Cardinality(DOMAIN n) + 1
    BY <1>15, <1>23, <2>1, FS_AddElement
  <2>3. b.count \in Nat /\ Cardinality(DOMAIN n) = Cardinality(DOMAIN node) + b.count
    BY <1>2 DEF Counted
  <2>4. Cardinality(DOMAIN node) \in Nat
    BY <1>5, FS_CardinalityType DEF Sound, Typed
  <2> QED
    BY <1>12, <2>2, <2>3, <2>4 DEF Counted
<1>27. seen3[id] = lo[id]
  BY <1>7, <1>22
<1>28. Risen(lo, hi, ht, S, id, r, lo3, seen3, hi3, ht3)
  <2>1. /\ n2 = r.node /\ l = r.off /\ c = r.key
    BY <1>11, <1>12
  <2> QED
    BY <1>3, <1>12, <1>21, <1>22, <1>24, <1>25, <1>26, <1>27, <2>1 DEF Risen
<1> QED
  BY <1>1, <1>28

Rises(lo, hi, ht, S, x, b) ==
  \E lo2, seen, hi2, ht2 : Risen(lo, hi, ht, S, x, b, lo2, seen, hi2, ht2)

LEMMA InsertUpFitting ==
  ASSUME NEW b, NEW id, Shape(b)
  PROVE  Shape(InsertUp(b, id)) /\ (InsertUp(b, id).fits => b.fits)
<1>1. CASE ~ b.more
  BY <1>1 DEF InsertUp
<1>2. CASE b.more /\ TreeFits(b.node[id].slots, b.key)
  BY <1>2, InsertUpFits DEF UpFits
<1>3. CASE b.more /\ ~ TreeFits(b.node[id].slots, b.key)
  BY <1>3, InsertUpSplit DEF UpSplit
<1> QED
  BY <1>1, <1>2, <1>3

\* What a split has led to at a node leads to the like at its parent.
LEMMA RiseStep ==
  ASSUME NEW lo, NEW hi, NEW ht, Maps(lo, lo, hi, ht),
         levels \in Nat, Whole(node, root, lo, hi, ht, levels),
         NEW id, NEW j, NEW x, IsKid(node, ht, id, j, x),
         NEW b, NEW S, Rises(lo, hi, ht, S, x, b), InsertUp(b, id).fits
  PROVE  Rises(lo, hi, ht, S, id, InsertUp(b, id))
<1>1. PICK lo2, seen, hi2, ht2 : Risen(lo, hi, ht, S, x, b, lo2, seen, hi2, ht2)
  BY DEF Rises
<1>2. CASE ~ b.more
  <2>1. InsertUp(b, id) = b
    BY <1>2 DEF InsertUp
  <2>2. Sound(node, lo, lo, hi, ht, levels)
    BY DEF Whole
  <2>3. ht[x] \in Nat /\ ht[id] \in Nat /\ ht[id] > ht[x]
    BY <2>2, KidIs
  <2>4. \A y \in DOMAIN node : ht[y] \in Nat
    BY <2>2, NodeIs DEF Maps
  <2>5. \A y \in DOMAIN node : ht[y] > ht[id] => ht[y] > ht[x]
    BY <2>3, <2>4
  <2>6. Kept(lo, hi, ht, ht[id], b.node, lo2, hi2, ht2)
    <3>1. Kept(lo, hi, ht, ht[x], b.node, lo2, hi2, ht2)
      BY <1>1 DEF Risen
    <3> QED
      BY <2>5, <3>1 DEF Kept
  <2>7. Risen(lo, hi, ht, S, id, b, lo2, seen, hi2, ht2)
    BY <1>1, <1>2, <2>6 DEF Risen
  <2> QED
    BY <2>1, <2>7 DEF Rises
<1>3. CASE b.more /\ TreeFits(b.node[id].slots, b.key)
  BY <1>1, <1>3, RiseFits DEF Rises
<1>4. CASE b.more /\ ~ TreeFits(b.node[id].slots, b.key)
  <2>1. \E lo3, seen3, hi3, ht3 :
          Risen(lo, hi, ht, S, id, InsertUp(b, id), lo3, seen3, hi3, ht3)
    BY <1>1, <1>4, RiseSplit
  <2> QED
    BY <2>1 DEF Rises
<1> QED
  BY <1>2, <1>3, <1>4

-----------------------------------------------------------------------------
(* The leaf that is split *)

Sorted(s, a, b) == s \in Seq(Keys) /\ Increasing(s) /\ Within(s, a, b)

Prefix(s, m, t) ==
  t \in Seq(Keys) /\ Len(t) = m /\ \A i \in 1 .. m : t[i] = s[i]
Suffix(s, m, u) ==
  /\ u \in Seq(Keys) /\ Len(u) = Len(s) - m
  /\ \A i \in 1 .. Len(s) - m : u[i] = s[m + i]

\* s is cut after its m-th element, c.
PartsOf(s, m, a, b, c, t, u) ==
  /\ Sorted(t, a, c) /\ Len(t) = m /\ t[m] = c /\ t # <<>>
  /\ Sorted(u, c, b) /\ Len(u) = Len(s) - m
  /\ ToSet(t) \cup ToSet(u) = ToSet(s)
  /\ c \in Keys /\ c \in Nat /\ a < c
  /\ m < Len(s) => c < b /\ u # <<>>

LEMMA PartsAre ==
  ASSUME NEW a \in Nat, NEW b \in Nat, NEW s, Sorted(s, a, b), NEW m \in 1 .. Len(s),
         NEW t, Prefix(s, m, t), NEW u, Suffix(s, m, u)
  PROVE  PartsOf(s, m, a, b, s[m], t, u)
<1>1. /\ s \in Seq(Keys) /\ Len(s) \in Nat /\ DOMAIN s = 1 .. Len(s)
      /\ \A i \in 1 .. Len(s) : s[i] \in Keys /\ s[i] \in Nat
  BY SeqOfKeys, MembersAre DEF Sorted
<1>2. \A i, j \in 1 .. Len(s) : i < j => s[i] < s[j]
  BY <1>1 DEF Sorted, Increasing
<1>3. \A i \in 1 .. Len(s) : a < s[i] /\ s[i] <= b
  BY <1>1 DEF Sorted, Within
<1>4. m \in 0 .. Len(s) /\ m \in 1 .. m
  BY <1>1
<1>5. t \in Seq(Keys) /\ Len(t) = m /\ \A i \in 1 .. m : t[i] = s[i]
  BY DEF Prefix
<1>6. /\ u \in Seq(Keys) /\ Len(u) = Len(s) - m
      /\ \A i \in 1 .. Len(s) - m : u[i] = s[m + i]
  BY DEF Suffix
<1>7. DOMAIN t = 1 .. m /\ DOMAIN u = 1 .. Len(s) - m
  BY <1>5, <1>6
<1>8. \A i \in 1 .. Len(s) - m : m + i \in 1 .. Len(s) /\ m < m + i
  BY <1>1
<1>9. Sorted(t, a, s[m])
  <2>1. \A i \in 1 .. m : i \in 1 .. Len(s) /\ (i = m \/ i < m)
    BY <1>1
  <2>2. Increasing(t)
    BY <1>2, <1>5, <1>7, <2>1 DEF Increasing
  <2>3. \A i \in 1 .. m : s[i] <= s[m]
    BY <1>1, <1>2, <2>1
  <2>4. Within(t, a, s[m])
    BY <1>3, <1>5, <1>7, <2>1, <2>3 DEF Within
  <2> QED
    BY <1>5, <2>2, <2>4 DEF Sorted
<1>10. Sorted(u, s[m], b)
  <2>1. \A i, j \in 1 .. Len(s) - m : i < j => m + i < m + j
    BY <1>1
  <2>2. Increasing(u)
    <3>1. ASSUME NEW i \in 1 .. Len(s) - m, NEW j \in 1 .. Len(s) - m, i < j
          PROVE  u[i] < u[j]
      <4>1. m + i \in 1 .. Len(s) /\ m + j \in 1 .. Len(s) /\ m + i < m + j
        BY <1>8, <2>1, <3>1
      <4>2. s[m + i] < s[m + j]
        BY <1>2, <4>1
      <4> QED
        BY <1>6, <4>2
    <3> QED
      BY <1>7, <3>1 DEF Increasing
  <2>3. Within(u, s[m], b)
    BY <1>2, <1>3, <1>6, <1>7, <1>8 DEF Within
  <2> QED
    BY <1>6, <2>2, <2>3 DEF Sorted
<1>11. ToSet(t) \cup ToSet(u) = ToSet(s)
  <2>1. \A e : e \in ToSet(t) <=> \E i \in 1 .. m : s[i] = e
    <3>1. \A e : e \in ToSet(t) <=> \E i \in 1 .. Len(t) : t[i] = e
      BY <1>5, MembersAre
    <3>2. \A e : e \in ToSet(t) <=> \E i \in 1 .. m : t[i] = e
      BY <1>5, <3>1
    <3> QED
      BY <1>5, <3>2
  <2>2. \A e : e \in ToSet(u) <=> \E i \in 1 .. Len(s) - m : s[m + i] = e
    <3>1. \A e : e \in ToSet(u) <=> \E i \in 1 .. Len(u) : u[i] = e
      BY <1>6, MembersAre
    <3>2. \A e : e \in ToSet(u) <=> \E i \in 1 .. Len(s) - m : u[i] = e
      BY <1>6, <3>1
    <3> QED
      BY <1>6, <3>2
  <2>3. \A e : e \in ToSet(s) <=> \E i \in 1 .. Len(s) : s[i] = e
    BY <1>1, MembersAre
  <2>4. \A i \in 1 .. Len(s) : i \in 1 .. m \/ (i - m \in 1 .. Len(s) - m /\ m + (i - m) = i)
    BY <1>1
  <2>5. \A i \in 1 .. m : i \in 1 .. Len(s)
    BY <1>1
  <2>6. ASSUME NEW e \in ToSet(s) PROVE e \in ToSet(t) \cup ToSet(u)
    BY <2>1, <2>2, <2>3, <2>4
  <2>7. ASSUME NEW e \in ToSet(t) \cup ToSet(u) PROVE e \in ToSet(s)
    BY <1>8, <2>1, <2>2, <2>3, <2>5
  <2> QED
    BY <2>6, <2>7
<1>12. t # <<>> /\ t[m] = s[m]
  BY <1>4, <1>5
<1>13. ASSUME m < Len(s) PROVE s[m] < b /\ u # <<>>
  <2>1. m + 1 \in 1 .. Len(s) /\ m < m + 1 /\ Len(u) # 0
    <3>1. PICK L : L = Len(s)
      OBVIOUS
    <3>2. L \in Nat /\ m \in 1 .. L /\ m < L
      BY <1>1, <1>13, <3>1
    <3>3. m + 1 \in 1 .. L /\ m < m + 1 /\ L - m # 0
      BY <3>2
    <3> QED
      BY <1>6, <3>1, <3>3
  <2>2. s[m] < s[m + 1] /\ s[m + 1] <= b
    BY <1>2, <1>3, <2>1
  <2>3. s[m] < b
    <3>1. PICK v, w : v = s[m] /\ w = s[m + 1]
      OBVIOUS
    <3>2. v \in Nat /\ w \in Nat
      BY <1>1, <2>1, <3>1
    <3> QED
      BY <2>2, <3>1, <3>2
  <2> QED
    BY <2>1, <2>3
<1> QED
  BY <1>1, <1>3, <1>5, <1>6, <1>9, <1>10, <1>11, <1>12, <1>13 DEF PartsOf

LEMMA PartsOfIs ==
  ASSUME NEW a \in Nat, NEW b \in Nat, NEW s, Sorted(s, a, b), NEW m \in 1 .. Len(s)
  PROVE  PartsOf(s, m, a, b, s[m], SubSeq(s, 1, m), SubSeq(s, m + 1, Len(s)))
<1>1. s \in Seq(Keys) /\ Len(s) \in Nat
  BY DEF Sorted
<1>2. m \in 0 .. Len(s)
  BY <1>1
<1>3. Prefix(s, m, SubSeq(s, 1, m))
  BY <1>1, <1>2, PrefixIs DEF Prefix
<1>4. Suffix(s, m, SubSeq(s, m + 1, Len(s)))
  BY <1>1, <1>2, SuffixIs DEF Suffix
<1> QED
  BY <1>3, <1>4, PartsAre

\* s with k in two halves, of which left is up to c.
Halves(s, k, a, b, c, left, right) ==
  /\ Half(left, a, c) /\ Half(right, c, b) /\ left[Len(left)] = c
  /\ c \in Keys /\ c \in Nat /\ a < c /\ c < b
  /\ ToSet(left) \cup ToSet(right) = ToSet(s) \cup {k}

LEMMA HalvesLeft ==
  ASSUME NEW a \in Nat, NEW b \in Nat, NEW s, Sorted(s, a, b), NEW m \in 1 .. Len(s),
         m < Len(s), NEW k \in Keys, k \notin ToSet(s), a < k, k <= b, k < s[m]
  PROVE  Halves(s, k, a, b, s[m], InsertKey(SubSeq(s, 1, m), k), SubSeq(s, m + 1, Len(s)))
<1>1. PICK t, u, c : t = SubSeq(s, 1, m) /\ u = SubSeq(s, m + 1, Len(s)) /\ c = s[m]
  OBVIOUS
<1>2. /\ Sorted(t, a, c) /\ Len(t) = m /\ t[m] = c /\ t # <<>>
      /\ Sorted(u, c, b) /\ u # <<>> /\ ToSet(t) \cup ToSet(u) = ToSet(s)
      /\ c \in Keys /\ c \in Nat /\ a < c /\ c < b
  <2>1. PartsOf(s, m, a, b, s[m], SubSeq(s, 1, m), SubSeq(s, m + 1, Len(s)))
    BY PartsOfIs
  <2>2. PartsOf(s, m, a, b, c, t, u)
    BY <1>1, <2>1
  <2> QED
    BY <2>2 DEF PartsOf
<1>3. t \in Seq(Keys) /\ Increasing(t) /\ Within(t, a, c) /\ k \notin ToSet(t) /\ k <= c
  <2>1. k \in Nat /\ k < c
    BY <1>1, INFType
  <2>2. k <= c
    BY <1>2, <2>1
  <2> QED
    BY <1>2, <2>2 DEF Sorted
<1>4. PICK v : v = InsertKey(t, k)
  OBVIOUS
<1>5. /\ v \in Seq(Keys) /\ v # <<>> /\ Increasing(v) /\ Within(v, a, c)
      /\ ToSet(v) = ToSet(t) \cup {k} /\ Len(v) = Len(t) + 1
      /\ v[Len(t) + 1] = IF t # <<>> /\ k < t[Len(t)] THEN t[Len(t)] ELSE k
  BY <1>2, <1>3, <1>4, InsertKeyIs
<1>6. v[Len(v)] = c
  BY <1>1, <1>2, <1>5
<1>7. Half(v, a, c) /\ Half(u, c, b)
  BY <1>2, <1>5 DEF Half, Sorted
<1>8. ToSet(v) \cup ToSet(u) = ToSet(s) \cup {k}
  BY <1>2, <1>5
<1>9. Halves(s, k, a, b, c, v, u)
  BY <1>2, <1>6, <1>7, <1>8 DEF Halves
<1> QED
  BY <1>1, <1>4, <1>9

LEMMA HalvesRight ==
  ASSUME NEW a \in Nat, NEW b \in Nat, NEW s, Sorted(s, a, b), NEW m \in 1 .. Len(s),
         NEW k \in Keys, k \notin ToSet(s), a < k, k <= b, s[m] < k
  PROVE  Halves(s, k, a, b, s[m], SubSeq(s, 1, m), InsertKey(SubSeq(s, m + 1, Len(s)), k))
<1>1. PICK t, u, c : t = SubSeq(s, 1, m) /\ u = SubSeq(s, m + 1, Len(s)) /\ c = s[m]
  OBVIOUS
<1>2. /\ Sorted(t, a, c) /\ Len(t) = m /\ t[m] = c /\ t # <<>>
      /\ Sorted(u, c, b) /\ ToSet(t) \cup ToSet(u) = ToSet(s)
      /\ c \in Keys /\ c \in Nat /\ a < c
  <2>1. PartsOf(s, m, a, b, s[m], SubSeq(s, 1, m), SubSeq(s, m + 1, Len(s)))
    BY PartsOfIs
  <2>2. PartsOf(s, m, a, b, c, t, u)
    BY <1>1, <2>1
  <2> QED
    BY <2>2 DEF PartsOf
<1>3. u \in Seq(Keys) /\ Increasing(u) /\ Within(u, c, b) /\ k \notin ToSet(u) /\ c < k /\ c < b
  <2>1. k \in Nat /\ c < k
    BY <1>1, INFType
  <2>2. c < b
    BY <1>2, <2>1
  <2> QED
    BY <1>2, <2>1, <2>2 DEF Sorted
<1>4. PICK v : v = InsertKey(u, k)
  OBVIOUS
<1>5. /\ v \in Seq(Keys) /\ v # <<>> /\ Increasing(v) /\ Within(v, c, b)
      /\ ToSet(v) = ToSet(u) \cup {k}
  BY <1>2, <1>3, <1>4, InsertKeyIs
<1>6. t[Len(t)] = c
  BY <1>2
<1>7. Half(t, a, c) /\ Half(v, c, b)
  BY <1>2, <1>5 DEF Half, Sorted
<1>8. ToSet(t) \cup ToSet(v) = ToSet(s) \cup {k}
  BY <1>2, <1>5
<1>9. Halves(s, k, a, b, c, t, v)
  BY <1>2, <1>3, <1>6, <1>7, <1>8 DEF Halves
<1> QED
  BY <1>1, <1>4, <1>9

\* b is what the split of leaf x begins with.
Begins(b, x, l, c, s1, s2) ==
  /\ Shape(b) /\ b.more /\ b.count = 1 /\ b.off = l /\ b.key = c
  /\ b.node = LeafHalves(node, x, l, s1, s2)

LEMMA HalvedEntries ==
  ASSUME NEW n, NEW ht, NEW ht2, NEW x \in DOMAIN n, ht[x] = 0, NEW l, l \notin DOMAIN n,
         ht2[l] = 0, \A y \in DOMAIN n : ht2[y] = ht[y], NEW s1, NEW s2, NEW k \in Keys,
         ToSet(s1) \cup ToSet(s2) = ToSet(n[x].slots) \cup {k},
         \A y \in DOMAIN n : ht[y] = 0 => n[y] \in LeafNodes
  PROVE  EntriesIn(LeafHalves(n, x, l, s1, s2), ht2) = EntriesIn(n, ht) \cup {k}
<1>1. PICK n2 : n2 = LeafHalves(n, x, l, s1, s2)
  OBVIOUS
<1>2. /\ DOMAIN n2 = DOMAIN n \cup {l} /\ n2[l].slots = s1 /\ n2[x].slots = s2
  BY <1>1 DEF LeafHalves, LeafNode
<1>3. ASSUME NEW y \in DOMAIN n, y # x, ht[y] = 0 PROVE n2[y].slots = n[y].slots
  <2>1. n2[y] = [n[y] EXCEPT !.next = l] \/ n2[y] = n[y]
    BY <1>1, <1>3 DEF LeafHalves
  <2>2. n[y] \in LeafNodes
    BY <1>3
  <2>3. [n[y] EXCEPT !.next = l].slots = n[y].slots
    BY <2>2 DEF LeafNodes
  <2> QED
    BY <2>1, <2>3
<1>4. ASSUME NEW e \in EntriesIn(n2, ht2) PROVE e \in EntriesIn(n, ht) \cup {k}
  <2>1. PICK y \in DOMAIN n2 : ht2[y] = 0 /\ e \in ToSet(n2[y].slots)
    BY <1>4 DEF EntriesIn
  <2>2. e \in Keys
    BY <1>4 DEF EntriesIn
  <2>3. CASE y = l \/ y = x
    <3>1. e \in ToSet(n[x].slots) \cup {k}
      BY <1>2, <2>1, <2>3
    <3> QED
      BY <2>2, <3>1 DEF EntriesIn
  <2>4. CASE y # l /\ y # x
    <3>1. y \in DOMAIN n /\ ht[y] = 0
      BY <1>2, <2>1, <2>4
    <3>2. e \in ToSet(n[y].slots)
      BY <1>3, <2>1, <2>4, <3>1
    <3> QED
      BY <2>2, <3>1, <3>2 DEF EntriesIn
  <2> QED
    BY <2>3, <2>4
<1>5. ASSUME NEW e \in EntriesIn(n, ht) \cup {k} PROVE e \in EntriesIn(n2, ht2)
  <2>1. e \in Keys
    BY <1>5 DEF EntriesIn
  <2>2. ASSUME e \in ToSet(n[x].slots) \cup {k} PROVE e \in EntriesIn(n2, ht2)
    <3>1. e \in ToSet(n2[l].slots) \/ e \in ToSet(n2[x].slots)
      BY <1>2, <2>2
    <3>2. l \in DOMAIN n2 /\ x \in DOMAIN n2 /\ ht2[l] = 0 /\ ht2[x] = 0
      BY <1>2
    <3> QED
      BY <2>1, <3>1, <3>2 DEF EntriesIn
  <2>3. ASSUME e \notin ToSet(n[x].slots) \cup {k} PROVE e \in EntriesIn(n2, ht2)
    <3>1. PICK y \in DOMAIN n : ht[y] = 0 /\ e \in ToSet(n[y].slots)
      BY <1>5, <2>3 DEF EntriesIn
    <3>2. y # x
      BY <2>3, <3>1
    <3>3. y \in DOMAIN n2 /\ ht2[y] = 0 /\ e \in ToSet(n2[y].slots)
      BY <1>2, <1>3, <3>1, <3>2
    <3> QED
      BY <2>1, <3>3 DEF EntriesIn
  <2> QED
    BY <2>2, <2>3
<1> QED
  BY <1>1, <1>4, <1>5

LEMMA LeafHalvesSound ==
  ASSUME NEW lo, NEW hi, NEW ht, Maps(lo, lo, hi, ht),
         NEW n, NEW top \in Nat, Sound(n, lo, lo, hi, ht, top),
         NEW x \in DOMAIN n, ht[x] = 0, NEW l, NEW c \in Nat, lo[x] < c, c < hi[x],
         NEW lo2, NEW seen, NEW hi2, NEW ht2,
         CutsTo(DOMAIN n, lo, hi, ht, x, l, c, lo2, seen, hi2, ht2),
         NEW s1, Half(s1, lo[x], c), NEW s2, Half(s2, c, hi[x])
  PROVE  Sound(LeafHalves(n, x, l, s1, s2), lo2, seen, hi2, ht2, top)
BY LeafHalved DEF CutsTo, Maps

LEMMA LeafRises ==
  ASSUME NEW lo, NEW hi, NEW ht, Maps(lo, lo, hi, ht),
         levels \in Nat, Whole(node, root, lo, hi, ht, levels),
         NEW x \in DOMAIN node, ht[x] = 0, NEW k \in Keys,
         NEW l \in Nat, l # 0, l \notin DOMAIN node,
         NEW c, NEW s1, NEW s2, Halves(node[x].slots, k, lo[x], hi[x], c, s1, s2),
         NEW b, Begins(b, x, l, c, s1, s2)
  PROVE  Rises(lo, hi, ht, EntriesIn(node, ht) \cup {k}, x, b)
<1>1. Sound(node, lo, lo, hi, ht, levels)
  BY DEF Whole
<1>2. /\ Half(s1, lo[x], c) /\ Half(s2, c, hi[x]) /\ c \in Keys /\ c \in Nat
      /\ lo[x] < c /\ c < hi[x]
      /\ ToSet(s1) \cup ToSet(s2) = ToSet(node[x].slots) \cup {k}
  BY DEF Halves
<1>3. IsFiniteSet(DOMAIN node) /\ DOMAIN node \subseteq Nat \ {0}
  BY <1>1 DEF Sound, Typed
<1>4. \E lo2, seen, hi2, ht2 : CutsTo(DOMAIN node, lo, hi, ht, x, l, c, lo2, seen, hi2, ht2)
  <2>1. DOMAIN node \subseteq Nat
    BY <1>3
  <2> QED
    BY <1>2, <2>1, CutsExist
<1>5. PICK lo2, seen, hi2, ht2 : CutsTo(DOMAIN node, lo, hi, ht, x, l, c, lo2, seen, hi2, ht2)
  BY <1>4
<1>6. PICK n2 : n2 = LeafHalves(node, x, l, s1, s2)
  OBVIOUS
<1>7. Sound(n2, lo2, seen, hi2, ht2, levels)
  BY <1>1, <1>2, <1>5, <1>6, LeafHalvesSound
<1>8. /\ Maps(lo2, seen, hi2, ht2)
      /\ \A y \in DOMAIN node : /\ hi2[y] = hi[y] /\ ht2[y] = ht[y] /\ seen[y] = lo[y]
                                /\ y # x => lo2[y] = lo[y]
      /\ lo2[x] = c /\ lo2[l] = lo[x] /\ hi2[l] = c /\ ht2[l] = ht[x] /\ seen[l] = lo[x]
  BY <1>5 DEF CutsTo, CutAt
<1>9. DOMAIN n2 = DOMAIN node \cup {l}
  BY <1>6 DEF LeafHalves
<1>10. Pend(n2, lo2, seen, hi2, ht2, x, l, c)
  <2>1. x \in DOMAIN n2 /\ l \in DOMAIN n2 /\ x # l /\ ht2[l] = ht2[x]
    BY <1>8, <1>9
  <2>2. \A y \in DOMAIN n2 : y # x => seen[y] = lo2[y]
    BY <1>8, <1>9
  <2> QED
    BY <1>2, <1>8, <2>1, <2>2 DEF Pend
<1>11. \A y \in DOMAIN node : ht[y] = 0 => node[y] \in LeafNodes
  BY <1>1, NodeIs DEF Maps
<1>12. EntriesIn(n2, ht2) = EntriesIn(node, ht) \cup {k}
  <2>1. ht2[l] = 0 /\ \A y \in DOMAIN node : ht2[y] = ht[y]
    BY <1>8
  <2> QED
    BY <1>2, <1>6, <1>11, <2>1, HalvedEntries
<1>13. Kept(lo, hi, ht, ht[x], n2, lo2, hi2, ht2)
  <2>1. node[x].prev = 0 \/ (node[x].prev \in DOMAIN node /\ ht[node[x].prev] = 0)
    <3>1. LeafSound(node, lo, hi, ht, levels, x)
      BY <1>1, NodeIs DEF Maps
    <3> QED
      BY <3>1 DEF LeafSound, NIL
  <2>2. ASSUME NEW y \in DOMAIN node, ht[y] > ht[x]
        PROVE  n2[y] = node[y] /\ lo2[y] = lo[y]
    <3>1. y # x /\ y # l /\ y # node[x].prev
      BY <1>3, <2>1, <2>2
    <3> QED
      BY <1>6, <1>8, <3>1 DEF LeafHalves
  <2> QED
    BY <1>8, <1>9, <2>2 DEF Kept
<1>14. Counted(n2, 1)
  <2>1. Cardinality(DOMAIN n2) = Cardinality(DOMAIN node) + 1
    BY <1>3, <1>9, FS_AddElement
  <2> QED
    BY <2>1 DEF Counted
<1>15. /\ Shape(b) /\ b.more /\ b.count = 1 /\ b.off = l /\ b.key = c /\ b.node = n2
  BY <1>6 DEF Begins
<1>16. seen[x] = lo[x]
  BY <1>8
<1>17. Risen(lo, hi, ht, EntriesIn(node, ht) \cup {k}, x, b, lo2, seen, hi2, ht2)
  BY <1>7, <1>8, <1>10, <1>12, <1>13, <1>14, <1>15, <1>16 DEF Risen
<1> QED
  BY <1>17 DEF Rises

\* What Split begins with at the leaf x.
Beginning(x, l, k) ==
  [more |-> TRUE, key |-> SplitLeaf(x, l, k).key, off |-> l, count |-> 1,
   fits |-> SplitLeaf(x, l, k).fits, node |-> SplitLeaf(x, l, k).node]

LEMMA MovedIs ==
  ASSUME NEW s \in Seq(Keys), NEW k, Moves(s, k) # {}
  PROVE  Moved(s, k) \in 1 .. Len(s)
<1>1. Len(s) \in Nat
  OBVIOUS
<1>2. Moves(s, k) \subseteq 1 .. Len(s)
  BY DEF Moves
<1>3. Moves(s, k) \subseteq Nat
  BY <1>1, <1>2
<1>4. Min(Moves(s, k)) \in Moves(s, k)
  BY <1>3, MinIs
<1> QED
  BY <1>2, <1>4 DEF Moved

\* How SplitLeaf takes s apart.
Cleaves(x, k, s, m, t, u, s1, s2) ==
  /\ s = node[x].slots /\ m = Moved(s, k)
  /\ t = SubSeq(s, 1, m) /\ u = SubSeq(s, m + 1, Len(s))
  /\ s1 = (IF k <= t[m] THEN InsertKey(t, k) ELSE t)
  /\ s2 = (IF k <= t[m] THEN u ELSE InsertKey(u, k))

LEMMA SplitLeafIs ==
  ASSUME NEW x, NEW l, NEW k, NEW s, NEW m, NEW t, NEW u, NEW s1, NEW s2,
         Cleaves(x, k, s, m, t, u, s1, s2)
  PROVE  /\ SplitLeaf(x, l, k).fits => IF k <= t[m] THEN Fits(t, k) ELSE Fits(u, k)
         /\ SplitLeaf(x, l, k).key = s1[Len(s1)]
         /\ SplitLeaf(x, l, k).node = LeafHalves(node, x, l, s1, s2)
<1>1. LeafNode(s1, x, node[x].prev).slots = s1
  BY DEF LeafNode
<1>2. PICK f : f = IF k <= t[m] THEN Fits(t, k) ELSE Fits(u, k)
  OBVIOUS
<1>3. SplitLeaf(x, l, k) =
        [fits |-> f, key |-> s1[Len(s1)], node |-> LeafHalves(node, x, l, s1, s2)]
  BY <1>1, <1>2 DEF SplitLeaf, LeafHalves, Cleaves
<1>4. SplitLeaf(x, l, k).fits = f
  BY <1>3
<1>5. SplitLeaf(x, l, k).key = s1[Len(s1)]
  BY <1>3
<1>6. SplitLeaf(x, l, k).node = LeafHalves(node, x, l, s1, s2)
  BY <1>3
<1> QED
  BY <1>2, <1>4, <1>5, <1>6

LEMMA SplitBegins ==
  ASSUME NEW a \in Nat, NEW b \in Nat, NEW x, NEW l, NEW k \in Keys, a < k, k <= b,
         Sorted(node[x].slots, a, b), k \notin ToSet(node[x].slots),
         Moves(node[x].slots, k) # {}, ~ Fits(node[x].slots, k), SplitLeaf(x, l, k).fits
  PROVE  \E c, s1, s2 : /\ Halves(node[x].slots, k, a, b, c, s1, s2)
                        /\ Begins(Beginning(x, l, k), x, l, c, s1, s2)
<1>1. PICK s, m : s = node[x].slots /\ m = Moved(s, k)
  OBVIOUS
<1>2. PICK t, u : t = SubSeq(s, 1, m) /\ u = SubSeq(s, m + 1, Len(s))
  OBVIOUS
<1>3. PICK s1, s2 : /\ s1 = IF k <= t[m] THEN InsertKey(t, k) ELSE t
                    /\ s2 = IF k <= t[m] THEN u ELSE InsertKey(u, k)
  OBVIOUS
<1>4. /\ SplitLeaf(x, l, k).fits => IF k <= t[m] THEN Fits(t, k) ELSE Fits(u, k)
      /\ SplitLeaf(x, l, k).key = s1[Len(s1)]
      /\ SplitLeaf(x, l, k).node = LeafHalves(node, x, l, s1, s2)
  <2>1. Cleaves(x, k, s, m, t, u, s1, s2)
    BY <1>1, <1>2, <1>3 DEF Cleaves
  <2> QED
    BY <2>1, SplitLeafIs
<1>5. Sorted(s, a, b) /\ s \in Seq(Keys) /\ Len(s) \in Nat /\ k \notin ToSet(s)
  BY <1>1 DEF Sorted
<1>6. m \in 1 .. Len(s)
  BY <1>1, <1>5, MovedIs
<1>7. PartsOf(s, m, a, b, s[m], t, u)
  BY <1>2, <1>5, <1>6, PartsOfIs
<1>8. t[m] = s[m] /\ s[m] \in Nat /\ s[m] \in Keys
  BY <1>7 DEF PartsOf
<1>9. s[m] # k /\ k \in Nat
  BY <1>5, <1>6, MembersAre, INFType
<1>10. Halves(s, k, a, b, s[m], s1, s2)
  <2>1. CASE k <= t[m]
    <3>1. s1 = InsertKey(t, k) /\ s2 = u
      BY <1>3, <2>1
    <3>2. k < s[m]
      BY <1>8, <1>9, <2>1
    <3>3. m # Len(s)
      <4> SUFFICES ASSUME m = Len(s) PROVE FALSE
        OBVIOUS
      <4>1. Fits(t, k)
        BY <1>4, <2>1
      <4>2. t = s
        <5>1. /\ SubSeq(s, 1, m) \in Seq(Keys) /\ Len(SubSeq(s, 1, m)) = m
              /\ \A j \in 1 .. m : SubSeq(s, 1, m)[j] = s[j]
          <6>1. m \in 0 .. Len(s)
            BY <1>6
          <6> QED
            BY <1>5, <6>1, PrefixIs
        <5> QED
          BY <1>2, <1>5, <5>1, SeqEqual
      <4> QED
        BY <1>1, <4>1, <4>2
    <3>4. m < Len(s)
      BY <1>5, <1>6, <3>3
    <3> QED
      BY <1>2, <1>5, <1>6, <3>1, <3>2, <3>4, HalvesLeft
  <2>2. CASE ~ k <= t[m]
    <3>1. s1 = t /\ s2 = InsertKey(u, k)
      BY <1>3, <2>2
    <3>2. s[m] < k
      BY <1>8, <1>9, <2>2
    <3> QED
      BY <1>2, <1>5, <1>6, <3>1, <3>2, HalvesRight
  <2> QED
    BY <2>1, <2>2
<1>11. s1[Len(s1)] = s[m]
  BY <1>10 DEF Halves
<1>12. Begins(Beginning(x, l, k), x, l, s[m], s1, s2)
  BY <1>4, <1>11 DEF Begins, Beginning, Shape
<1> QED
  BY <1>1, <1>10, <1>12

-----------------------------------------------------------------------------
(* The whole split *)

\* The values that Split goes through, from the leaf up to level h.
Steps(p, top, first, h, b) ==
  b = [i \in h .. top |-> IF i = top THEN first ELSE InsertUp(b[i + 1], p[i])]

LEMMA StepsExist ==
  ASSUME NEW p, NEW top \in Nat, NEW first
  PROVE  \E b : Steps(p, top, first, 0, b)
<1> DEFINE T == {m \in Nat : m <= top /\ ~ \E b : Steps(p, top, first, top - m, b)}
<1>0. ASSUME T = {} PROVE \E b : Steps(p, top, first, 0, b)
  <2>1. top \notin T /\ top - top = 0
    BY <1>0
  <2> QED
    BY <2>1
<1> SUFFICES ASSUME T # {} PROVE FALSE
  BY <1>0
<1>1. PICK m \in T : \A l \in T : m <= l
  <2>1. T \subseteq Nat
    OBVIOUS
  <2> HIDE DEF T
  <2> QED
    BY <2>1, LeastOfNaturals
<1>2. m \in Nat /\ m <= top /\ ~ \E b : Steps(p, top, first, top - m, b)
  OBVIOUS
<1>3. CASE m = 0
  <2> DEFINE a == [o \in top .. top |-> first]
  <2>1. Steps(p, top, first, top, a)
    BY DEF Steps
  <2>2. top - m = top
    BY <1>3
  <2> QED
    BY <1>2, <2>1, <2>2
<1>4. CASE m # 0
  <2>1. m - 1 \in Nat /\ m - 1 < m /\ m - 1 <= top
    BY <1>2, <1>4
  <2>2. m - 1 \notin T
    BY <1>1, <2>1
  <2>3. PICK a : Steps(p, top, first, top - (m - 1), a)
    BY <2>1, <2>2
  <2>4. PICK h : h = top - m
    OBVIOUS
  <2>5. h \in Nat /\ top - (m - 1) = h + 1 /\ h # top
    BY <1>2, <1>4, <2>4
  <2>6. Steps(p, top, first, h + 1, a)
    BY <2>3, <2>5
  <2> DEFINE b == [i \in h .. top |-> IF i = h THEN InsertUp(a[h + 1], p[h]) ELSE a[i]]
  <2>7. \A o \in h + 1 .. top : o \in h .. top /\ b[o] = a[o]
    BY <2>5
  <2>8. \A o \in h .. top : o # h => o \in h + 1 .. top
    BY <2>5
  <2>9. \A o \in h .. top : o # top => o + 1 \in h + 1 .. top
    BY <2>5
  <2>10. \A o \in h + 1 .. top : a[o] = IF o = top THEN first ELSE InsertUp(a[o + 1], p[o])
    BY <2>6 DEF Steps
  <2> HIDE DEF b
  <2>11. \A o \in h .. top : b[o] = IF o = top THEN first ELSE InsertUp(b[o + 1], p[o])
    <3>1. b[h] = InsertUp(a[h + 1], p[h])
      BY <1>2, <2>4, <2>5 DEF b
    <3>2. h \in h .. top /\ h + 1 \in h + 1 .. top
      BY <1>2, <1>4, <2>4, <2>5
    <3> QED
      BY <2>5, <2>7, <2>8, <2>9, <2>10, <3>1, <3>2
  <2>12. b = [i \in h .. top |-> b[i]]
    BY DEF b
  <2>13. Steps(p, top, first, h, b)
    BY <2>11, <2>12 DEF Steps
  <2> QED
    BY <1>2, <2>4, <2>13
<1> QED
  BY <1>3, <1>4

StepsUp(p, top, first, b) ==
  b[top] = first /\ \A i \in 0 .. top - 1 : b[i] = InsertUp(b[i + 1], p[i])

LEMMA SplitIs ==
  ASSUME NEW k, levels \in Nat
  PROVE  \E b : /\ Split(k) = b[0]
                /\ StepsUp(Path(k), levels, Beginning(Path(k)[levels], Alloc(node), k), b)
<1>1. PICK p, first : p = Path(k) /\ first = Beginning(Path(k)[levels], Alloc(node), k)
  OBVIOUS
<1>2. PICK b : b = CHOOSE a : Steps(p, levels, first, 0, a)
  OBVIOUS
<1>3. Steps(p, levels, first, 0, b)
  BY <1>2, StepsExist
<1>4. Split(k) = b[0]
  BY <1>1, <1>2 DEF Split, Steps, Beginning
<1>5. \A i \in 0 .. levels : b[i] = IF i = levels THEN first ELSE InsertUp(b[i + 1], p[i])
  BY <1>3 DEF Steps
<1>6. levels \in 0 .. levels /\ \A i \in 0 .. levels - 1 : i \in 0 .. levels /\ i # levels
  OBVIOUS
<1>7. StepsUp(p, levels, first, b)
  BY <1>5, <1>6 DEF StepsUp
<1> QED
  BY <1>1, <1>4, <1>7

\* p goes down from parent to child.
Climbs(p, ht, top) == \A i \in 0 .. top - 1 : \E j : IsKid(node, ht, p[i], j, p[i + 1])

LEMMA PathClimbs ==
  ASSUME NEW lo, NEW hi, NEW ht, Maps(lo, lo, hi, ht),
         levels \in Nat, Whole(node, root, lo, hi, ht, levels), NEW k \in 1 .. INF
  PROVE  Climbs(Path(k), ht, levels) /\ Leads(node, lo, hi, ht, levels, k, Path(k))
<1>1. PICK p : p = Path(k)
  OBVIOUS
<1>2. /\ lo \in [Nat -> Nat] /\ hi \in [Nat -> Nat] /\ ht \in [Nat -> Nat]
      /\ Sound(node, lo, lo, hi, ht, levels) /\ RootSound(node, root, lo, hi, ht, levels)
  BY DEF Maps, Whole
<1>3. Walk(node, root, k, levels, p)
  BY <1>1, PathIs
<1>4. Leads(node, lo, hi, ht, levels, k, p)
  BY <1>2, <1>3, WalkLeads
<1>5. \A i \in 1 .. levels : p[i] = Child(node[p[i - 1]], k)
  BY <1>3, WalkIs DEF StepsDown
<1>6. ASSUME NEW i \in 0 .. levels - 1 PROVE \E j : IsKid(node, ht, p[i], j, p[i + 1])
  <2>1. PICK y : y = p[i]
    OBVIOUS
  <2>2. i \in 0 .. levels /\ i + 1 \in 1 .. levels /\ (i + 1) - 1 = i /\ i < levels /\ i \in Nat
    OBVIOUS
  <2>3. For(node, lo, hi, y, k) /\ ht[y] + i = levels
    BY <1>4, <2>1, <2>2 DEF Leads
  <2>4. y \in DOMAIN node /\ lo[y] < k /\ k <= hi[y]
    BY <2>3 DEF For
  <2>5. ht[y] \in Nat /\ lo[y] \in Nat /\ hi[y] \in Nat
    BY <1>2, <2>4, NodeIs
  <2>6. ht[y] # 0
    BY <2>2, <2>3, <2>5
  <2>7. node[y] \in TreeNodes
    BY <1>2, <2>4, <2>6, NodeIs
  <2>8. PICK j : j = LowerBound(KeysOf(node[y].slots), k)
    OBVIOUS
  <2>9. Finds(node[y], k, j, lo[y], hi[y])
    <3>1. k \in Nat
      BY INFType
    <3> QED
      BY <2>4, <2>5, <2>7, <2>8, <3>1, ChildIs
  <2>10. p[i + 1] = Child(node[y], k)
    BY <1>5, <2>1, <2>2
  <2>11. IsKid(node, ht, y, j, p[i + 1])
    BY <2>4, <2>6, <2>9, <2>10 DEF Finds, IsKid
  <2> QED
    BY <2>1, <2>11
<1> QED
  BY <1>1, <1>4, <1>6 DEF Climbs

LEMMA StepsRise ==
  ASSUME NEW lo, NEW hi, NEW ht, Maps(lo, lo, hi, ht),
         levels \in Nat, Whole(node, root, lo, hi, ht, levels),
         NEW p, Climbs(p, ht, levels), NEW first, NEW b, StepsUp(p, levels, first, b),
         NEW S, Shape(first), first.fits => Rises(lo, hi, ht, S, p[levels], first),
         b[0].fits
  PROVE  Rises(lo, hi, ht, S, p[0], b[0])
<1> DEFINE Good(i) == Shape(b[i]) /\ (b[i].fits => Rises(lo, hi, ht, S, p[i], b[i]))
           T == {m \in Nat : m <= levels /\ ~ Good(levels - m)}
<1>1. ASSUME T # {} PROVE FALSE
  <2>1. PICK m \in T : \A l \in T : m <= l
    <3>1. T \subseteq Nat
      OBVIOUS
    <3> HIDE DEF T
    <3> QED
      BY <1>1, <3>1, LeastOfNaturals
  <2>2. m \in Nat /\ m <= levels /\ ~ Good(levels - m)
    OBVIOUS
  <2>3. m # 0
    <3> SUFFICES ASSUME m = 0 PROVE FALSE
      OBVIOUS
    <3>1. levels - m = levels
      OBVIOUS
    <3>2. b[levels] = first
      BY DEF StepsUp
    <3>3. Good(levels)
      BY <3>2
    <3> HIDE DEF Good
    <3> QED
      BY <2>2, <3>1, <3>3
  <2>4. m - 1 \in Nat /\ m - 1 < m /\ m - 1 <= levels
    BY <2>2, <2>3
  <2>5. m - 1 \notin T
    BY <2>1, <2>4
  <2>6. PICK i : i = levels - m
    OBVIOUS
  <2>7. i \in 0 .. levels - 1 /\ levels - (m - 1) = i + 1
    BY <2>2, <2>3, <2>6
  <2>8. Good(i + 1)
    BY <2>4, <2>5, <2>7
  <2>9. PICK id, x, c : id = p[i] /\ x = p[i + 1] /\ c = b[i + 1]
    OBVIOUS
  <2>10. Shape(c) /\ (c.fits => Rises(lo, hi, ht, S, x, c))
    BY <2>8, <2>9
  <2>11. b[i] = InsertUp(c, id)
    BY <2>7, <2>9 DEF StepsUp
  <2>12. Shape(InsertUp(c, id)) /\ (InsertUp(c, id).fits => c.fits)
    BY <2>10, InsertUpFitting
  <2>13. PICK j : IsKid(node, ht, id, j, x)
    BY <2>7, <2>9 DEF Climbs
  <2>14. ASSUME InsertUp(c, id).fits PROVE Rises(lo, hi, ht, S, id, InsertUp(c, id))
    BY <2>10, <2>12, <2>13, <2>14, RiseStep
  <2>15. Good(i)
    BY <2>9, <2>11, <2>12, <2>14
  <2> HIDE DEF Good
  <2> QED
    BY <2>2, <2>6, <2>15
<1>2. Good(0)
  <2>1. levels \notin T
    <3> HIDE DEF T
    <3> QED
      BY <1>1
  <2>2. Good(levels - levels)
    BY <2>1
  <2>3. levels - levels = 0
    OBVIOUS
  <2> QED
    BY <2>2, <2>3
<1> QED
  BY <1>2

-----------------------------------------------------------------------------
(* A new root *)

Filled(n, ht) == \A y \in DOMAIN n : ht[y] = 0 => n[y].slots # <<>>

\* The maps with a new root at r.
Crowned(D, lo, hi, ht, r, top, lo2, hi2, ht2) ==
  /\ Maps(lo2, lo2, hi2, ht2)
  /\ \A y \in D : lo2[y] = lo[y] /\ hi2[y] = hi[y] /\ ht2[y] = ht[y]
  /\ lo2[r] = 0 /\ hi2[r] = INF /\ ht2[r] = top

LEMMA CrownedExist ==
  ASSUME NEW lo, NEW seen, NEW hi, NEW ht, Maps(lo, seen, hi, ht), NEW D, D \subseteq Nat,
         NEW r \in Nat, r \notin D, NEW top \in Nat
  PROVE  \E lo2, hi2, ht2 : Crowned(D, lo, hi, ht, r, top, lo2, hi2, ht2)
<1>1. PICK lo2, hi2, ht2 : /\ lo2 = [lo EXCEPT ![r] = 0] /\ hi2 = [hi EXCEPT ![r] = INF]
                           /\ ht2 = [ht EXCEPT ![r] = top]
  OBVIOUS
<1>2. /\ lo \in [Nat -> Nat] /\ hi \in [Nat -> Nat] /\ ht \in [Nat -> Nat] /\ INF \in Nat
  BY INFType DEF Maps
<1>3. Maps(lo2, lo2, hi2, ht2)
  BY <1>1, <1>2 DEF Maps
<1>4. lo2[r] = 0 /\ hi2[r] = INF /\ ht2[r] = top
  BY <1>1, <1>2
<1>5. \A y \in D : lo2[y] = lo[y] /\ hi2[y] = hi[y] /\ ht2[y] = ht[y]
  BY <1>1, <1>2
<1>6. Crowned(D, lo, hi, ht, r, top, lo2, hi2, ht2)
  BY <1>3, <1>4, <1>5 DEF Crowned
<1> QED
  BY <1>6

\* The old root x and its left half d, for the keys up to c, below r.
Root(r, d, c, x, n, n2) ==
  /\ DOMAIN n2 = DOMAIN n \cup {r}
  /\ \A y \in DOMAIN n : n2[y] = n[y]
  /\ n2[r] = TreeNode(<<[key |-> c, adr |-> d]>>, x)

LEMMA RootKids ==
  ASSUME NEW c \in Keys, NEW d \in Nat, NEW x \in Nat,
         NEW t, t = TreeNode(<<[key |-> c, adr |-> d]>>, x)
  PROVE  /\ t \in TreeNodes /\ t.slots # <<>> /\ Len(t.slots) = 1
         /\ Keyed(t, 0, INF)
         /\ Kid(t, 1) = d /\ Low(t, 1, 0) = 0 /\ High(t, 1, INF) = c
         /\ Kid(t, 2) = x /\ Low(t, 2, 0) = c /\ High(t, 2, INF) = INF
<1>1. t.slots = <<[key |-> c, adr |-> d]>> /\ t.last = x
  BY DEF TreeNode
<1>2. t.slots \in Seq(Slot) /\ Len(t.slots) = 1 /\ t.slots[1].key = c /\ t.slots[1].adr = d
  <2>1. PICK e : e = [key |-> c, adr |-> d]
    OBVIOUS
  <2>2. e \in Slot /\ e.key = c /\ e.adr = d
    BY <2>1 DEF Slot
  <2>3. <<e>> \in Seq(Slot) /\ Len(<<e>>) = 1 /\ <<e>>[1] = e
    BY <2>2
  <2> QED
    BY <1>1, <2>1, <2>2, <2>3
<1>3. t \in TreeNodes
  BY <1>1, <1>2 DEF TreeNodes, TreeNode
<1>4. Keyed(t, 0, INF)
  <2>1. 0 < c /\ c < INF
    BY INFType
  <2>2. \A i, j \in 1 .. Len(t.slots) : i < j => t.slots[i].key < t.slots[j].key
    BY <1>2
  <2>3. \A i \in 1 .. Len(t.slots) : 0 < t.slots[i].key /\ t.slots[i].key < INF
    BY <1>2, <2>1
  <2> QED
    BY <1>3, <2>2, <2>3, KeyedIf
<1>5. Kid(t, 1) = d /\ Low(t, 1, 0) = 0 /\ High(t, 1, INF) = c
  BY <1>2 DEF Kid, Low, High
<1>6. Kid(t, 2) = x /\ Low(t, 2, 0) = c /\ High(t, 2, INF) = INF
  BY <1>1, <1>2 DEF Kid, Low, High
<1> QED
  BY <1>1, <1>2, <1>3, <1>4, <1>5, <1>6

LEMMA RootGrows ==
  ASSUME NEW lo, NEW seen, NEW hi, NEW ht, Maps(lo, seen, hi, ht), NEW top \in Nat, NEW n,
         Sound(n, lo, seen, hi, ht, top), Filled(n, ht),
         NEW x, NEW d, NEW c, Pend(n, lo, seen, hi, ht, x, d, c),
         seen[x] = 0, hi[x] = INF, ht[x] = top,
         NEW r \in Nat, r # 0, r \notin DOMAIN n, NEW n2, Root(r, d, c, x, n, n2),
         NEW lo2, NEW hi2, NEW ht2, Crowned(DOMAIN n, lo, hi, ht, r, top + 1, lo2, hi2, ht2)
  PROVE  Whole(n2, r, lo2, hi2, ht2, top + 1)
<1>1. /\ x \in DOMAIN n /\ d \in DOMAIN n /\ x # d /\ ht[d] = ht[x] /\ c \in Keys
      /\ hi[d] = c /\ lo[x] = c /\ seen[x] = lo[d]
      /\ \A y \in DOMAIN n : y # x => seen[y] = lo[y]
  BY DEF Pend
<1>2. /\ DOMAIN n2 = DOMAIN n \cup {r}
      /\ \A y \in DOMAIN n : n2[y] = n[y]
      /\ n2[r] = TreeNode(<<[key |-> c, adr |-> d]>>, x)
  BY DEF Root
<1>3. /\ \A y \in DOMAIN n : lo2[y] = lo[y] /\ hi2[y] = hi[y] /\ ht2[y] = ht[y]
      /\ lo2[r] = 0 /\ hi2[r] = INF /\ ht2[r] = top + 1
  BY DEF Crowned
<1>4. /\ IsFiniteSet(DOMAIN n) /\ DOMAIN n \subseteq Nat \ {0}
      /\ Disjoint(n, lo, hi, ht)
  BY DEF Sound, Typed
<1>5. ASSUME NEW y \in DOMAIN n
      PROVE  /\ lo[y] \in Nat /\ hi[y] \in Nat /\ ht[y] \in Nat
             /\ lo[y] < hi[y] /\ hi[y] <= INF /\ ht[y] <= top
             /\ ht[y] = 0 => n[y] \in LeafNodes /\ LeafSound(n, lo, hi, ht, top, y)
             /\ ht[y] # 0 => n[y] \in TreeNodes /\ KidsSound(n, lo, seen, hi, ht, y)
  BY NodeFacts
<1>6. PICK t : t = TreeNode(<<[key |-> c, adr |-> d]>>, x)
  OBVIOUS
<1>7. /\ t \in TreeNodes /\ t.slots # <<>> /\ Len(t.slots) = 1
      /\ Keyed(t, 0, INF)
      /\ Kid(t, 1) = d /\ Low(t, 1, 0) = 0 /\ High(t, 1, INF) = c
      /\ Kid(t, 2) = x /\ Low(t, 2, 0) = c /\ High(t, 2, INF) = INF
  <2>1. d \in Nat /\ x \in Nat
    BY <1>1, <1>4
  <2> QED
    BY <1>1, <1>6, <2>1, RootKids
<1>8. n2[r] = t
  BY <1>2, <1>6
<1>9. Typed(n2, lo2, hi2, ht2, top + 1)
  <2>1. IsFiniteSet(DOMAIN n2)
    BY <1>2, <1>4, FS_AddElement
  <2>2. DOMAIN n2 \subseteq Nat \ {0}
    BY <1>2, <1>4
  <2>3. ASSUME NEW y \in DOMAIN n2
        PROVE  /\ lo2[y] < hi2[y] /\ hi2[y] <= INF /\ ht2[y] <= top + 1
               /\ n2[y] \in IF ht2[y] = 0 THEN LeafNodes ELSE TreeNodes
    <3>1. CASE y = r
      BY <1>3, <1>7, <1>8, <3>1, INFType
    <3>2. CASE y \in DOMAIN n
      <4>1. ht[y] <= top + 1
        BY <1>5, <3>2
      <4> QED
        BY <1>2, <1>3, <1>5, <3>2, <4>1
    <3> QED
      BY <1>2, <3>1, <3>2
  <2> QED
    BY <2>1, <2>2, <2>3 DEF Typed
<1>10. Disjoint(n2, lo2, hi2, ht2)
  <2>1. ASSUME NEW y \in DOMAIN n2, NEW z \in DOMAIN n2, ht2[y] = ht2[z], y # z
        PROVE  hi2[y] <= lo2[z] \/ hi2[z] <= lo2[y]
    <3>1. \A w \in DOMAIN n : ht2[w] # top + 1
      BY <1>3, <1>5
    <3>2. y \in DOMAIN n /\ z \in DOMAIN n
      BY <1>2, <1>3, <2>1, <3>1
    <3> QED
      BY <1>3, <1>4, <2>1, <3>2 DEF Disjoint
  <2> QED
    BY <2>1 DEF Disjoint
<1>11. ASSUME NEW y \in DOMAIN n2, ht2[y] = 0
       PROVE  LeafSound(n2, lo2, hi2, ht2, top + 1, y)
  <2>1. y \in DOMAIN n /\ ht[y] = 0
    BY <1>2, <1>3, <1>11
  <2>2. LeafSound(n, lo, hi, ht, top, y) /\ n2[y] = n[y] /\ lo2[y] = lo[y] /\ hi2[y] = hi[y]
    BY <1>2, <1>3, <1>5, <2>1
  <2>3. n2[y].slots # <<>>
    BY <2>1, <2>2 DEF Filled
  <2> QED
    BY <1>2, <1>3, <2>2, <2>3 DEF LeafSound
<1>12. ASSUME NEW y \in DOMAIN n, ht[y] # 0
       PROVE  KidsSound(n2, lo2, lo2, hi2, ht2, y)
  <2>1. /\ KidsSound(n, lo, seen, hi, ht, y) /\ n2[y] = n[y] /\ lo2[y] = lo[y]
        /\ hi2[y] = hi[y] /\ ht2[y] = ht[y]
    BY <1>2, <1>3, <1>5, <1>12
  <2>2. ASSUME NEW j \in 1 .. (Len(n2[y].slots) + 1)
        PROVE  /\ Kid(n2[y], j) \in DOMAIN n2
               /\ ht2[Kid(n2[y], j)] + 1 = ht2[y]
               /\ lo2[Kid(n2[y], j)] = Low(n2[y], j, lo2[y])
               /\ hi2[Kid(n2[y], j)] = High(n2[y], j, hi2[y])
    <3>1. PICK z : z = Kid(n[y], j)
      OBVIOUS
    <3>2. /\ z \in DOMAIN n /\ ht[z] + 1 = ht[y]
          /\ seen[z] = Low(n[y], j, lo[y]) /\ hi[z] = High(n[y], j, hi[y])
      BY <2>1, <2>2, <3>1 DEF KidsSound
    <3>3. z # x
      BY <1>5, <3>2
    <3>4. lo2[z] = seen[z] /\ hi2[z] = hi[z] /\ ht2[z] = ht[z]
      BY <1>1, <1>3, <3>2, <3>3
    <3> QED
      BY <1>2, <2>1, <3>1, <3>2, <3>4
  <2>3. Keyed(n2[y], lo2[y], hi2[y])
    BY <2>1 DEF KidsSound
  <2> QED
    BY <2>2, <2>3 DEF KidsSound
<1>13. KidsSound(n2, lo2, lo2, hi2, ht2, r)
  <2>1. ASSUME NEW j \in 1 .. (Len(t.slots) + 1)
        PROVE  /\ Kid(t, j) \in DOMAIN n2
               /\ ht2[Kid(t, j)] + 1 = ht2[r]
               /\ lo2[Kid(t, j)] = Low(t, j, lo2[r])
               /\ hi2[Kid(t, j)] = High(t, j, hi2[r])
    <3>1. j = 1 \/ j = 2
      BY <1>7
    <3>2. CASE j = 1
      BY <1>1, <1>2, <1>3, <1>7, <3>2
    <3>3. CASE j = 2
      BY <1>1, <1>2, <1>3, <1>7, <3>3
    <3> QED
      BY <3>1, <3>2, <3>3
  <2> QED
    BY <1>3, <1>7, <1>8, <2>1 DEF KidsSound
<1>14. Sound(n2, lo2, lo2, hi2, ht2, top + 1)
  <2>1. ASSUME NEW y \in DOMAIN n2, ht2[y] # 0
        PROVE  KidsSound(n2, lo2, lo2, hi2, ht2, y)
    BY <1>2, <1>3, <1>12, <1>13, <2>1
  <2> QED
    BY <1>9, <1>10, <1>11, <2>1 DEF Sound
<1>15. RootSound(n2, r, lo2, hi2, ht2, top + 1)
  BY <1>2, <1>3 DEF RootSound
<1> QED
  BY <1>7, <1>8, <1>14, <1>15 DEF Whole

-----------------------------------------------------------------------------
(* InsertSplits *)

\* n with the root r is a sound tree with the entries S.
Becomes(n, r, top, S) ==
  \E lo, hi, ht : /\ Maps(lo, lo, hi, ht) /\ Whole(n, r, lo, hi, ht, top)
                  /\ EntriesIn(n, ht) = S

LEMMA SplitRises ==
  ASSUME NEW lo, NEW hi, NEW ht, Maps(lo, lo, hi, ht),
         levels \in Nat, Whole(node, root, lo, hi, ht, levels), NEW k \in Keys,
         k \notin ToSet(node[LeafOf(k)].slots), ~ Fits(node[LeafOf(k)].slots, k),
         CanSplit(k), Split(k).fits
  PROVE  /\ Rises(lo, hi, ht, EntriesIn(node, ht) \cup {k}, root, Split(k))
         /\ levels = 0 => \E s1, s2 : /\ s1 # <<>> /\ s2 # <<>>
                                      /\ Split(k).node = LeafHalves(node, root, Split(k).off, s1, s2)
<1>1. PICK x, p, l, first : /\ x = LeafOf(k) /\ p = Path(k) /\ l = Alloc(node)
                            /\ first = Beginning(x, l, k)
  OBVIOUS
<1>2. k \in 1 .. INF /\ k \in Nat
  BY INFType
<1>3. Climbs(p, ht, levels) /\ Leads(node, lo, hi, ht, levels, k, p)
  BY <1>1, <1>2, PathClimbs
<1>4. p[levels] = x
  BY <1>1 DEF LeafOf
<1>5. p[0] = root
  <2>1. Walk(node, root, k, levels, p)
    BY <1>1, PathIs
  <2> QED
    BY <2>1, WalkIs DEF StepsDown
<1>6. Sound(node, lo, lo, hi, ht, levels)
  BY DEF Whole
<1>7. For(node, lo, hi, x, k) /\ ht[x] + levels = levels
  BY <1>3, <1>4 DEF Leads
<1>8. x \in DOMAIN node /\ lo[x] < k /\ k <= hi[x]
  BY <1>7 DEF For
<1>9. /\ lo[x] \in Nat /\ hi[x] \in Nat /\ ht[x] \in Nat
      /\ ht[x] = 0 => node[x] \in LeafNodes /\ LeafSound(node, lo, hi, ht, levels, x)
  BY <1>6, <1>8, NodeFacts
<1>10. ht[x] = 0
  BY <1>7, <1>9
<1>11. Sorted(node[x].slots, lo[x], hi[x])
  <2>1. node[x].slots \in Seq(Keys)
    BY <1>9, <1>10, LeafNodeIs
  <2> QED
    BY <1>9, <1>10, <2>1 DEF LeafSound, Sorted
<1>12. k \notin ToSet(node[x].slots) /\ ~ Fits(node[x].slots, k) /\ Moves(node[x].slots, k) # {}
  BY <1>1 DEF CanSplit
<1>13. PICK b : Split(k) = b[0] /\ StepsUp(p, levels, first, b)
  BY <1>1, <1>4, SplitIs
<1>14. Shape(first) /\ (first.fits <=> SplitLeaf(x, l, k).fits)
  BY <1>1 DEF Beginning, Shape
<1>15. l \in Nat /\ l # 0 /\ l \notin DOMAIN node
  <2>1. IsFiniteSet(DOMAIN node) /\ DOMAIN node \subseteq Nat \ {0}
    BY <1>6 DEF Sound, Typed
  <2> QED
    BY <1>1, <2>1, AllocIs
<1>16. ASSUME first.fits
       PROVE  \E c, s1, s2 : /\ Halves(node[x].slots, k, lo[x], hi[x], c, s1, s2)
                             /\ Begins(first, x, l, c, s1, s2)
  BY <1>1, <1>8, <1>9, <1>11, <1>12, <1>14, <1>16, SplitBegins
<1>17. ASSUME first.fits
       PROVE  Rises(lo, hi, ht, EntriesIn(node, ht) \cup {k}, p[levels], first)
  <2>1. PICK c, s1, s2 : /\ Halves(node[x].slots, k, lo[x], hi[x], c, s1, s2)
                         /\ Begins(first, x, l, c, s1, s2)
    BY <1>16, <1>17
  <2>2. Rises(lo, hi, ht, EntriesIn(node, ht) \cup {k}, x, first)
    BY <1>8, <1>10, <1>15, <2>1, LeafRises
  <2> QED
    BY <1>4, <2>2
<1>18. Rises(lo, hi, ht, EntriesIn(node, ht) \cup {k}, p[0], b[0])
  <2>1. b[0].fits
    BY <1>13
  <2> QED
    BY <1>3, <1>13, <1>14, <1>17, <2>1, StepsRise
<1>19. ASSUME levels = 0
       PROVE  \E s1, s2 : /\ s1 # <<>> /\ s2 # <<>>
                          /\ Split(k).node = LeafHalves(node, root, Split(k).off, s1, s2)
  <2>1. Split(k) = first /\ x = root
    BY <1>4, <1>5, <1>13, <1>19 DEF StepsUp
  <2>2. PICK c, s1, s2 : /\ Halves(node[x].slots, k, lo[x], hi[x], c, s1, s2)
                         /\ Begins(first, x, l, c, s1, s2)
    BY <1>16, <2>1
  <2> QED
    BY <2>1, <2>2 DEF Halves, Half, Begins
<1> QED
  BY <1>5, <1>13, <1>18, <1>19

\* A tree without levels is one leaf.
LEMMA OnlyLeaf ==
  ASSUME NEW lo, NEW hi, NEW ht, Maps(lo, lo, hi, ht), NEW n, NEW r,
         Whole(n, r, lo, hi, ht, 0)
  PROVE  DOMAIN n = {r}
<1>1. Sound(n, lo, lo, hi, ht, 0) /\ r \in DOMAIN n /\ lo[r] = 0 /\ hi[r] = INF
  BY DEF Whole, RootSound
<1>2. ASSUME NEW y \in DOMAIN n PROVE y = r
  <2>1. /\ lo[y] \in Nat /\ hi[y] \in Nat /\ lo[y] < hi[y] /\ hi[y] <= INF
        /\ ht[y] \in Nat /\ ht[y] <= 0 /\ ht[r] \in Nat /\ ht[r] <= 0
    BY <1>1, <1>2, NodeFacts
  <2>2. ht[y] = ht[r]
    BY <2>1
  <2>3. y # r => hi[y] <= lo[r] \/ hi[r] <= lo[y]
    BY <1>1, <2>2 DEF Sound, Disjoint
  <2> QED
    BY <1>1, <2>1, <2>3, INFType
<1> QED
  BY <1>1, <1>2

LEMMA SplitFilled ==
  ASSUME NEW lo, NEW hi, NEW ht, Maps(lo, lo, hi, ht),
         levels \in Nat, Whole(node, root, lo, hi, ht, levels), NEW b, NEW S,
         NEW lo2, NEW seen, NEW hi2, NEW ht2,
         Risen(lo, hi, ht, S, root, b, lo2, seen, hi2, ht2), b.more,
         levels = 0 => \E s1, s2 : /\ s1 # <<>> /\ s2 # <<>>
                                   /\ b.node = LeafHalves(node, root, b.off, s1, s2)
  PROVE  Filled(b.node, ht2)
<1>1. Maps(lo2, seen, hi2, ht2) /\ Sound(b.node, lo2, seen, hi2, ht2, levels)
  BY DEF Risen
<1>2. CASE levels = 0
  <2>1. PICK s1, s2, n, l : /\ s1 # <<>> /\ s2 # <<>> /\ n = b.node /\ l = b.off
                            /\ n = LeafHalves(node, root, l, s1, s2)
    BY <1>2
  <2>2. DOMAIN node = {root}
    BY <1>2, OnlyLeaf
  <2>3. DOMAIN n = {root, l} /\ n[l].slots = s1 /\ (root # l => n[root].slots = s2)
    BY <2>1, <2>2 DEF LeafHalves, LeafNode
  <2> QED
    BY <2>1, <2>3 DEF Filled
<1>3. CASE levels # 0
  <2>1. ASSUME NEW y \in DOMAIN b.node, ht2[y] = 0 PROVE b.node[y].slots # <<>>
    <3>1. LeafSound(b.node, lo2, hi2, ht2, levels, y)
      BY <1>1, <2>1, NodeFacts
    <3> QED
      BY <1>3, <3>1 DEF LeafSound
  <2> QED
    BY <2>1 DEF Filled
<1> QED
  BY <1>2, <1>3

\* What InsertSplits does with the outcome of Split.
Rooted(b, r) == Put(b.node, r, TreeNode(<<[key |-> b.key, adr |-> b.off]>>, root))

LEMMA SplitOutcome ==
  ASSUME NEW lo, NEW hi, NEW ht, Maps(lo, lo, hi, ht),
         levels \in Nat, Whole(node, root, lo, hi, ht, levels),
         nnodes = Cardinality(DOMAIN node), NEW b, NEW S,
         Rises(lo, hi, ht, S, root, b),
         levels = 0 => \E s1, s2 : /\ s1 # <<>> /\ s2 # <<>>
                                   /\ b.node = LeafHalves(node, root, b.off, s1, s2),
         NEW r, r = Alloc(b.node)
  PROVE  IF b.more
         THEN /\ Becomes(Rooted(b, r), r, levels + 1, S)
              /\ nnodes + b.count + 1 = Cardinality(DOMAIN Rooted(b, r))
         ELSE /\ Becomes(b.node, root, levels, S)
              /\ nnodes + b.count = Cardinality(DOMAIN b.node)
<1>1. PICK lo2, seen, hi2, ht2 : Risen(lo, hi, ht, S, root, b, lo2, seen, hi2, ht2)
  BY DEF Rises
<1>2. PICK n, d, c : n = b.node /\ d = b.off /\ c = b.key
  OBVIOUS
<1>3. /\ Maps(lo2, seen, hi2, ht2)
      /\ b.count \in Nat /\ Cardinality(DOMAIN n) = Cardinality(DOMAIN node) + b.count
      /\ EntriesIn(n, ht2) = S
      /\ Kept(lo, hi, ht, ht[root], n, lo2, hi2, ht2)
  BY <1>1, <1>2 DEF Risen, Counted
<1>4. root \in DOMAIN node /\ ht[root] = levels /\ lo[root] = 0 /\ hi[root] = INF
  BY DEF Whole, RootSound
<1>5. CASE ~ b.more
  <2>1. Whole(n, root, lo2, hi2, ht2, levels)
    BY <1>1, <1>2, <1>5 DEF Risen
  <2>2. Maps(lo2, lo2, hi2, ht2)
    BY <1>3 DEF Maps
  <2>3. Becomes(n, root, levels, S)
    BY <1>3, <2>1, <2>2 DEF Becomes
  <2>4. nnodes + b.count = Cardinality(DOMAIN n)
    BY <1>3
  <2> QED
    BY <1>2, <1>5, <2>3, <2>4
<1>6. CASE b.more
  <2>1. /\ Sound(n, lo2, seen, hi2, ht2, levels)
        /\ Pend(n, lo2, seen, hi2, ht2, root, d, c)
        /\ seen[root] = lo[root]
    BY <1>1, <1>2, <1>6 DEF Risen
  <2>2. Filled(n, ht2)
    BY <1>1, <1>2, <1>6, SplitFilled
  <2>3. seen[root] = 0 /\ hi2[root] = INF /\ ht2[root] = levels /\ root \in DOMAIN n
    BY <1>3, <1>4, <2>1 DEF Kept
  <2>4. IsFiniteSet(DOMAIN n) /\ DOMAIN n \subseteq Nat \ {0}
    BY <2>1 DEF Sound, Typed
  <2>5. r \in Nat /\ r # 0 /\ r \notin DOMAIN n
    BY <1>2, <2>4, AllocIs
  <2>6. PICK n2 : n2 = Rooted(b, r)
    OBVIOUS
  <2>7. Root(r, d, c, root, n, n2)
    BY <1>2, <2>5, <2>6 DEF Root, Rooted, Put
  <2>8. \E lo3, hi3, ht3 : Crowned(DOMAIN n, lo2, hi2, ht2, r, levels + 1, lo3, hi3, ht3)
    <3>1. DOMAIN n \subseteq Nat /\ levels + 1 \in Nat
      BY <2>4
    <3> QED
      BY <1>3, <2>5, <3>1, CrownedExist
  <2>9. PICK lo3, hi3, ht3 : Crowned(DOMAIN n, lo2, hi2, ht2, r, levels + 1, lo3, hi3, ht3)
    BY <2>8
  <2>10. Whole(n2, r, lo3, hi3, ht3, levels + 1)
    BY <1>3, <2>1, <2>2, <2>3, <2>5, <2>7, <2>9, RootGrows
  <2>11. Maps(lo3, lo3, hi3, ht3)
    BY <2>9 DEF Crowned
  <2>12. EntriesIn(n2, ht3) = S
    <3>1. DOMAIN n2 = DOMAIN n \cup {r} /\ \A y \in DOMAIN n : n2[y] = n[y]
      BY <2>7 DEF Root
    <3>2. \A y \in DOMAIN n : ht3[y] = ht2[y] /\ (ht2[y] = 0 => n2[y] = n[y])
      BY <2>9, <3>1 DEF Crowned
    <3>3. \A y \in DOMAIN n2 : y \notin DOMAIN n => ht3[y] # 0
      BY <2>9, <3>1 DEF Crowned
    <3>4. EntriesIn(n2, ht3) = EntriesIn(n, ht2)
      BY <3>1, <3>2, <3>3, EntriesSame
    <3> QED
      BY <1>3, <3>4
  <2>13. Becomes(n2, r, levels + 1, S)
    BY <2>10, <2>11, <2>12 DEF Becomes
  <2>14. nnodes + b.count + 1 = Cardinality(DOMAIN n2)
    <3>1. DOMAIN n2 = DOMAIN n \cup {r}
      BY <2>7 DEF Root
    <3>2. Cardinality(DOMAIN n2) = Cardinality(DOMAIN n) + 1
      BY <2>4, <2>5, <3>1, FS_AddElement
    <3> QED
      BY <1>3, <3>2
  <2> QED
    BY <1>6, <2>6, <2>13, <2>14
<1> QED
  BY <1>5, <1>6

\* The tree is another one, and the iterator knows.
LEMMA Replaced ==
  ASSUME Types, levels' \in Nat, nnodes' = Cardinality(DOMAIN node'), Stale, UNCHANGED failed,
         NEW S, Becomes(node', root', levels', S)
  PROVE  Types' /\ \E lo, hi, ht \in [Nat -> Nat] :
                     Ranged(lo, hi, ht)' /\ EntriesIn(node', ht) = S
<1>1. PICK lo, hi, ht : /\ Maps(lo, lo, hi, ht) /\ Whole(node', root', lo, hi, ht, levels')
                        /\ EntriesIn(node', ht) = S
  BY DEF Becomes
<1>2. lo \in [Nat -> Nat] /\ hi \in [Nat -> Nat] /\ ht \in [Nat -> Nat]
  BY <1>1 DEF Maps
<1>3. /\ Sound(node', lo, lo, hi, ht, levels') /\ RootSound(node', root', lo, hi, ht, levels')
      /\ levels' > 0 => node'[root'].slots # <<>>
  BY <1>1 DEF Whole
<1>4. /\ it' \in [off : Nat, cur : Keys \cup {NIL}, fresh : BOOLEAN]
      /\ it'.off = it.off /\ it'.cur = it.cur /\ it'.fresh = FALSE
  BY DEF Types, Stale
<1>5. AtHome(node', it', lo, hi, ht)
  BY <1>4 DEF AtHome
<1>6. Types'
  BY <1>3, <1>4 DEF Types
<1>7. Ranged(lo, hi, ht)'
  BY <1>3, <1>5 DEF Ranged
<1> QED
  BY <1>1, <1>2, <1>6, <1>7

LEMMA InsertSplitsStep ==
  ASSUME NEW lo \in [Nat -> Nat], NEW hi \in [Nat -> Nat], NEW ht \in [Nat -> Nat],
         Types, Ranged(lo, hi, ht), NEW k \in Keys, InsertSplits(k)
  PROVE  Types' /\ \E lo2, hi2, ht2 \in [Nat -> Nat] :
                     /\ Ranged(lo2, hi2, ht2)'
                     /\ Adds(EntriesIn(node, ht), k, EntriesIn(node', ht2))
<1>1. PICK S, b, r : /\ S = EntriesIn(node, ht) \cup {k} /\ b = Split(k) /\ r = Alloc(b.node)
  OBVIOUS
<1>2. /\ Maps(lo, lo, hi, ht) /\ levels \in Nat /\ Whole(node, root, lo, hi, ht, levels)
      /\ nnodes = Cardinality(DOMAIN node)
  BY DEF Maps, Types, Ranged, Whole
<1>3. /\ k \notin ToSet(node[LeafOf(k)].slots) /\ ~ Fits(node[LeafOf(k)].slots, k)
      /\ CanSplit(k) /\ Split(k).fits /\ Stale /\ UNCHANGED failed
  BY DEF InsertSplits
<1>4. IF b.more THEN /\ node' = Rooted(b, r) /\ root' = r /\ levels' = levels + 1
                     /\ nnodes' = nnodes + b.count + 1
      ELSE node' = b.node /\ nnodes' = nnodes + b.count /\ root' = root /\ levels' = levels
  BY <1>1 DEF InsertSplits, Rooted
<1>5. /\ Rises(lo, hi, ht, S, root, b)
      /\ levels = 0 => \E s1, s2 : /\ s1 # <<>> /\ s2 # <<>>
                                   /\ b.node = LeafHalves(node, root, b.off, s1, s2)
  BY <1>1, <1>2, <1>3, SplitRises
<1>6. IF b.more
      THEN /\ Becomes(Rooted(b, r), r, levels + 1, S)
           /\ nnodes + b.count + 1 = Cardinality(DOMAIN Rooted(b, r))
      ELSE /\ Becomes(b.node, root, levels, S)
           /\ nnodes + b.count = Cardinality(DOMAIN b.node)
  BY <1>1, <1>2, <1>5, SplitOutcome
<1>7. /\ levels' \in Nat /\ nnodes' = Cardinality(DOMAIN node')
      /\ Becomes(node', root', levels', S)
  BY <1>2, <1>4, <1>6
<1>8. Types' /\ \E lo2, hi2, ht2 \in [Nat -> Nat] :
                  Ranged(lo2, hi2, ht2)' /\ EntriesIn(node', ht2) = S
  BY <1>3, <1>7, Replaced
<1> QED
  BY <1>1, <1>8 DEF Adds

=============================================================================
