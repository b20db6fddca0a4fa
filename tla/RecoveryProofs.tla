--------------------------- MODULE RecoveryProofs ---------------------------
(***************************************************************************)
(* Proofs about Recovery, for files and numbers of failures of any size:   *)
(* what every file that is there looks like, and then which commits are    *)
(* found again after a crash, a loss of power or half a rebuild.           *)
(***************************************************************************)
EXTENDS Recovery, SequenceTheorems, WellFoundedInduction, TLAPS

\* data block j is in the checksum of a commit record among the first n blocks
InCommit(f, n, j) ==
  \E k \in 1 .. n : f[k].kind = "commit" /\ j \in Summed(f, k)

\* What a commit created is in its checksum or in an earlier one, and the
\* commits are numbered up to c.
CoveredIn(f, c) ==
  \A i \in DOMAIN f : f[i].kind = "commit" =>
    /\ f[i].state = "ok" => f[i].id \in 1 .. c
    /\ \A j \in f[i].creates : InCommit(f, i, j)

\* What an active transaction created is in the running checksum or in that of
\* a commit record that was written since.
FreshCovered ==
  \A j \in fresh : \/ j \in Summed(main, Len(main) + 1)
                   \/ InCommit(main, Len(main), j)

ClosedIsEmpty == pc # "open" => fresh = {} /\ sum = {}

IInv ==
  /\ TypeOK
  /\ CoveredIn(main, commits)
  /\ CoveredIn(tmp, commits)
  /\ FreshCovered
  /\ ClosedIsEmpty

-----------------------------------------------------------------------------
(* Files                                                                    *)

LEMMA NewBlockTyped ==
  /\ \A kind \in Kinds : Block(kind) \in BlockType
  /\ \A kind \in Kinds, state \in {"garbled", "bad"} :
       [Block(kind) EXCEPT !.state = state] \in BlockType
  /\ \A id \in Nat, creates \in SUBSET Nat, covered \in SUBSET Nat :
       CommitBlock(id, creates, covered) \in BlockType
BY DEF Block, CommitBlock, BlockType, Kinds

\* A function on 1 .. n is a sequence of length n.
LEMMA SizedSeq ==
  ASSUME NEW S, NEW n \in Nat, NEW g \in [1 .. n -> S]
  PROVE  g \in Seq(S) /\ Len(g) = n
<1>1. g \in Seq(S)
  BY SeqDef
<1>2. DOMAIN g = 1 .. Len(g) /\ Len(g) \in Nat
  BY <1>1, LenProperties
<1> QED
  BY <1>1, <1>2

LEMMA AppendFacts ==
  ASSUME NEW f \in Seq(BlockType), NEW b \in BlockType
  PROVE  /\ Append(f, b) \in Seq(BlockType)
         /\ Len(Append(f, b)) = Len(f) + 1
         /\ Len(f) \in Nat
         /\ DOMAIN f = 1 .. Len(f)
         /\ DOMAIN Append(f, b) = 1 .. Len(f) + 1
         /\ \A i \in 1 .. Len(f) : Append(f, b)[i] = f[i]
         /\ Append(f, b)[Len(f) + 1] = b
<1>1. Append(f, b) \in Seq(BlockType)
  OBVIOUS
<1>2. Len(Append(f, b)) = Len(f) + 1 /\ Len(f) \in Nat
  OBVIOUS
<1>3. DOMAIN f = 1 .. Len(f) /\ DOMAIN Append(f, b) = 1 .. Len(f) + 1
  BY <1>1, <1>2, LenProperties
<1> QED
  BY <1>1, <1>2, <1>3

\* The checksum at block i is of the kinds of the blocks before it.
LEMMA SummedSame ==
  ASSUME NEW f, NEW g, NEW i \in Nat,
         \A j \in 1 .. i - 1 : f[j].kind = g[j].kind
  PROVE  Summed(f, i) = Summed(g, i)
BY DEF Summed

\* Blocks that are alike but in what damage, flushing and copying change, and
\* a shorter file, leave commits covered.
LEMMA CoveredAlike ==
  ASSUME NEW f \in Seq(BlockType), NEW g \in Seq(BlockType), NEW c \in Nat,
         CoveredIn(f, c),
         Len(g) <= Len(f),
         \A i \in 1 .. Len(g) :
           /\ g[i].kind = f[i].kind
           /\ g[i].id = f[i].id
           /\ g[i].creates = f[i].creates
           /\ g[i].kind = "commit" /\ g[i].state = "ok" => f[i].state = "ok"
  PROVE  CoveredIn(g, c)
<1>1. DOMAIN f = 1 .. Len(f) /\ DOMAIN g = 1 .. Len(g)
      /\ Len(f) \in Nat /\ Len(g) \in Nat
  BY LenProperties
<1> SUFFICES ASSUME NEW i \in DOMAIN g, g[i].kind = "commit"
             PROVE  /\ g[i].state = "ok" => g[i].id \in 1 .. c
                    /\ \A j \in g[i].creates : InCommit(g, i, j)
  BY DEF CoveredIn
<1>2. i \in DOMAIN f /\ f[i].kind = "commit" /\ i \in Nat
  BY <1>1
<1>3. g[i].state = "ok" => g[i].id \in 1 .. c
  BY <1>1, <1>2 DEF CoveredIn
<1>4. ASSUME NEW j \in g[i].creates
      PROVE  InCommit(g, i, j)
  <2>1. PICK k \in 1 .. i : f[k].kind = "commit" /\ j \in Summed(f, k)
    BY <1>1, <1>2 DEF CoveredIn, InCommit
  <2>2. Summed(f, k) = Summed(g, k)
    BY <1>1, <1>2, SummedSame
  <2> QED
    BY <1>1, <1>2, <2>1, <2>2 DEF InCommit
<1> QED
  BY <1>3, <1>4

\* A block that is not a good commit, or a commit of what is covered, can be
\* appended.
LEMMA CoveredAppend ==
  ASSUME NEW f \in Seq(BlockType), NEW b \in BlockType, NEW c \in Nat,
         CoveredIn(f, c),
         b.kind = "commit" =>
           /\ b.state = "ok" => b.id \in 1 .. c
           /\ \A j \in b.creates : \/ j \in Summed(f, Len(f) + 1)
                                   \/ InCommit(f, Len(f), j)
  PROVE  CoveredIn(Append(f, b), c)
<1> DEFINE g == Append(f, b)
<1>1. /\ g \in Seq(BlockType) /\ Len(g) = Len(f) + 1 /\ Len(f) \in Nat
      /\ DOMAIN f = 1 .. Len(f) /\ DOMAIN g = 1 .. Len(f) + 1
      /\ \A i \in 1 .. Len(f) : g[i] = f[i]
      /\ g[Len(f) + 1] = b
  BY AppendFacts
<1> HIDE DEF g
<1>2. \A k \in 1 .. Len(f) + 1 : Summed(g, k) = Summed(f, k)
  <2> SUFFICES ASSUME NEW k \in 1 .. Len(f) + 1
               PROVE  Summed(g, k) = Summed(f, k)
    OBVIOUS
  <2>1. k \in Nat /\ \A j \in 1 .. k - 1 : g[j].kind = f[j].kind
    BY <1>1
  <2> QED
    BY <2>1, SummedSame
<1>3. ASSUME NEW n \in 1 .. Len(f), NEW j, InCommit(f, n, j)
      PROVE  InCommit(g, n, j)
  BY <1>1, <1>2, <1>3 DEF InCommit
<1>4. ASSUME NEW i \in DOMAIN g, g[i].kind = "commit"
      PROVE  /\ g[i].state = "ok" => g[i].id \in 1 .. c
             /\ \A j \in g[i].creates : InCommit(g, i, j)
  <2>1. CASE i \in 1 .. Len(f)
    BY <1>1, <1>3, <1>4, <2>1 DEF CoveredIn
  <2>2. CASE i = Len(f) + 1
    <3>1. b.kind = "commit" /\ g[i] = b
      BY <1>1, <1>4, <2>2
    <3>2. ASSUME NEW j \in b.creates PROVE InCommit(g, i, j)
      <4>1. CASE j \in Summed(f, Len(f) + 1)
        BY <1>1, <1>2, <2>2, <3>1, <4>1 DEF InCommit
      <4>2. CASE InCommit(f, Len(f), j)
        BY <1>1, <1>2, <2>2, <4>2 DEF InCommit
      <4> QED
        BY <3>1, <3>2, <4>1, <4>2
    <3> QED
      BY <3>1, <3>2
  <2> QED
    BY <1>1, <2>1, <2>2
<1>5. CoveredIn(g, c)
  BY <1>4 DEF CoveredIn
<1> QED
  BY <1>5 DEF g

\* Commits that the check comes to are good, so that all that is in the
\* checksum of a kept commit or of one before it is unharmed.
LEMMA CoveredIsIntact ==
  ASSUME NEW f \in Seq(BlockType), NEW c \in Nat, CoveredIn(f, c)
  PROVE  IntactIn(f)
<1>1. DOMAIN f = 1 .. Len(f) /\ Len(f) \in Nat
  BY LenProperties
<1> SUFFICES ASSUME NEW i \in Kept(f), NEW j \in f[i].creates
             PROVE  j < i /\ f[j].kind = "data" /\ f[j].state = "ok"
  BY DEF IntactIn
<1>2. i \in 1 .. Len(f) /\ i \in Scanned(f) /\ GoodCommit(f, i)
  BY <1>1 DEF Kept, Scanned
<1>3. PICK k \in 1 .. i : f[k].kind = "commit" /\ j \in Summed(f, k)
  BY <1>1, <1>2 DEF CoveredIn, InCommit, GoodCommit
<1>4. j \in 1 .. k - 1 /\ f[j].kind = "data"
  BY <1>3 DEF Summed
<1>5. GoodCommit(f, k)
  <2>1. CASE k = i
    BY <1>2, <2>1
  <2>2. CASE k # i
    BY <1>2, <1>3, <2>2 DEF Scanned
  <2> QED
    BY <2>1, <2>2
<1> QED
  BY <1>2, <1>3, <1>4, <1>5 DEF GoodCommit

LEMMA KeptIdsBounded ==
  ASSUME NEW f \in Seq(BlockType), NEW c \in Nat, CoveredIn(f, c)
  PROVE  KeptIds(f) \subseteq 1 .. c
BY DEF KeptIds, Kept, Scanned, GoodCommit, CoveredIn

\* With more commits the numbers are bounded all the more.
LEMMA CoveredMore ==
  ASSUME NEW f, NEW c \in Nat, NEW d \in Nat, c <= d, CoveredIn(f, c)
  PROVE  CoveredIn(f, d)
BY DEF CoveredIn

LEMMA FlushedFacts ==
  ASSUME NEW f \in Seq(BlockType), NEW from \in Nat
  PROVE  /\ Flushed(f, from) \in Seq(BlockType)
         /\ Len(Flushed(f, from)) = Len(f)
         /\ \A i \in 1 .. Len(f) :
              /\ Flushed(f, from)[i].kind = f[i].kind
              /\ Flushed(f, from)[i].id = f[i].id
              /\ Flushed(f, from)[i].creates = f[i].creates
              /\ Flushed(f, from)[i].state = f[i].state
<1>1. Len(f) \in Nat /\ DOMAIN f = 1 .. Len(f)
      /\ \A i \in 1 .. Len(f) : f[i] \in BlockType
  BY LenProperties, ElementOfSeq
<1>2. Flushed(f, from) \in [1 .. Len(f) -> BlockType]
  BY <1>1 DEF Flushed, BlockType
<1>3. Flushed(f, from) \in Seq(BlockType) /\ Len(Flushed(f, from)) = Len(f)
  BY <1>1, <1>2, SizedSeq
<1> QED
  BY <1>1, <1>3 DEF Flushed, BlockType

\* What is in the running checksum is still in it when a block is appended,
\* or else in that of the commit record that is appended.
LEMMA RunningAppend ==
  ASSUME NEW f \in Seq(BlockType), NEW b \in BlockType, NEW j,
         b.kind \in {"data", "other", "commit"},
         j \in Summed(f, Len(f) + 1) \/ InCommit(f, Len(f), j)
  PROVE  \/ j \in Summed(Append(f, b), Len(f) + 2)
         \/ InCommit(Append(f, b), Len(f) + 1, j)
<1> DEFINE g == Append(f, b)
<1>1. /\ Len(f) \in Nat
      /\ \A i \in 1 .. Len(f) : g[i] = f[i]
      /\ g[Len(f) + 1] = b
  BY AppendFacts
<1> HIDE DEF g
<1>2. \A k \in 1 .. Len(f) + 1 : Summed(g, k) = Summed(f, k)
  <2> SUFFICES ASSUME NEW k \in 1 .. Len(f) + 1
               PROVE  Summed(g, k) = Summed(f, k)
    OBVIOUS
  <2>1. k \in Nat /\ \A i \in 1 .. k - 1 : g[i].kind = f[i].kind
    BY <1>1
  <2> QED
    BY <2>1, SummedSame
<1>3. CASE InCommit(f, Len(f), j)
  <2>1. InCommit(g, Len(f) + 1, j)
    BY <1>1, <1>2, <1>3 DEF InCommit
  <2> QED
    BY <2>1 DEF g
<1>4. CASE j \in Summed(f, Len(f) + 1) /\ b.kind = "commit"
  <2>1. InCommit(g, Len(f) + 1, j)
    BY <1>1, <1>2, <1>4 DEF InCommit
  <2> QED
    BY <2>1 DEF g
<1>5. CASE j \in Summed(f, Len(f) + 1) /\ b.kind # "commit"
  <2>1. j \in Summed(g, Len(f) + 2)
    BY <1>1, <1>5 DEF Summed
  <2> QED
    BY <2>1 DEF g
<1> QED
  BY <1>3, <1>4, <1>5

\* What a file that can be recovered is copied up to.
LEMMA LastKept ==
  ASSUME NEW f \in Seq(BlockType), Kept(f) # {}
  PROVE  \E i \in Kept(f) : \A j \in Kept(f) : j <= i
<1> DEFINE T == {k \in Nat : Len(f) - k \in Kept(f)}
<1>1. Len(f) \in Nat /\ Kept(f) \subseteq 1 .. Len(f)
  BY LenProperties DEF Kept, Scanned
<1>2. T # {}
  <2>1. PICK i \in Kept(f) : TRUE
    OBVIOUS
  <2>2. Len(f) - i \in Nat /\ Len(f) - (Len(f) - i) = i
    BY <1>1, <2>1
  <2> QED
    BY <2>1, <2>2
<1>3. PICK k \in T : \A l \in T : <<l, k>> \notin OpToRel(<, Nat)
  <2>1. T \subseteq Nat
    OBVIOUS
  <2> HIDE DEF T
  <2> QED
    BY <1>2, <2>1, NatLessThanWellFounded, WFMin
<1>4. \A l \in T : k <= l
  <2> SUFFICES ASSUME NEW l \in T PROVE k <= l
    OBVIOUS
  <2>1. ~ (l < k)
    BY <1>3 DEF OpToRel
  <2> QED
    BY <2>1
<1>5. \A j \in Kept(f) : j <= Len(f) - k
  <2> SUFFICES ASSUME NEW j \in Kept(f) PROVE j <= Len(f) - k
    OBVIOUS
  <2>1. Len(f) - j \in Nat /\ Len(f) - (Len(f) - j) = j
    BY <1>1
  <2>2. k <= Len(f) - j
    BY <1>4, <2>1
  <2> QED
    BY <1>1, <2>1, <2>2
<1> QED
  BY <1>5

-----------------------------------------------------------------------------
(* The invariant, action by action                                          *)

LEMMA InitIInv == Init => IInv
<1> SUFFICES ASSUME Init PROVE IInv
  OBVIOUS
<1> DEFINE f == <<Block("data"), CommitBlock(1, {1}, {1}), Block("shutdown")>>
<1>1. f \in Seq(BlockType) /\ Len(f) = 3
  <2>1. Block("data") \in BlockType /\ Block("shutdown") \in BlockType
        /\ CommitBlock(1, {1}, {1}) \in BlockType
    BY NewBlockTyped DEF Kinds
  <2> QED
    BY <2>1
<1>2. /\ f[1].kind = "data" /\ f[2].kind = "commit" /\ f[3].kind = "shutdown"
      /\ f[2].id = 1 /\ f[2].creates = {1}
  BY DEF Block, CommitBlock
<1> HIDE DEF f
<1>3. CoveredIn(f, 1)
  <2>1. 1 \in Summed(f, 2)
    BY <1>2 DEF Summed
  <2>2. InCommit(f, 2, 1)
    BY <1>2, <2>1 DEF InCommit
  <2> QED
    BY <1>1, <1>2, <2>2 DEF CoveredIn
<1>4. main = Flushed(f, 0)
  BY DEF Init, Loaded, f
<1>5. main \in Seq(BlockType) /\ CoveredIn(main, 1)
  BY <1>1, <1>3, <1>4, FlushedFacts, CoveredAlike
<1>6. tmp \in Seq(BlockType) /\ CoveredIn(tmp, 1)
  BY DEF Init, Missing, CoveredIn
<1>7. TypeOK
  <2>1. 0 \in 0 .. MaxBlocks /\ 0 \in 0 .. MaxLosses
    BY BlocksAssumption, LossesAssumption
  <2>2. /\ pc = "closed" /\ opened = 0 /\ fresh = {} /\ sum = {}
        /\ bak = {} /\ losses = 0 /\ commits = 1 /\ log = {1}
        /\ synced = {1} /\ damaged = FALSE
    BY DEF Init
  <2>3. bak \subseteq 1 .. commits /\ log \subseteq 1 .. commits
        /\ synced \subseteq 1 .. commits /\ commits \in Nat
    BY <2>2
  <2>4. fresh \subseteq DOMAIN main /\ sum \subseteq DOMAIN main
    BY <2>2
  <2>5. pc \in {"open", "closed", "copied", "unbacked", "moved"}
        /\ damaged \in BOOLEAN /\ losses \in 0 .. MaxLosses
        /\ opened \in 0 .. MaxBlocks
    BY <2>1, <2>2
  <2> QED
    BY <1>5, <1>6, <2>3, <2>4, <2>5 DEF TypeOK
<1>8. CoveredIn(main, commits) /\ CoveredIn(tmp, commits)
  <2>1. commits = 1
    BY DEF Init
  <2> QED
    BY <1>5, <1>6, <2>1
<1>9. FreshCovered /\ ClosedIsEmpty
  BY DEF Init, FreshCovered, ClosedIsEmpty
<1> QED
  BY <1>7, <1>8, <1>9 DEF IInv

\* An open database appends a block that is no session record, and a commit
\* record only of what active transactions created.
LEMMA AppendKeeps ==
  ASSUME IInv, NEW b \in BlockType, b.kind \in {"data", "other", "commit"},
         NEW c \in Nat, commits <= c,
         b.kind = "commit" => b.id \in 1 .. c /\ b.creates \subseteq fresh
  PROVE  /\ Append(main, b) \in Seq(BlockType)
         /\ Len(Append(main, b)) = Len(main) + 1
         /\ DOMAIN Append(main, b) = DOMAIN main \cup {Len(main) + 1}
         /\ CoveredIn(Append(main, b), c)
         /\ CoveredIn(tmp, c)
         /\ \A j \in fresh : \/ j \in Summed(Append(main, b), Len(main) + 2)
                             \/ InCommit(Append(main, b), Len(main) + 1, j)
<1>1. main \in Seq(BlockType) /\ commits \in Nat
  BY DEF IInv, TypeOK
<1>2. CoveredIn(main, c) /\ CoveredIn(tmp, c)
  BY <1>1, CoveredMore DEF IInv
<1>3. CoveredIn(Append(main, b), c)
  BY <1>1, <1>2, CoveredAppend DEF IInv, FreshCovered
<1>4. \A j \in fresh : \/ j \in Summed(Append(main, b), Len(main) + 2)
                       \/ InCommit(Append(main, b), Len(main) + 1, j)
  BY <1>1, RunningAppend DEF IInv, FreshCovered
<1> QED
  BY <1>1, <1>2, <1>3, <1>4, AppendFacts

LEMMA StartIInv == IInv /\ Start => IInv'
<1> SUFFICES ASSUME IInv, Start PROVE IInv'
  OBVIOUS
<1> DEFINE b == Block("startup")
           f == Append(main, b)
<1>1. main \in Seq(BlockType) /\ commits \in Nat /\ Len(main) \in Nat
  BY LenProperties DEF IInv, TypeOK
<1>2. b \in BlockType /\ b.kind = "startup"
  BY NewBlockTyped DEF Block, Kinds
<1> HIDE DEF b
<1>3. f \in Seq(BlockType) /\ CoveredIn(f, commits)
  BY <1>1, <1>2, AppendFacts, CoveredAppend DEF IInv
<1> HIDE DEF f
<1>4. main' = Flushed(f, Len(main))
  BY DEF Start, f, b
<1>5. main' \in Seq(BlockType) /\ CoveredIn(main', commits)
  BY <1>1, <1>3, <1>4, FlushedFacts, CoveredAlike
<1>6. UNCHANGED <<bak, tmp, losses, commits, damaged>>
      /\ fresh' = {} /\ sum' = {} /\ pc' = "open" /\ opened' = Len(main)
      /\ Len(main) < MaxBlocks
  BY DEF Start
<1>7. synced' \subseteq 1 .. commits
  <2>1. synced' = SyncedBy(main')
    BY <1>4 DEF Start, f, b
  <2> QED
    BY <1>1, <1>5, <2>1, KeptIdsBounded DEF SyncedBy, IInv, TypeOK
<1>8. log' \subseteq 1 .. commits
  <2>1. KeptIds(main) \subseteq 1 .. commits
    BY <1>1, KeptIdsBounded DEF IInv
  <2> QED
    BY <2>1 DEF Start, IInv, TypeOK
<1>9. TypeOK'
  BY <1>1, <1>5, <1>6, <1>7, <1>8, BlocksAssumption DEF IInv, TypeOK
<1>10. CoveredIn(main, commits)' /\ CoveredIn(tmp, commits)'
  BY <1>5, <1>6 DEF IInv
<1>11. FreshCovered' /\ ClosedIsEmpty'
  BY <1>6 DEF FreshCovered, ClosedIsEmpty
<1> QED
  BY <1>9, <1>10, <1>11 DEF IInv

LEMMA OutputIInv == ASSUME IInv, NEW created \in BOOLEAN, Output(created) PROVE IInv'
<1> DEFINE b == Block("data")
<1>1. main \in Seq(BlockType) /\ commits \in Nat /\ Len(main) \in Nat
      /\ DOMAIN main = 1 .. Len(main)
  BY LenProperties DEF IInv, TypeOK
<1>2. b \in BlockType /\ b.kind = "data"
  BY NewBlockTyped DEF Block, Kinds
<1>3. main' = Append(main, b)
  BY DEF Output
<1> HIDE DEF b
<1>4. /\ main' \in Seq(BlockType) /\ Len(main') = Len(main) + 1
      /\ DOMAIN main' = DOMAIN main \cup {Len(main) + 1}
      /\ CoveredIn(main', commits) /\ CoveredIn(tmp, commits)
      /\ \A j \in fresh : \/ j \in Summed(main', Len(main) + 2)
                          \/ InCommit(main', Len(main) + 1, j)
  BY <1>1, <1>2, <1>3, AppendKeeps
<1>5. UNCHANGED <<bak, tmp, pc, opened, losses, commits, log, synced, damaged>>
      /\ fresh' \subseteq fresh \cup {Len(main) + 1}
      /\ sum' = sum \cup {Len(main) + 1}
      /\ pc = "open"
  BY DEF Output, history
<1>6. Len(main) + 1 \in Summed(main', Len(main) + 2)
  <2>1. main'[Len(main) + 1].kind = "data"
    BY <1>1, <1>2, <1>3, AppendFacts
  <2> QED
    BY <1>1, <2>1 DEF Summed
<1>7. TypeOK'
  BY <1>4, <1>5 DEF IInv, TypeOK
<1>8. FreshCovered' /\ ClosedIsEmpty'
  BY <1>1, <1>4, <1>5, <1>6 DEF FreshCovered, ClosedIsEmpty
<1> QED
  BY <1>4, <1>5, <1>7, <1>8 DEF IInv

LEMMA OutputOtherIInv == ASSUME IInv, OutputOther PROVE IInv'
<1> DEFINE b == Block("other")
<1>1. main \in Seq(BlockType) /\ commits \in Nat /\ Len(main) \in Nat
  BY LenProperties DEF IInv, TypeOK
<1>2. b \in BlockType /\ b.kind = "other"
  BY NewBlockTyped DEF Block, Kinds
<1>3. main' = Append(main, b)
  BY DEF OutputOther
<1> HIDE DEF b
<1>4. /\ main' \in Seq(BlockType) /\ Len(main') = Len(main) + 1
      /\ DOMAIN main' = DOMAIN main \cup {Len(main) + 1}
      /\ CoveredIn(main', commits) /\ CoveredIn(tmp, commits)
      /\ \A j \in fresh : \/ j \in Summed(main', Len(main) + 2)
                          \/ InCommit(main', Len(main) + 1, j)
  BY <1>1, <1>2, <1>3, AppendKeeps
<1>5. UNCHANGED <<bak, tmp, pc, opened, fresh, sum, losses,
                  commits, log, synced, damaged>>
      /\ pc = "open"
  BY DEF OutputOther, history
<1>6. TypeOK'
  BY <1>4, <1>5 DEF IInv, TypeOK
<1>7. FreshCovered' /\ ClosedIsEmpty'
  BY <1>1, <1>4, <1>5 DEF FreshCovered, ClosedIsEmpty
<1> QED
  BY <1>4, <1>5, <1>6, <1>7 DEF IInv

\* write_commit_record, with whatever active transactions created
LEMMA WrittenFacts ==
  ASSUME IInv, NEW creates \in SUBSET fresh
  PROVE  LET g == Written(main, creates)
         IN  /\ g \in Seq(BlockType)
             /\ Len(g) = Len(main) + 1
             /\ DOMAIN g = DOMAIN main \cup {Len(main) + 1}
             /\ CoveredIn(g, commits + 1)
             /\ CoveredIn(tmp, commits + 1)
             /\ \A j \in fresh : \/ j \in Summed(g, Len(main) + 2)
                                 \/ InCommit(g, Len(main) + 1, j)
<1> DEFINE b == CommitBlock(commits + 1, creates, sum)
<1>1. commits \in Nat /\ creates \in SUBSET Nat /\ sum \in SUBSET Nat
  BY LenProperties DEF IInv, TypeOK
<1>2. b \in BlockType
  <2>1. commits + 1 \in Nat
    BY <1>1
  <2> QED
    BY <1>1, <2>1, NewBlockTyped
<1>3. b.kind = "commit" /\ b.id = commits + 1 /\ b.creates = creates
      /\ b.creates \subseteq fresh
  BY DEF CommitBlock, Block
<1> HIDE DEF b
<1>4. Written(main, creates) = Append(main, b)
  BY DEF Written, b
<1>5. b.kind \in {"data", "other", "commit"} /\ b.id \in 1 .. commits + 1
      /\ commits + 1 \in Nat /\ commits <= commits + 1
  BY <1>1, <1>3
<1>6. /\ Append(main, b) \in Seq(BlockType)
      /\ Len(Append(main, b)) = Len(main) + 1
      /\ DOMAIN Append(main, b) = DOMAIN main \cup {Len(main) + 1}
      /\ CoveredIn(Append(main, b), commits + 1)
      /\ CoveredIn(tmp, commits + 1)
      /\ \A j \in fresh : \/ j \in Summed(Append(main, b), Len(main) + 2)
                          \/ InCommit(Append(main, b), Len(main) + 1, j)
  BY <1>2, <1>3, <1>5, AppendKeeps
<1> QED
  BY <1>4, <1>6

LEMMA CommitIInv == ASSUME IInv, NEW creates \in SUBSET fresh, Commit(creates) PROVE IInv'
<1>1. main \in Seq(BlockType) /\ commits \in Nat /\ Len(main) \in Nat
  BY LenProperties DEF IInv, TypeOK
<1>2. main' = Written(main, creates) /\ commits' = commits + 1
  BY DEF Commit
<1>3. /\ main' \in Seq(BlockType) /\ Len(main') = Len(main) + 1
      /\ DOMAIN main' = DOMAIN main \cup {Len(main) + 1}
      /\ CoveredIn(main', commits') /\ CoveredIn(tmp, commits')
      /\ \A j \in fresh : \/ j \in Summed(main', Len(main) + 2)
                          \/ InCommit(main', Len(main) + 1, j)
  BY <1>2, WrittenFacts
<1>4. UNCHANGED <<bak, tmp, pc, opened, losses, synced, damaged>>
      /\ fresh' \subseteq fresh /\ sum' = {} /\ pc = "open"
      /\ log' = log \cup {commits + 1}
  BY DEF Commit
<1>5. TypeOK'
  BY <1>1, <1>2, <1>3, <1>4 DEF IInv, TypeOK
<1>6. FreshCovered' /\ ClosedIsEmpty'
  BY <1>1, <1>3, <1>4 DEF FreshCovered, ClosedIsEmpty
<1> QED
  BY <1>3, <1>4, <1>5, <1>6 DEF IInv

\* Only a block's state and whether it is on disk are changed.
LEMMA ChangedBlock ==
  ASSUME NEW b \in BlockType, NEW d \in BOOLEAN,
         NEW s \in {"ok", "garbled", "bad"}
  PROVE  LET e == [b EXCEPT !.durable = d, !.state = s]
         IN  /\ e \in BlockType
             /\ e.kind = b.kind /\ e.id = b.id
             /\ e.creates = b.creates /\ e.state = s
BY DEF BlockType

\* Flushing changes nothing that is read.
LEMMA SyncIInv == ASSUME IInv, Sync PROVE IInv'
<1>1. /\ main \in Seq(BlockType) /\ commits \in Nat /\ opened \in Nat
      /\ Len(main) \in Nat /\ DOMAIN main = 1 .. Len(main)
  BY LenProperties, BlocksAssumption DEF IInv, TypeOK
<1>2. /\ main' \in Seq(BlockType) /\ Len(main') = Len(main)
      /\ \A i \in 1 .. Len(main) : main'[i].kind = main[i].kind
      /\ CoveredIn(main', commits)
  BY <1>1, FlushedFacts, CoveredAlike DEF Sync, IInv
<1>3. DOMAIN main' = DOMAIN main
  BY <1>1, <1>2, LenProperties
<1>4. UNCHANGED <<bak, tmp, pc, opened, fresh, sum, losses,
                  commits, log, damaged>>
  BY DEF Sync
<1>5. synced' \subseteq 1 .. commits
  BY <1>1, <1>2, KeptIdsBounded DEF Sync, SyncedBy, IInv, TypeOK
<1>6. TypeOK'
  BY <1>2, <1>3, <1>4, <1>5 DEF IInv, TypeOK
<1>7. \A k \in 1 .. Len(main) + 1 : Summed(main', k) = Summed(main, k)
  <2> SUFFICES ASSUME NEW k \in 1 .. Len(main) + 1
               PROVE  Summed(main', k) = Summed(main, k)
    OBVIOUS
  <2>1. k \in Nat /\ \A i \in 1 .. k - 1 : main'[i].kind = main[i].kind
    BY <1>1, <1>2
  <2> QED
    BY <2>1, SummedSame
<1>8. FreshCovered'
  BY <1>1, <1>2, <1>4, <1>7 DEF FreshCovered, InCommit, IInv
<1>9. ClosedIsEmpty'
  BY <1>4 DEF ClosedIsEmpty, IInv
<1> QED
  BY <1>2, <1>4, <1>6, <1>8, <1>9 DEF IInv

\* What the end of a process leaves, if the file is still covered.
LEMMA ClosedIInv ==
  ASSUME IInv, Closed, main' \in Seq(BlockType), commits' \in Nat,
         commits <= commits', CoveredIn(main', commits'),
         log' \subseteq 1 .. commits',
         UNCHANGED <<bak, synced>>, losses' \in 0 .. MaxLosses,
         damaged' \in BOOLEAN
  PROVE  IInv'
<1>1. /\ pc' = "closed" /\ opened' = 0 /\ fresh' = {} /\ sum' = {}
      /\ tmp' = <<>>
  BY DEF Closed, Missing
<1>2. tmp' \in Seq(BlockType) /\ CoveredIn(tmp', commits')
  BY <1>1 DEF CoveredIn
<1>3. bak' \subseteq 1 .. commits' /\ synced' \subseteq 1 .. commits'
  BY DEF IInv, TypeOK
<1>4. TypeOK'
  BY <1>1, <1>2, <1>3, BlocksAssumption DEF TypeOK
<1>5. FreshCovered' /\ ClosedIsEmpty'
  BY <1>1 DEF FreshCovered, ClosedIsEmpty
<1> QED
  BY <1>2, <1>4, <1>5 DEF IInv

LEMMA ShutdownIInv == ASSUME IInv, Shutdown PROVE IInv'
<1> DEFINE b == Block("shutdown")
<1>1. /\ main \in Seq(BlockType) /\ commits \in Nat /\ log \subseteq 1 .. commits
      /\ CoveredIn(main, commits) /\ losses \in 0 .. MaxLosses
      /\ damaged \in BOOLEAN
  BY DEF IInv, TypeOK
<1>2. b \in BlockType /\ b.kind = "shutdown"
  BY NewBlockTyped DEF Block, Kinds
<1>3. Closed /\ UNCHANGED <<bak, losses, synced, damaged>>
  BY DEF Shutdown, history
<1>4. CASE main' = Append(main, b) /\ UNCHANGED <<commits, log>>
  <2> HIDE DEF b
  <2>1. main' \in Seq(BlockType) /\ CoveredIn(main', commits)
    BY <1>1, <1>2, <1>4, AppendFacts, CoveredAppend
  <2> QED
    BY <1>1, <1>3, <1>4, <2>1, ClosedIInv
<1>5. CASE /\ main' = Append(Written(main, {}), b)
           /\ commits' = commits + 1 /\ log' = log \cup {commits + 1}
  <2> HIDE DEF b
  <2>1. Written(main, {}) \in Seq(BlockType)
        /\ CoveredIn(Written(main, {}), commits + 1)
    BY WrittenFacts
  <2> DEFINE g == Written(main, {})
             c == commits + 1
  <2>2. c \in Nat /\ commits <= c /\ log' \subseteq 1 .. c
    BY <1>1, <1>5
  <2> HIDE DEF g, c
  <2>3. g \in Seq(BlockType) /\ CoveredIn(g, c)
    BY <2>1 DEF g, c
  <2>4. Append(g, b) \in Seq(BlockType) /\ CoveredIn(Append(g, b), c)
    BY <1>2, <2>2, <2>3, AppendFacts, CoveredAppend
  <2>5. main' = Append(g, b) /\ commits' = c
    BY <1>5 DEF g, c
  <2> QED
    BY <1>1, <1>3, <1>5, <2>2, <2>4, <2>5, ClosedIInv
<1> QED
  BY <1>4, <1>5 DEF Shutdown, history

\* A block that was half written is no good commit.
LEMMA TornCovered ==
  ASSUME NEW f \in Seq(BlockType), NEW c \in Nat, CoveredIn(f, c),
         NEW g \in Torn(f)
  PROVE  g \in Seq(BlockType) /\ CoveredIn(g, c)
<1>1. CASE g = f
  BY <1>1
<1>2. ASSUME NEW kind \in Kinds, NEW state \in {"garbled", "bad"},
             g = Append(f, [Block(kind) EXCEPT !.state = state])
      PROVE  g \in Seq(BlockType) /\ CoveredIn(g, c)
  <2> DEFINE b == [Block(kind) EXCEPT !.state = state]
  <2>1. b \in BlockType
    BY NewBlockTyped
  <2>2. b.state # "ok" /\ b.creates = {}
    BY DEF Block
  <2> HIDE DEF b
  <2>3. g = Append(f, b)
    BY <1>2 DEF b
  <2> QED
    BY <2>1, <2>2, <2>3, AppendFacts, CoveredAppend
<1> QED
  BY <1>1, <1>2 DEF Torn, Checked, Kinds

LEMMA CrashIInv == ASSUME IInv, Crash PROVE IInv'
<1>1. /\ main \in Seq(BlockType) /\ commits \in Nat /\ log \subseteq 1 .. commits
      /\ CoveredIn(main, commits) /\ losses \in 0 .. MaxLosses
      /\ damaged \in BOOLEAN
  BY DEF IInv, TypeOK
<1>2. main' \in Seq(BlockType) /\ CoveredIn(main', commits)
  BY <1>1, TornCovered DEF Crash
<1>3. Closed /\ UNCHANGED <<bak, losses, commits, log, synced, damaged>>
  BY DEF Crash, history
<1> QED
  BY <1>1, <1>2, <1>3, ClosedIInv

LEMMA PowerLossIInv == ASSUME IInv, PowerLoss PROVE IInv'
<1>1. /\ main \in Seq(BlockType) /\ commits \in Nat /\ log \subseteq 1 .. commits
      /\ CoveredIn(main, commits) /\ Len(main) \in Nat
      /\ \A i \in 1 .. Len(main) : main[i] \in BlockType
  BY LenProperties, ElementOfSeq DEF IInv, TypeOK
<1>2. PICK n \in 0 .. Len(main) :
        \E garbled, bad : main' = Damaged(main, n, garbled, bad)
  BY DEF PowerLoss
<1>3. PICK garbled, bad : main' = Damaged(main, n, garbled, bad)
  BY <1>2
<1> DEFINE state(i) == IF i \in bad THEN "bad"
                       ELSE IF i \in garbled /\ main[i].state = "ok"
                       THEN "garbled" ELSE main[i].state
           e(i) == [main[i] EXCEPT !.durable = TRUE, !.state = state(i)]
<1>4. main' = [i \in 1 .. n |-> e(i)]
  BY <1>3 DEF Damaged
<1>5. ASSUME NEW i \in 1 .. n
      PROVE  /\ e(i) \in BlockType
             /\ e(i).kind = main[i].kind
             /\ e(i).id = main[i].id
             /\ e(i).creates = main[i].creates
             /\ e(i).state = "ok" => main[i].state = "ok"
  <2>1. main[i] \in BlockType
    BY <1>1
  <2>2. state(i) \in {"ok", "garbled", "bad"}
        /\ (state(i) = "ok" => main[i].state = "ok")
    BY <2>1 DEF BlockType
  <2> HIDE DEF state
  <2>3. /\ e(i) \in BlockType
        /\ e(i).kind = main[i].kind /\ e(i).id = main[i].id
        /\ e(i).creates = main[i].creates /\ e(i).state = state(i)
    BY <2>1, <2>2, ChangedBlock
  <2> QED
    BY <2>2, <2>3
<1> HIDE DEF e
<1>6. main' \in [1 .. n -> BlockType]
  BY <1>4, <1>5
<1>7. main' \in Seq(BlockType) /\ Len(main') = n /\ n \in Nat
  BY <1>1, <1>6, SizedSeq
<1>8. \A i \in 1 .. n :
        /\ main'[i].kind = main[i].kind
        /\ main'[i].id = main[i].id
        /\ main'[i].creates = main[i].creates
        /\ main'[i].state = "ok" => main[i].state = "ok"
  BY <1>4, <1>5
<1>9. CoveredIn(main', commits)
  BY <1>1, <1>7, <1>8, CoveredAlike
<1>10. Closed /\ UNCHANGED <<bak, commits, log, synced>> /\ damaged' = TRUE
  BY DEF PowerLoss
<1>11. losses' \in 0 .. MaxLosses
  BY LossesAssumption DEF PowerLoss, IInv, TypeOK
<1> QED
  BY <1>1, <1>7, <1>9, <1>10, <1>11, ClosedIInv

\* A copy is the good part of the file.
LEMMA CopiedCovered ==
  ASSUME NEW f \in Seq(BlockType), NEW c \in Nat, CoveredIn(f, c),
         Kept(f) # {}
  PROVE  Copied(f) \in Seq(BlockType) /\ CoveredIn(Copied(f), c)
<1> DEFINE last == CHOOSE i \in Kept(f) : \A j \in Kept(f) : j <= i
           state(i) == IF f[i].kind = "other" THEN "ok" ELSE f[i].state
           e(i) == [f[i] EXCEPT !.durable = FALSE, !.state = state(i)]
           g == [i \in 1 .. last |-> e(i)]
           b == Block("shutdown")
<1>1. last \in Kept(f)
  BY LastKept
<1>2. Copied(f) = Append(g, b)
  BY DEF Copied
<1>3. b \in BlockType /\ b.kind = "shutdown"
  BY NewBlockTyped DEF Block, Kinds
<1> HIDE DEF last, b
<1>4. /\ Len(f) \in Nat /\ last \in 1 .. Len(f)
      /\ \A i \in 1 .. Len(f) : f[i] \in BlockType
  BY <1>1, LenProperties, ElementOfSeq DEF Kept, Scanned
<1>5. ASSUME NEW i \in 1 .. last
      PROVE  /\ e(i) \in BlockType
             /\ e(i).kind = f[i].kind
             /\ e(i).id = f[i].id
             /\ e(i).creates = f[i].creates
             /\ e(i).kind = "commit" /\ e(i).state = "ok" => f[i].state = "ok"
  <2>1. f[i] \in BlockType
    BY <1>4
  <2>2. state(i) \in {"ok", "garbled", "bad"}
        /\ (f[i].kind = "commit" => state(i) = f[i].state)
    BY <2>1 DEF BlockType
  <2> HIDE DEF state
  <2> QED
    BY <2>1, <2>2, ChangedBlock
<1> HIDE DEF e
<1>6. /\ g \in [1 .. last -> BlockType]
      /\ \A i \in 1 .. last :
           /\ g[i].kind = f[i].kind
           /\ g[i].id = f[i].id
           /\ g[i].creates = f[i].creates
           /\ g[i].kind = "commit" /\ g[i].state = "ok" => f[i].state = "ok"
  BY <1>5
<1> HIDE DEF g
<1>7. g \in Seq(BlockType) /\ Len(g) = last
  BY <1>4, <1>6, SizedSeq
<1>8. CoveredIn(g, c)
  BY <1>4, <1>6, <1>7, CoveredAlike
<1> QED
  BY <1>2, <1>3, <1>7, <1>8, AppendFacts, CoveredAppend

LEMMA CopyIInv == ASSUME IInv, Copy PROVE IInv'
<1>1. tmp' \in Seq(BlockType) /\ CoveredIn(tmp', commits)
  BY CopiedCovered DEF Copy, Recoverable, IInv, TypeOK
<1>2. /\ UNCHANGED <<main, bak, opened, fresh, sum, losses,
                     commits, log, synced, damaged>>
      /\ pc = "closed" /\ pc' = "copied"
  BY DEF Copy, history
<1>3. TypeOK'
  BY <1>1, <1>2 DEF IInv, TypeOK
<1>4. FreshCovered' /\ ClosedIsEmpty'
  BY <1>2 DEF IInv, FreshCovered, ClosedIsEmpty
<1> QED
  BY <1>1, <1>2, <1>3, <1>4 DEF IInv

LEMMA RemoveBakIInv == ASSUME IInv, RemoveBak PROVE IInv'
<1>1. /\ UNCHANGED <<main, tmp, opened, fresh, sum, losses,
                     commits, log, synced, damaged>>
      /\ pc = "copied" /\ pc' = "unbacked" /\ bak' = {}
  BY DEF RemoveBak, history
<1>2. TypeOK'
  BY <1>1 DEF IInv, TypeOK
<1>3. FreshCovered' /\ ClosedIsEmpty'
  BY <1>1 DEF IInv, FreshCovered, ClosedIsEmpty
<1> QED
  BY <1>1, <1>2, <1>3 DEF IInv

LEMMA MoveMainIInv == ASSUME IInv, MoveMain PROVE IInv'
<1>1. /\ UNCHANGED <<tmp, opened, fresh, sum, losses,
                     commits, log, synced, damaged>>
      /\ pc = "unbacked" /\ pc' = "moved" /\ main' = <<>>
      /\ bak' = KeptIds(main)
  BY DEF MoveMain, history, Missing
<1>2. bak' \subseteq 1 .. commits
  BY <1>1, KeptIdsBounded DEF IInv, TypeOK
<1>3. fresh' = {} /\ sum' = {}
  BY <1>1 DEF IInv, ClosedIsEmpty
<1>4. main' \in Seq(BlockType) /\ CoveredIn(main', commits)
  BY <1>1 DEF CoveredIn
<1>5. TypeOK'
  BY <1>1, <1>2, <1>3, <1>4 DEF IInv, TypeOK
<1>6. FreshCovered' /\ ClosedIsEmpty'
  BY <1>3 DEF FreshCovered, ClosedIsEmpty
<1> QED
  BY <1>1, <1>4, <1>5, <1>6 DEF IInv

LEMMA MoveNewIInv == ASSUME IInv, MoveNew PROVE IInv'
<1>1. /\ UNCHANGED <<bak, opened, fresh, sum, losses, commits>>
      /\ pc = "moved" /\ pc' = "closed" /\ main' = tmp /\ tmp' = <<>>
      /\ log' = KeptIds(tmp) /\ synced' = {} /\ damaged' = FALSE
  BY DEF MoveNew, Missing
<1>2. log' \subseteq 1 .. commits
  BY <1>1, KeptIdsBounded DEF IInv, TypeOK
<1>3. fresh' = {} /\ sum' = {}
  BY <1>1 DEF IInv, ClosedIsEmpty
<1>4. /\ main' \in Seq(BlockType) /\ CoveredIn(main', commits)
      /\ tmp' \in Seq(BlockType) /\ CoveredIn(tmp', commits)
  BY <1>1 DEF CoveredIn, IInv, TypeOK
<1>5. TypeOK'
  BY <1>1, <1>2, <1>3, <1>4 DEF IInv, TypeOK
<1>6. FreshCovered' /\ ClosedIsEmpty'
  BY <1>3 DEF FreshCovered, ClosedIsEmpty
<1> QED
  BY <1>1, <1>4, <1>5, <1>6 DEF IInv

LEMMA StutterIInv == ASSUME IInv, UNCHANGED vars PROVE IInv'
<1>1. UNCHANGED <<main, bak, tmp, pc, opened, fresh, sum, losses,
                  commits, log, synced, damaged>>
  BY DEF vars, files, history
<1>2. TypeOK'
  BY <1>1 DEF IInv, TypeOK
<1>3. FreshCovered' /\ ClosedIsEmpty'
  BY <1>1 DEF IInv, FreshCovered, ClosedIsEmpty
<1> QED
  BY <1>1, <1>2, <1>3 DEF IInv

LEMMA NextIInv == IInv /\ [Next]_vars => IInv'
<1> SUFFICES ASSUME IInv, [Next]_vars PROVE IInv'
  OBVIOUS
<1>1. CASE Start
  BY <1>1, StartIInv
<1>2. CASE \E created \in BOOLEAN : Output(created)
  BY <1>2, OutputIInv
<1>3. CASE OutputOther
  BY <1>3, OutputOtherIInv
<1>4. CASE \E creates \in SUBSET fresh : Commit(creates)
  BY <1>4, CommitIInv
<1>5. CASE Sync
  BY <1>5, SyncIInv
<1>6. CASE Shutdown
  BY <1>6, ShutdownIInv
<1>7. CASE Crash
  BY <1>7, CrashIInv
<1>8. CASE PowerLoss
  BY <1>8, PowerLossIInv
<1>9. CASE Copy
  BY <1>9, CopyIInv
<1>10. CASE RemoveBak
  BY <1>10, RemoveBakIInv
<1>11. CASE MoveMain
  BY <1>11, MoveMainIInv
<1>12. CASE MoveNew
  BY <1>12, MoveNewIInv
<1>13. CASE UNCHANGED vars
  BY <1>13, StutterIInv
<1> QED
  BY <1>1, <1>2, <1>3, <1>4, <1>5, <1>6, <1>7, <1>8, <1>9, <1>10, <1>11,
     <1>12, <1>13 DEF Next

-----------------------------------------------------------------------------
(* The theorems                                                             *)

LEMMA InductiveInvariant == Spec => []IInv
<1>1. Init => IInv
  BY InitIInv
<1>2. IInv /\ [Next]_vars => IInv'
  BY NextIInv
<1> QED
  BY <1>1, <1>2, PTL DEF Spec

\* Every variable has its type.
THEOREM TypeCorrect == Spec => []TypeOK
<1>1. IInv => TypeOK
  BY DEF IInv
<1> QED
  BY <1>1, InductiveInvariant, PTL

\* Whatever was lost and however the file was damaged, all that a commit
\* created is unharmed if the check finds the commit good: in the file, and in
\* the copy that a rebuild makes of it.
THEOREM RecoveredIntact == Spec => []KeptAreIntact
<1>1. IInv => KeptAreIntact
  BY CoveredIsIntact DEF IInv, TypeOK, KeptAreIntact
<1> QED
  BY <1>1, InductiveInvariant, PTL

-----------------------------------------------------------------------------
(* What Recovery promises of the commits *)

\* the numbers of the commit records in a file, good or not
Ids(f) == {f[i].id : i \in DOMAIN f} \ {0}

\* Only commit records have a number, which goes up through the file to c.
Numbered(f, c) ==
  \A i \in DOMAIN f :
    /\ f[i].id # 0 => f[i].kind = "commit"
    /\ f[i].id <= c
    /\ \A j \in DOMAIN f : i < j /\ f[j].id # 0 => f[i].id < f[j].id

\* The check goes on behind block i.
Passes(f, i) ==
  f[i].state # "bad" /\ (f[i].kind = "commit" => GoodCommit(f, i))

Whole(f) == \A i \in DOMAIN f : Passes(f, i)

Complete(f) ==
  /\ \E i \in DOMAIN f : GoodCommit(f, i)
  /\ \E i \in DOMAIN f : ShutdownAt(f, i)

\* A file that lost nothing: at most its last block is half written.
Clean(f) ==
  /\ \A i \in DOMAIN f : Passes(f, i) \/ (i = Len(f) /\ f[i].id = 0)
  /\ Complete(f)

\* What the file lost of the commits in l was behind all that it has.
InOrder(f, l) ==
  \A d \in l : d \in Ids(f) \/ \A i \in DOMAIN f : f[i].id < d

\* Of a synced commit all the file up to it is on disk.
OnDisk(f, s) ==
  f # Missing =>
    \A d \in s : \E i \in Kept(f) :
      f[i].id = d /\ \A j \in 1 .. i : f[j].durable

\* a file with the commits l, of which s were synced
FileInv(f, c, l, s, lost) ==
  /\ Numbered(f, c)
  /\ InOrder(f, l)
  /\ OnDisk(f, s)
  /\ ~ lost /\ f # Missing => Clean(f) /\ l = Ids(f)

\* an open file with the running checksum su
OpenInv(f, l, su, lost) ==
  /\ f # Missing
  /\ su = Summed(f, Len(f) + 1)
  /\ \A j \in su : f[j].state = "ok"
  /\ l \subseteq Ids(f)
  /\ ~ lost => Whole(f)

\* the new file of a rebuild, and the file that it takes the place of
RebuildInv ==
  /\ Numbered(tmp, commits)
  /\ pc \in {"copied", "unbacked", "moved"} => Clean(tmp) /\ tmp # Missing
  /\ pc \in {"copied", "unbacked"} => main # Missing
  /\ ~ damaged /\ main = Missing => log \subseteq bak

HInv ==
  /\ IInv
  /\ FileInv(main, commits, log, synced, damaged)
  /\ pc = "open" => OpenInv(main, log, sum, damaged)
  /\ RebuildInv

-----------------------------------------------------------------------------
(* Files that agree in what the check reads                                 *)

\* The check reads the same in the first n blocks of f and of g.
SameTo(f, g, n) ==
  /\ n \in Nat
  /\ 1 .. n \subseteq DOMAIN f /\ 1 .. n \subseteq DOMAIN g
  /\ \A i \in 1 .. n :
       /\ g[i].kind = f[i].kind /\ g[i].id = f[i].id /\ g[i].sum = f[i].sum
       /\ \/ g[i].state = f[i].state
          \/ f[i].kind = "other" /\ f[i].state # "bad" /\ g[i].state # "bad"

LEMMA Blocks ==
  ASSUME NEW f \in Seq(BlockType)
  PROVE  /\ Len(f) \in Nat
         /\ DOMAIN f = 1 .. Len(f)
         /\ \A i \in 1 .. Len(f) :
              /\ f[i] \in BlockType
              /\ f[i].id \in Nat
              /\ f[i].durable \in BOOLEAN
<1>1. Len(f) \in Nat /\ DOMAIN f = 1 .. Len(f)
  BY LenProperties
<1>2. \A i \in 1 .. Len(f) : f[i] \in BlockType
  BY ElementOfSeq
<1>3. \A b \in BlockType : b.id \in Nat /\ b.durable \in BOOLEAN
  BY DEF BlockType
<1> QED
  BY <1>1, <1>2, <1>3

LEMMA SameSummed ==
  ASSUME NEW f, NEW g, NEW n, SameTo(f, g, n), NEW i \in 1 .. n + 1
  PROVE  Summed(g, i) = Summed(f, i)
<1>1. n \in Nat /\ i \in Nat /\ \A j \in 1 .. i - 1 : g[j].kind = f[j].kind
  BY DEF SameTo
<1> QED
  BY <1>1, SummedSame

\* The check finds the same of the blocks in which two files agree.
LEMMA SameGood ==
  ASSUME NEW f, NEW g, NEW n, SameTo(f, g, n), NEW i \in 1 .. n
  PROVE  /\ GoodCommit(f, i) <=> GoodCommit(g, i)
         /\ Passes(f, i) <=> Passes(g, i)
         /\ ShutdownAt(f, i) <=> ShutdownAt(g, i)
<1>1. n \in Nat /\ i \in 1 .. n + 1
  BY DEF SameTo
<1>2. Summed(g, i) = Summed(f, i)
  BY <1>1, SameSummed
<1>3. \A j \in Summed(f, i) : j \in 1 .. n /\ f[j].kind = "data"
  BY <1>1 DEF Summed
<1>4. \A j \in Summed(f, i) : g[j].state = f[j].state
  BY <1>3 DEF SameTo
<1>5. /\ g[i].kind = f[i].kind /\ g[i].sum = f[i].sum
      /\ (g[i].state = "bad") <=> (f[i].state = "bad")
      /\ f[i].kind # "other" => g[i].state = f[i].state
  BY DEF SameTo
<1>6. GoodCommit(f, i) <=> GoodCommit(g, i)
  BY <1>2, <1>4, <1>5 DEF GoodCommit
<1> QED
  BY <1>5, <1>6 DEF Passes, ShutdownAt

\* What is kept, told block by block
LEMMA KeptPasses ==
  ASSUME NEW f \in Seq(BlockType), NEW i
  PROVE  i \in Kept(f) <=>
           /\ i \in DOMAIN f
           /\ GoodCommit(f, i)
           /\ \A j \in 1 .. i - 1 : Passes(f, j)
<1>1. Len(f) \in Nat /\ DOMAIN f = 1 .. Len(f)
  BY Blocks
<1>2. ASSUME i \in Kept(f)
      PROVE  /\ i \in DOMAIN f /\ GoodCommit(f, i)
             /\ \A j \in 1 .. i - 1 : Passes(f, j)
  BY <1>1, <1>2 DEF Kept, Scanned, Passes
<1>3. ASSUME i \in DOMAIN f, GoodCommit(f, i),
             \A j \in 1 .. i - 1 : Passes(f, j)
      PROVE  i \in Kept(f)
  <2>1. f[i].state # "bad"
    BY <1>3 DEF GoodCommit
  <2>2. \A j \in 1 .. i : f[j].state # "bad"
    BY <1>1, <1>3, <2>1 DEF Passes
  <2> QED
    BY <1>3, <2>2 DEF Kept, Scanned, Passes
<1> QED
  BY <1>2, <1>3

LEMMA SameKept ==
  ASSUME NEW f \in Seq(BlockType), NEW g \in Seq(BlockType), NEW n,
         SameTo(f, g, n), NEW i \in 1 .. n, i \in Kept(f)
  PROVE  i \in Kept(g)
<1>1. /\ i \in DOMAIN f /\ GoodCommit(f, i) /\ n \in Nat
      /\ \A j \in 1 .. i - 1 : Passes(f, j)
  BY KeptPasses DEF SameTo
<1>2. GoodCommit(g, i) /\ i \in DOMAIN g
  BY <1>1, SameGood DEF SameTo
<1>3. \A j \in 1 .. i - 1 : Passes(g, j)
  BY <1>1, SameGood
<1> QED
  BY <1>2, <1>3, KeptPasses

\* A good commit has a number.
LEMMA KeptInIds ==
  ASSUME NEW f \in Seq(BlockType), NEW c \in Nat, CoveredIn(f, c)
  PROVE  KeptIds(f) \subseteq Ids(f)
BY DEF KeptIds, Kept, Scanned, GoodCommit, CoveredIn, Ids

\* All that a clean file has is kept.
LEMMA CleanKeepsAll ==
  ASSUME NEW f \in Seq(BlockType), NEW c \in Nat, CoveredIn(f, c),
         Numbered(f, c), Clean(f)
  PROVE  KeptIds(f) = Ids(f)
<1>1. Len(f) \in Nat /\ DOMAIN f = 1 .. Len(f)
  BY Blocks
<1>2. ASSUME NEW d \in Ids(f) PROVE d \in KeptIds(f)
  <2>1. PICK i \in DOMAIN f : f[i].id = d /\ d # 0
    BY DEF Ids
  <2>2. f[i].kind = "commit" /\ Passes(f, i)
    BY <2>1 DEF Numbered, Clean
  <2>3. \A j \in 1 .. i - 1 : Passes(f, j)
    BY <1>1, <2>1 DEF Clean
  <2>4. i \in Kept(f)
    BY <2>2, <2>3, KeptPasses DEF Passes
  <2> QED
    BY <2>1, <2>4 DEF KeptIds
<1> QED
  BY <1>2, KeptInIds

-----------------------------------------------------------------------------
(* Appending a block                                                        *)

LEMMA AppendSame ==
  ASSUME NEW f \in Seq(BlockType), NEW b \in BlockType
  PROVE  SameTo(f, Append(f, b), Len(f))
BY AppendFacts DEF SameTo

LEMMA IdsAppend ==
  ASSUME NEW f \in Seq(BlockType), NEW b \in BlockType
  PROVE  Ids(Append(f, b)) = Ids(f) \cup ({b.id} \ {0})
<1> DEFINE g == Append(f, b)
<1>1. /\ Len(f) \in Nat /\ DOMAIN f = 1 .. Len(f)
      /\ DOMAIN g = 1 .. Len(f) + 1
      /\ \A i \in 1 .. Len(f) : g[i] = f[i]
      /\ g[Len(f) + 1] = b
  BY AppendFacts
<1> HIDE DEF g
<1>2. Ids(g) \subseteq Ids(f) \cup ({b.id} \ {0})
  <2> SUFFICES ASSUME NEW i \in DOMAIN g, g[i].id # 0
               PROVE  g[i].id \in Ids(f) \cup ({b.id} \ {0})
    BY DEF Ids
  <2>1. CASE i \in 1 .. Len(f)
    BY <1>1, <2>1 DEF Ids
  <2>2. CASE i = Len(f) + 1
    BY <1>1, <2>2
  <2> QED
    BY <1>1, <2>1, <2>2
<1>3. Ids(f) \subseteq Ids(g)
  BY <1>1 DEF Ids
<1>4. {b.id} \ {0} \subseteq Ids(g)
  BY <1>1 DEF Ids
<1>5. Ids(g) = Ids(f) \cup ({b.id} \ {0})
  BY <1>2, <1>3, <1>4
<1> QED
  BY <1>5 DEF g

\* A block without a number, or a commit record with the next.
LEMMA NumberedAppend ==
  ASSUME NEW f \in Seq(BlockType), NEW b \in BlockType, NEW c \in Nat,
         NEW d \in Nat, c <= d, Numbered(f, c),
         b.id = 0 \/ (b.kind = "commit" /\ b.id = d /\ c < d)
  PROVE  Numbered(Append(f, b), d)
<1> DEFINE g == Append(f, b)
<1>1. /\ Len(f) \in Nat /\ DOMAIN f = 1 .. Len(f)
      /\ DOMAIN g = 1 .. Len(f) + 1
      /\ \A i \in 1 .. Len(f) : g[i] = f[i] /\ f[i].id \in Nat
      /\ g[Len(f) + 1] = b
  BY AppendFacts, Blocks
<1> HIDE DEF g
<1>2. \A i \in 1 .. Len(f) : f[i].id <= c
  BY <1>1 DEF Numbered
<1> SUFFICES ASSUME NEW i \in DOMAIN g
             PROVE  /\ g[i].id # 0 => g[i].kind = "commit"
                    /\ g[i].id <= d
                    /\ \A j \in DOMAIN g :
                         i < j /\ g[j].id # 0 => g[i].id < g[j].id
  BY DEF Numbered, g
<1>3. CASE i = Len(f) + 1
  BY <1>1, <1>3
<1>4. CASE i \in 1 .. Len(f)
  <2>1. g[i].id # 0 => g[i].kind = "commit"
    BY <1>1, <1>4 DEF Numbered
  <2>2. g[i].id <= c /\ g[i].id \in Nat
    BY <1>1, <1>2, <1>4
  <2>3. ASSUME NEW j \in DOMAIN g, i < j, g[j].id # 0
        PROVE  g[i].id < g[j].id
    <3>1. CASE j \in 1 .. Len(f)
      BY <1>1, <1>4, <2>3, <3>1 DEF Numbered
    <3>2. CASE j = Len(f) + 1
      <4>1. g[j].id = d /\ c < d
        BY <1>1, <2>3, <3>2
      <4> QED
        BY <2>2, <4>1
    <3> QED
      BY <1>1, <3>1, <3>2
  <2> QED
    BY <2>1, <2>2, <2>3
<1> QED
  BY <1>1, <1>3, <1>4

\* What is found in a file is found in it when a block is appended.
LEMMA OnDiskAppend ==
  ASSUME NEW f \in Seq(BlockType), NEW b \in BlockType, NEW s,
         f # Missing, OnDisk(f, s)
  PROVE  OnDisk(Append(f, b), s)
<1> DEFINE g == Append(f, b)
<1>1. /\ g \in Seq(BlockType) /\ Len(f) \in Nat /\ DOMAIN f = 1 .. Len(f)
      /\ \A i \in 1 .. Len(f) : g[i] = f[i]
  BY AppendFacts
<1>2. SameTo(f, g, Len(f))
  BY AppendSame
<1> HIDE DEF g
<1>3. ASSUME NEW d \in s
      PROVE  \E i \in Kept(g) : g[i].id = d /\ \A j \in 1 .. i : g[j].durable
  <2>1. PICK i \in Kept(f) : f[i].id = d /\ \A j \in 1 .. i : f[j].durable
    BY DEF OnDisk
  <2>2. i \in 1 .. Len(f)
    BY <1>1, KeptPasses
  <2>3. i \in Kept(g)
    BY <1>1, <1>2, <2>2, SameKept
  <2> QED
    BY <1>1, <2>1, <2>2, <2>3
<1>4. OnDisk(g, s)
  BY <1>3 DEF OnDisk
<1> QED
  BY <1>4 DEF g

\* A file that could be checked to its end is clean when one block is appended
\* that the check passes, or one that has no number.
LEMMA CleanAppend ==
  ASSUME NEW f \in Seq(BlockType), NEW b \in BlockType,
         Whole(f), Complete(f)
  PROVE  /\ Complete(Append(f, b))
         /\ b.id = 0 => Clean(Append(f, b))
         /\ Passes(Append(f, b), Len(f) + 1) =>
              Clean(Append(f, b)) /\ Whole(Append(f, b))
<1> DEFINE g == Append(f, b)
<1>1. /\ Len(f) \in Nat /\ DOMAIN f = 1 .. Len(f)
      /\ Len(g) = Len(f) + 1
      /\ DOMAIN g = 1 .. Len(f) + 1
      /\ g[Len(f) + 1] = b
  BY AppendFacts
<1>2. SameTo(f, g, Len(f))
  BY AppendSame
<1> HIDE DEF g
<1>3. \A i \in 1 .. Len(f) :
        /\ GoodCommit(f, i) <=> GoodCommit(g, i)
        /\ Passes(f, i) <=> Passes(g, i)
        /\ ShutdownAt(f, i) <=> ShutdownAt(g, i)
  BY <1>2, SameGood
<1>4. Complete(g)
  BY <1>1, <1>3 DEF Complete
<1>5. \A i \in 1 .. Len(f) : Passes(g, i)
  BY <1>1, <1>3 DEF Whole
<1>6. \A i \in DOMAIN g : i \in 1 .. Len(f) \/ i = Len(g)
  BY <1>1
<1>7. b.id = 0 => Clean(g)
  BY <1>1, <1>4, <1>5, <1>6 DEF Clean
<1>8. Passes(g, Len(f) + 1) => Clean(g) /\ Whole(g)
  BY <1>1, <1>4, <1>5, <1>6 DEF Clean, Whole
<1> QED
  BY <1>4, <1>7, <1>8 DEF g

\* Whatever block without a number comes behind an open file, or behind one
\* that ends with its shutdown.
LEMMA FileAppend ==
  ASSUME NEW f \in Seq(BlockType), NEW b \in BlockType, b.id = 0,
         NEW c \in Nat, NEW l \in SUBSET (1 .. c), NEW s, NEW lost \in BOOLEAN,
         f # Missing, FileInv(f, c, l, s, lost), ~ lost => Whole(f)
  PROVE  /\ FileInv(Append(f, b), c, l, s, lost)
         /\ Append(f, b) # Missing
         /\ ~ lost /\ Passes(Append(f, b), Len(f) + 1) => Whole(Append(f, b))
<1> DEFINE g == Append(f, b)
<1>1. /\ g \in Seq(BlockType) /\ Len(g) = Len(f) + 1 /\ Len(f) \in Nat
      /\ DOMAIN g = 1 .. Len(f) + 1 /\ DOMAIN f = 1 .. Len(f)
      /\ \A i \in 1 .. Len(f) : g[i] = f[i]
      /\ g[Len(f) + 1] = b
  BY AppendFacts
<1>2. Numbered(g, c)
  <2>1. Numbered(f, c)
    BY DEF FileInv
  <2> QED
    BY <2>1, NumberedAppend
<1>6. Ids(g) = Ids(f)
  <2>1. Ids(g) = Ids(f) \cup ({b.id} \ {0})
    BY IdsAppend
  <2>2. {b.id} \ {0} = {}
    OBVIOUS
  <2> QED
    BY <2>1, <2>2
<1>3. OnDisk(g, s)
  BY OnDiskAppend DEF FileInv
<1>4. ~ lost => Clean(g) /\ (Passes(g, Len(f) + 1) => Whole(g))
  BY CleanAppend DEF FileInv, Clean
<1>5. g # Missing
  BY <1>1 DEF Missing
<1> HIDE DEF g
<1>7. InOrder(g, l)
  <2> SUFFICES ASSUME NEW d \in l, d \notin Ids(f), NEW i \in DOMAIN g
               PROVE  g[i].id < d
    BY <1>6 DEF InOrder
  <2>1. \A k \in DOMAIN f : f[k].id < d
    BY DEF FileInv, InOrder
  <2>2. 0 < d
    OBVIOUS
  <2> QED
    BY <1>1, <2>1, <2>2
<1>8. FileInv(g, c, l, s, lost)
  BY <1>2, <1>3, <1>4, <1>6, <1>7 DEF FileInv
<1> QED
  BY <1>4, <1>5, <1>8 DEF g

\* An open file stays open behind a block without a number that is whole, and
\* the checksum runs on.
LEMMA OpenAppend ==
  ASSUME NEW f \in Seq(BlockType), NEW b \in BlockType,
         b.kind \in {"data", "other"}, b.state = "ok",
         NEW l, NEW su, NEW lost \in BOOLEAN, OpenInv(f, l, su, lost), b.id = 0,
         ~ lost /\ Passes(Append(f, b), Len(f) + 1) => Whole(Append(f, b))
  PROVE  OpenInv(Append(f, b), l,
                 su \cup (IF b.kind = "data" THEN {Len(f) + 1} ELSE {}), lost)
<1> DEFINE g == Append(f, b)
           n == Len(f)
<1>1. /\ g \in Seq(BlockType) /\ Len(g) = n + 1 /\ n \in Nat
      /\ \A i \in 1 .. n : g[i] = f[i]
      /\ g[n + 1] = b
  BY AppendFacts
<1>2. Ids(g) = Ids(f)
  <2>1. Ids(g) = Ids(f) \cup ({b.id} \ {0})
    BY IdsAppend
  <2>2. {b.id} \ {0} = {}
    OBVIOUS
  <2> QED
    BY <2>1, <2>2
<1>3. Passes(g, n + 1)
  BY <1>1 DEF Passes
<1>4. g # Missing
  BY <1>1 DEF Missing
<1> HIDE DEF g, n
<1>5. su = Summed(f, n + 1) /\ \A j \in su : f[j].state = "ok"
  BY DEF OpenInv, n
<1>6. Summed(g, n + 2) =
        Summed(f, n + 1) \cup (IF b.kind = "data" THEN {n + 1} ELSE {})
  <2>1. \A j \in 1 .. n :
          j \in Summed(g, n + 2) <=> j \in Summed(f, n + 1)
    BY <1>1 DEF Summed
  <2>2. n + 1 \in Summed(g, n + 2) <=> b.kind = "data"
    BY <1>1 DEF Summed
  <2>3. Summed(g, n + 2) \subseteq 1 .. n + 1 /\ Summed(f, n + 1) \subseteq 1 .. n
    BY <1>1 DEF Summed
  <2> QED
    BY <1>1, <2>1, <2>2, <2>3
<1>7. \A j \in Summed(g, n + 2) : g[j].state = "ok"
  <2>1. \A j \in Summed(f, n + 1) : j \in 1 .. n
    BY <1>1 DEF Summed
  <2> QED
    BY <1>1, <1>5, <1>6, <2>1
<1>8. n + 2 = Len(g) + 1
  BY <1>1
<1> QED
  BY <1>2, <1>3, <1>4, <1>5, <1>6, <1>7, <1>8 DEF OpenInv, g, n

\* A commit record of the running checksum is good.
LEMMA WrittenGood ==
  ASSUME NEW f \in Seq(BlockType), NEW b \in BlockType,
         NEW l, NEW lost \in BOOLEAN, OpenInv(f, l, b.sum, lost),
         b.kind = "commit", b.state = "ok"
  PROVE  /\ GoodCommit(Append(f, b), Len(f) + 1)
         /\ Passes(Append(f, b), Len(f) + 1)
<1> DEFINE g == Append(f, b)
           n == Len(f)
<1>1. /\ n \in Nat /\ g[n + 1] = b /\ \A i \in 1 .. n : g[i] = f[i]
  BY AppendFacts
<1>2. SameTo(f, g, n)
  BY AppendSame
<1> HIDE DEF g, n
<1>3. Summed(g, n + 1) = Summed(f, n + 1)
  <2>1. n + 1 \in 1 .. n + 1
    BY <1>1
  <2> QED
    BY <1>2, <2>1, SameSummed
<1>4. b.sum = Summed(f, n + 1) /\ \A j \in b.sum : f[j].state = "ok"
  BY DEF OpenInv, n
<1>5. \A j \in Summed(f, n + 1) : j \in 1 .. n
  BY <1>1 DEF Summed
<1>6. GoodCommit(g, n + 1)
  BY <1>1, <1>3, <1>4, <1>5 DEF GoodCommit
<1>7. Passes(g, n + 1)
  BY <1>1, <1>6 DEF Passes
<1> QED
  BY <1>6, <1>7 DEF g, n

\* A commit record with the next number, of the running checksum, adds its
\* commit, and the checksum begins again.
LEMMA CommitAppend ==
  ASSUME NEW f \in Seq(BlockType), NEW b \in BlockType,
         NEW c \in Nat, NEW l \in SUBSET (1 .. c), NEW s,
         NEW lost \in BOOLEAN,
         FileInv(f, c, l, s, lost), OpenInv(f, l, b.sum, lost),
         b.kind = "commit", b.state = "ok", b.id = c + 1
  PROVE  /\ FileInv(Append(f, b), c + 1, l \cup {c + 1}, s, lost)
         /\ OpenInv(Append(f, b), l \cup {c + 1}, {}, lost)
<1> DEFINE g == Append(f, b)
           n == Len(f)
           d == c + 1
           m == l \cup {d}
<1>1. /\ g \in Seq(BlockType) /\ Len(g) = n + 1 /\ n \in Nat
      /\ DOMAIN g = 1 .. n + 1
      /\ g[n + 1] = b
  BY AppendFacts
<1>2. d \in Nat /\ c < d /\ d # 0
  OBVIOUS
<1>3. f # Missing /\ l \subseteq Ids(f) /\ (~ lost => Whole(f))
  BY DEF OpenInv
<1>4. Numbered(g, d)
  <2>1. Numbered(f, c)
    BY DEF FileInv
  <2> QED
    BY <1>2, <2>1, NumberedAppend
<1>5. Ids(g) = Ids(f) \cup {d}
  BY <1>2, IdsAppend
<1>6. OnDisk(g, s)
  BY <1>3, OnDiskAppend DEF FileInv
<1>7. Passes(g, n + 1)
  BY WrittenGood
<1>8. ~ lost => Clean(g) /\ Whole(g)
  BY <1>3, <1>7, CleanAppend DEF FileInv, Clean
<1>9. g # Missing
  BY <1>1 DEF Missing
<1>10. Summed(g, n + 2) = {}
  <2>1. g[n + 1].kind = "commit"
    BY <1>1
  <2> HIDE DEF g, n
  <2> QED
    BY <1>1, <2>1 DEF Summed
<1> HIDE DEF g, n, d
<1>11. m \subseteq Ids(g)
  BY <1>3, <1>5
<1>12. InOrder(g, m)
  BY <1>11 DEF InOrder
<1>13. ~ lost => m = Ids(g)
  BY <1>3, <1>5 DEF FileInv
<1>14. FileInv(g, d, m, s, lost)
  BY <1>4, <1>6, <1>8, <1>12, <1>13 DEF FileInv
<1>15. OpenInv(g, m, {}, lost)
  <2>1. n + 2 = Len(g) + 1
    BY <1>1
  <2> QED
    BY <1>8, <1>9, <1>10, <1>11, <2>1 DEF OpenInv
<1> QED
  BY <1>14, <1>15 DEF g, d

-----------------------------------------------------------------------------
(* Flushing, damage and copies                                              *)

LEMMA FlushedSame ==
  ASSUME NEW f \in Seq(BlockType), NEW from \in Nat
  PROVE  /\ SameTo(f, Flushed(f, from), Len(f))
         /\ \A i \in 1 .. Len(f) :
              f[i].durable => Flushed(f, from)[i].durable
<1>1. /\ Flushed(f, from) \in Seq(BlockType)
      /\ Len(Flushed(f, from)) = Len(f)
  BY FlushedFacts
<1>2. DOMAIN f = 1 .. Len(f) /\ DOMAIN Flushed(f, from) = 1 .. Len(f)
      /\ Len(f) \in Nat /\ \A i \in 1 .. Len(f) : f[i] \in BlockType
  BY <1>1, Blocks
<1>3. ASSUME NEW i \in 1 .. Len(f)
      PROVE  /\ Flushed(f, from)[i].kind = f[i].kind
             /\ Flushed(f, from)[i].id = f[i].id
             /\ Flushed(f, from)[i].sum = f[i].sum
             /\ Flushed(f, from)[i].state = f[i].state
             /\ f[i].durable => Flushed(f, from)[i].durable
  <2>1. f[i] \in BlockType /\ i \in DOMAIN f
    BY <1>2
  <2>2. Flushed(f, from)[i] = [f[i] EXCEPT !.durable = @ \/ i > from]
    BY <2>1 DEF Flushed
  <2> QED
    BY <2>1, <2>2 DEF BlockType
<1> QED
  BY <1>2, <1>3 DEF SameTo

\* Two files of a length that the check cannot tell apart
LEMMA AlikeFile ==
  ASSUME NEW f \in Seq(BlockType), NEW g \in Seq(BlockType),
         Len(g) = Len(f), SameTo(f, g, Len(f))
  PROVE  /\ Ids(g) = Ids(f)
         /\ \A c \in Nat : Numbered(f, c) => Numbered(g, c)
         /\ Whole(f) => Whole(g)
         /\ Complete(f) => Complete(g)
         /\ Clean(f) => Clean(g)
<1>1. DOMAIN f = 1 .. Len(f) /\ DOMAIN g = 1 .. Len(f) /\ Len(f) \in Nat
  BY Blocks
<1>2. \A i \in 1 .. Len(f) : g[i].kind = f[i].kind /\ g[i].id = f[i].id
  BY DEF SameTo
<1>3. \A i \in 1 .. Len(f) :
        /\ GoodCommit(f, i) <=> GoodCommit(g, i)
        /\ Passes(f, i) <=> Passes(g, i)
        /\ ShutdownAt(f, i) <=> ShutdownAt(g, i)
  BY SameGood
<1>4. Ids(g) = Ids(f)
  BY <1>1, <1>2 DEF Ids
<1>5. \A c \in Nat : Numbered(f, c) => Numbered(g, c)
  BY <1>1, <1>2 DEF Numbered
<1>6. Whole(f) => Whole(g)
  BY <1>1, <1>3 DEF Whole
<1>7. Complete(f) => Complete(g)
  BY <1>1, <1>3 DEF Complete
<1>8. Clean(f) => Clean(g)
  BY <1>1, <1>2, <1>3, <1>7 DEF Clean
<1> QED
  BY <1>4, <1>5, <1>6, <1>7, <1>8

\* Flushing keeps what is in the file, and all of the file is on disk when it
\* is said to be synced.
LEMMA FlushedFile ==
  ASSUME NEW f \in Seq(BlockType), NEW from \in Nat,
         NEW c \in Nat, NEW l, NEW s, NEW lost \in BOOLEAN,
         FileInv(f, c, l, s, lost), f # Missing,
         NEW t, t = s \/ (AllDurable(Flushed(f, from))
                          /\ t = KeptIds(Flushed(f, from)))
  PROVE  /\ FileInv(Flushed(f, from), c, l, t, lost)
         /\ Flushed(f, from) # Missing
         /\ \A su : OpenInv(f, l, su, lost) => OpenInv(Flushed(f, from), l, su, lost)
<1> DEFINE g == Flushed(f, from)
<1>1. g \in Seq(BlockType) /\ Len(g) = Len(f)
  BY FlushedFacts
<1>2. SameTo(f, g, Len(f))
      /\ \A i \in 1 .. Len(f) : f[i].durable => g[i].durable
  BY FlushedSame
<1> HIDE DEF g
<1>3. /\ Ids(g) = Ids(f)
      /\ Numbered(f, c) => Numbered(g, c)
      /\ Whole(f) => Whole(g)
      /\ Clean(f) => Clean(g)
  BY <1>1, <1>2, AlikeFile
<1>4. /\ DOMAIN f = 1 .. Len(f) /\ DOMAIN g = 1 .. Len(f) /\ Len(f) \in Nat
      /\ \A i \in 1 .. Len(f) : g[i].id = f[i].id /\ g[i].kind = f[i].kind
  BY <1>1, <1>2, Blocks DEF SameTo
<1>5. g # Missing
  <2>1. Len(f) # 0
    BY EmptySeq DEF Missing
  <2> QED
    BY <1>1, <2>1, EmptySeq DEF Missing
<1>6. InOrder(g, l)
  BY <1>3, <1>4 DEF FileInv, InOrder
<1>7. OnDisk(g, t)
  <2>1. CASE t = s
    <3>1. ASSUME NEW d \in s
          PROVE  \E i \in Kept(g) : g[i].id = d /\ \A j \in 1 .. i : g[j].durable
      <4>1. PICK i \in Kept(f) : f[i].id = d /\ \A j \in 1 .. i : f[j].durable
        BY DEF FileInv, OnDisk
      <4>2. i \in 1 .. Len(f)
        BY <1>4, KeptPasses
      <4>3. i \in Kept(g)
        BY <1>1, <1>2, <4>2, SameKept
      <4>4. \A j \in 1 .. i : j \in 1 .. Len(f)
        BY <1>4, <4>2
      <4> QED
        BY <1>2, <1>4, <4>1, <4>2, <4>3, <4>4
    <3> QED
      BY <2>1, <3>1 DEF OnDisk
  <2>2. CASE AllDurable(g) /\ t = KeptIds(g)
    <3>1. \A i \in Kept(g) : i \in 1 .. Len(f)
      BY <1>1, <1>4, KeptPasses
    <3>2. \A i \in Kept(g) : \A j \in 1 .. i : g[j].durable
      BY <1>4, <2>2, <3>1 DEF AllDurable
    <3> QED
      BY <2>2, <3>2 DEF OnDisk, KeptIds
  <2> QED
    BY <2>1, <2>2 DEF g
<1>8. FileInv(g, c, l, t, lost)
  BY <1>3, <1>6, <1>7 DEF FileInv
<1>9. ASSUME NEW su, OpenInv(f, l, su, lost)
      PROVE  OpenInv(g, l, su, lost)
  <2>1. su = Summed(f, Len(f) + 1) /\ \A j \in su : f[j].state = "ok"
    BY <1>9 DEF OpenInv
  <2>2. Len(f) + 1 \in 1 .. Len(f) + 1
    BY <1>4
  <2>3. Summed(g, Len(g) + 1) = Summed(f, Len(f) + 1)
    BY <1>1, <1>2, <2>2, SameSummed
  <2>4. \A j \in su : j \in 1 .. Len(f) /\ f[j].kind = "data"
    BY <1>4, <2>1 DEF Summed
  <2>5. \A j \in su : g[j].state = "ok"
    BY <1>2, <2>1, <2>4 DEF SameTo
  <2> QED
    BY <1>3, <1>5, <1>9, <2>1, <2>3, <2>5 DEF OpenInv
<1> QED
  BY <1>5, <1>8, <1>9 DEF g

\* The first part of a file, in which only what was not on disk is harmed.
LEMMA DamagedFile ==
  ASSUME NEW f \in Seq(BlockType), NEW g \in Seq(BlockType),
         Len(g) <= Len(f),
         \A i \in 1 .. Len(g) :
           g[i].kind = f[i].kind /\ g[i].id = f[i].id /\ g[i].sum = f[i].sum
             /\ g[i].durable,
         \A i \in 1 .. Len(f) :
           f[i].durable => i <= Len(g) /\ g[i].state = f[i].state,
         NEW c \in Nat, NEW l, NEW s, NEW lost, FileInv(f, c, l, s, lost)
  PROVE  FileInv(g, c, l, s, TRUE)
<1>1. /\ Len(f) \in Nat /\ DOMAIN f = 1 .. Len(f)
      /\ Len(g) \in Nat /\ DOMAIN g = 1 .. Len(g)
  BY Blocks
<1>2. \A i \in DOMAIN g : i \in DOMAIN f
  BY <1>1
<1>3. Numbered(f, c) /\ InOrder(f, l) /\ OnDisk(f, s)
  BY DEF FileInv
<1>4. Numbered(g, c)
  <2> SUFFICES ASSUME NEW i \in DOMAIN g
               PROVE  /\ g[i].id # 0 => g[i].kind = "commit"
                      /\ g[i].id <= c
                      /\ \A j \in DOMAIN g :
                           i < j /\ g[j].id # 0 => g[i].id < g[j].id
    BY DEF Numbered
  <2>1. i \in DOMAIN f /\ g[i].id = f[i].id /\ g[i].kind = f[i].kind
    BY <1>1, <1>2
  <2>2. \A j \in DOMAIN g : j \in DOMAIN f /\ g[j].id = f[j].id
    BY <1>1, <1>2
  <2> QED
    BY <1>3, <2>1, <2>2 DEF Numbered
<1>5. InOrder(g, l)
  <2> SUFFICES ASSUME NEW d \in l, d \notin Ids(g), NEW i \in DOMAIN g
               PROVE  g[i].id < d
    BY DEF InOrder
  <2>1. CASE d \in Ids(f)
    <3>1. PICK j \in DOMAIN f : f[j].id = d /\ d # 0
      BY <2>1 DEF Ids
    <3>2. j \notin DOMAIN g
      BY <1>1, <3>1 DEF Ids
    <3>3. i < j
      BY <1>1, <3>2
    <3> QED
      BY <1>1, <1>2, <1>3, <3>1, <3>3 DEF Numbered
  <2>2. CASE d \notin Ids(f)
    BY <1>1, <1>2, <1>3, <2>2 DEF InOrder
  <2> QED
    BY <2>1, <2>2
<1>6. OnDisk(g, s)
  <2> SUFFICES ASSUME g # Missing, NEW d \in s
               PROVE  \E i \in Kept(g) :
                        g[i].id = d /\ \A j \in 1 .. i : g[j].durable
    BY DEF OnDisk
  <2>1. f # Missing
    <3>1. Len(g) # 0
      BY EmptySeq DEF Missing
    <3>2. Len(f) # 0
      BY <1>1, <3>1
    <3> QED
      BY <3>2, EmptySeq DEF Missing
  <2>2. PICK i \in Kept(f) : f[i].id = d /\ \A j \in 1 .. i : f[j].durable
    BY <1>3, <2>1 DEF OnDisk
  <2>3. i \in 1 .. Len(f)
    BY <1>1, KeptPasses
  <2>4. i \in 1 .. Len(g)
    <3>1. i \in 1 .. i
      BY <2>3
    <3>2. f[i].durable
      BY <2>2, <3>1
    <3> QED
      BY <1>1, <2>3, <3>2
  <2>5. \A j \in 1 .. i : j \in 1 .. Len(f) /\ j \in 1 .. Len(g)
    BY <1>1, <2>4
  <2>6. SameTo(f, g, i)
    BY <1>1, <2>2, <2>3, <2>5 DEF SameTo
  <2>7. i \in Kept(g)
    BY <2>3, <2>6, SameKept
  <2> QED
    BY <2>2, <2>4, <2>5, <2>7
<1> QED
  BY <1>4, <1>5, <1>6 DEF FileInv

\* What can be copied of a file makes a clean one.
LEMMA CopiedClean ==
  ASSUME NEW f \in Seq(BlockType), NEW c \in Nat, Numbered(f, c),
         Kept(f) # {}
  PROVE  /\ Numbered(Copied(f), c)
         /\ Clean(Copied(f))
         /\ Copied(f) # Missing
<1> DEFINE last == CHOOSE i \in Kept(f) : \A j \in Kept(f) : j <= i
           state(i) == IF f[i].kind = "other" THEN "ok" ELSE f[i].state
           e(i) == [f[i] EXCEPT !.durable = FALSE, !.state = state(i)]
           g == [i \in 1 .. last |-> e(i)]
           b == Block("shutdown")
<1>1. last \in Kept(f)
  BY LastKept
<1>2. Copied(f) = Append(g, b)
  BY DEF Copied
<1>3. b \in BlockType /\ b.kind = "shutdown" /\ b.id = 0 /\ b.state = "ok"
  BY NewBlockTyped DEF Block, Kinds
<1> HIDE DEF last, b
<1>4. /\ Len(f) \in Nat /\ DOMAIN f = 1 .. Len(f) /\ last \in 1 .. Len(f)
      /\ \A i \in 1 .. Len(f) : f[i] \in BlockType
  BY <1>1, KeptPasses, Blocks
<1>5. GoodCommit(f, last) /\ \A i \in 1 .. last : Passes(f, i)
  <2>1. GoodCommit(f, last) /\ \A i \in 1 .. last - 1 : Passes(f, i)
    BY <1>1, KeptPasses
  <2>2. Passes(f, last)
    BY <2>1 DEF Passes, GoodCommit
  <2> QED
    BY <1>4, <2>1, <2>2
<1>6. ASSUME NEW i \in 1 .. last
      PROVE  /\ e(i) \in BlockType
             /\ e(i).kind = f[i].kind /\ e(i).id = f[i].id
             /\ e(i).sum = f[i].sum
             /\ \/ e(i).state = f[i].state
                \/ f[i].kind = "other" /\ f[i].state # "bad" /\ e(i).state # "bad"
  <2>1. f[i] \in BlockType
    BY <1>4
  <2>2. state(i) \in {"ok", "garbled", "bad"}
        /\ (state(i) = f[i].state \/ (f[i].kind = "other" /\ state(i) = "ok"))
    BY <2>1 DEF BlockType
  <2>3. f[i].state # "bad"
    BY <1>5 DEF Passes
  <2> HIDE DEF state
  <2>4. e(i) \in BlockType /\ e(i).kind = f[i].kind /\ e(i).id = f[i].id
        /\ e(i).state = state(i)
    BY <2>1, <2>2, ChangedBlock
  <2>5. e(i).sum = f[i].sum
    BY <2>1 DEF BlockType
  <2> HIDE DEF e
  <2> QED
    BY <2>2, <2>3, <2>4, <2>5
<1> HIDE DEF e
<1>7. g \in [1 .. last -> BlockType] /\ \A i \in 1 .. last : g[i] = e(i)
  BY <1>6
<1> HIDE DEF g
<1>8. g \in Seq(BlockType) /\ Len(g) = last
  BY <1>4, <1>7, SizedSeq
<1>9. DOMAIN g = 1 .. last
  BY <1>8, Blocks
<1>10. SameTo(f, g, last)
  BY <1>4, <1>6, <1>7, <1>9 DEF SameTo
<1>11. /\ GoodCommit(g, last) /\ \A i \in 1 .. last : Passes(g, i)
  <2>1. last \in 1 .. last
    BY <1>4
  <2> QED
    BY <1>5, <1>10, <2>1, SameGood
<1>12. Numbered(g, c)
  <2>1. \A i \in 1 .. last :
          i \in DOMAIN f /\ g[i].id = f[i].id /\ g[i].kind = f[i].kind
    BY <1>4, <1>6, <1>7
  <2> QED
    BY <1>9, <2>1 DEF Numbered
<1> DEFINE h == Append(g, b)
<1>13. /\ h \in Seq(BlockType) /\ Len(h) = last + 1 /\ DOMAIN h = 1 .. last + 1
       /\ h[last + 1] = b
  BY <1>3, <1>8, AppendFacts
<1>14. SameTo(g, h, last)
  BY <1>3, <1>8, AppendSame
<1>15. Numbered(h, c)
  BY <1>3, <1>8, <1>12, NumberedAppend
<1>16. h # Missing
  BY <1>4, <1>13, EmptySeq DEF Missing
<1> HIDE DEF h
<1>17. GoodCommit(h, last) /\ \A i \in 1 .. last : Passes(h, i)
  <2>1. last \in 1 .. last
    BY <1>4
  <2> QED
    BY <1>11, <1>14, <2>1, SameGood
<1>18. ShutdownAt(h, last + 1)
  BY <1>3, <1>13 DEF ShutdownAt
<1>19. Clean(h)
  <2>1. \A i \in DOMAIN h : Passes(h, i) \/ (i = Len(h) /\ h[i].id = 0)
    BY <1>3, <1>4, <1>13, <1>17
  <2>2. Complete(h)
    BY <1>4, <1>13, <1>17, <1>18 DEF Complete
  <2> QED
    BY <2>1, <2>2 DEF Clean
<1> QED
  BY <1>2, <1>15, <1>16, <1>19 DEF h

LEMMA NumberedMore ==
  ASSUME NEW f \in Seq(BlockType), NEW c \in Nat, NEW d \in Nat, c <= d,
         Numbered(f, c)
  PROVE  Numbered(f, d)
<1>1. \A i \in DOMAIN f : f[i].id \in Nat
  BY Blocks
<1> QED
  BY <1>1 DEF Numbered

\* A file that can be checked to its end passes for a block that does not end
\* in a commit record.
LEMMA OtherPasses ==
  ASSUME NEW f \in Seq(BlockType), NEW b \in BlockType,
         b.kind # "commit", b.state # "bad"
  PROVE  Passes(Append(f, b), Len(f) + 1)
BY AppendFacts DEF Passes

\* A clean file with its shutdown in the last block has no half written one.
LEMMA ShutIsWhole ==
  ASSUME NEW f \in Seq(BlockType), Clean(f), CheckShutdown(f)
  PROVE  Whole(f)
<1>1. Passes(f, Len(f))
  BY DEF CheckShutdown, ShutdownAt, Passes
<1> QED
  BY <1>1 DEF Clean, Whole

-----------------------------------------------------------------------------
(* The invariant, action by action                                          *)

LEMMA HInvTypes ==
  ASSUME HInv
  PROVE  /\ IInv /\ TypeOK
         /\ main \in Seq(BlockType) /\ tmp \in Seq(BlockType)
         /\ commits \in Nat /\ log \in SUBSET (1 .. commits)
         /\ damaged \in BOOLEAN
         /\ CoveredIn(main, commits) /\ CoveredIn(tmp, commits)
         /\ FileInv(main, commits, log, synced, damaged)
         /\ pc = "open" => OpenInv(main, log, sum, damaged)
         /\ RebuildInv
BY DEF HInv, IInv, TypeOK

LEMMA InitHInv == Init => HInv
<1> SUFFICES ASSUME Init PROVE HInv
  OBVIOUS
<1> DEFINE f == <<Block("data"), CommitBlock(1, {1}, {1}), Block("shutdown")>>
<1>1. f \in Seq(BlockType) /\ Len(f) = 3 /\ DOMAIN f = 1 .. 3
  <2>1. Block("data") \in BlockType /\ Block("shutdown") \in BlockType
        /\ CommitBlock(1, {1}, {1}) \in BlockType
    BY NewBlockTyped DEF Kinds
  <2> QED
    BY <2>1
<1>2. /\ f[1].kind = "data" /\ f[1].id = 0 /\ f[1].state = "ok"
      /\ f[2].kind = "commit" /\ f[2].id = 1 /\ f[2].state = "ok"
      /\ f[2].sum = {1}
      /\ f[3].kind = "shutdown" /\ f[3].id = 0 /\ f[3].state = "ok"
  BY DEF Block, CommitBlock
<1> HIDE DEF f
<1>3. /\ main = Flushed(f, 0) /\ pc = "closed" /\ commits = 1 /\ log = {1}
      /\ synced = {1} /\ damaged = FALSE /\ tmp = Missing
  BY DEF Init, Loaded, f
<1>4. IInv /\ main \in Seq(BlockType) /\ CoveredIn(main, 1)
  BY <1>3, InitIInv DEF IInv, TypeOK
<1>5. GoodCommit(f, 2)
  <2>1. Summed(f, 2) = {1}
    BY <1>2 DEF Summed
  <2> QED
    BY <1>2, <2>1 DEF GoodCommit
<1>6. Clean(f)
  <2>1. \A i \in 1 .. 3 : Passes(f, i)
    <3>1. Passes(f, 1) /\ Passes(f, 2) /\ Passes(f, 3)
      BY <1>2, <1>5 DEF Passes
    <3> QED
      BY <3>1
  <2>2. ShutdownAt(f, 3)
    BY <1>2 DEF ShutdownAt
  <2> QED
    BY <1>1, <1>5, <2>1, <2>2 DEF Clean, Complete
<1>7. Numbered(f, 1)
  BY <1>1, <1>2 DEF Numbered
<1>8. Ids(f) = {1}
  <2>1. \A i \in DOMAIN f : i = 1 \/ i = 2 \/ i = 3
    BY <1>1
  <2>2. Ids(f) \subseteq {1}
    BY <1>2, <2>1 DEF Ids
  <2>3. 1 \in Ids(f)
    BY <1>1, <1>2 DEF Ids
  <2> QED
    BY <2>2, <2>3
<1>9. f # Missing
  BY <1>1, EmptySeq DEF Missing
<1>10. FileInv(f, 1, {1}, {}, FALSE)
  BY <1>6, <1>7, <1>8 DEF FileInv, InOrder, OnDisk
<1>11. SameTo(f, main, 3) /\ Len(main) = 3
  BY <1>1, <1>3, FlushedSame, FlushedFacts
<1>12. KeptIds(main) = {1}
  <2>1. Ids(main) = {1} /\ Numbered(main, 1) /\ Clean(main)
    BY <1>1, <1>4, <1>6, <1>7, <1>8, <1>11, AlikeFile
  <2> QED
    BY <1>4, <2>1, CleanKeepsAll
<1>13. AllDurable(main)
  <2>1. \A i \in DOMAIN f : f[i] \in BlockType /\ i > 0
    <3>1. \A i \in 1 .. Len(f) : f[i] \in BlockType
      BY <1>1, Blocks
    <3>2. \A i \in 1 .. 3 : i > 0
      OBVIOUS
    <3> QED
      BY <1>1, <3>1, <3>2
  <2>2. \A i \in DOMAIN f : main[i].durable
    BY <1>3, <2>1 DEF Flushed, BlockType
  <2>3. DOMAIN main = DOMAIN f
    BY <1>3 DEF Flushed
  <2> QED
    BY <2>2, <2>3 DEF AllDurable
<1>14. FileInv(main, 1, {1}, {1}, FALSE)
  BY <1>1, <1>3, <1>9, <1>10, <1>12, <1>13, FlushedFile
<1>15. RebuildInv
  <2>1. main # Missing
    BY <1>4, <1>11, EmptySeq DEF Missing
  <2>2. Numbered(tmp, commits)
    BY <1>3 DEF Numbered, Missing
  <2> QED
    BY <1>3, <2>1, <2>2 DEF RebuildInv
<1> QED
  BY <1>3, <1>4, <1>14, <1>15 DEF HInv

LEMMA StartHInv == ASSUME HInv, Start PROVE HInv'
<1> DEFINE b == Block("startup")
           f == Append(main, b)
           l == IF damaged THEN KeptIds(main) ELSE log
<1>1. /\ IInv' /\ main \in Seq(BlockType) /\ Len(main) \in Nat
      /\ commits \in Nat /\ log \in SUBSET (1 .. commits) /\ damaged \in BOOLEAN
      /\ CoveredIn(main, commits)
      /\ FileInv(main, commits, log, synced, damaged)
      /\ RebuildInv
  BY HInvTypes, StartIInv, Blocks
<1>2. /\ b \in BlockType /\ b.id = 0 /\ b.kind = "startup" /\ b.state = "ok"
  BY NewBlockTyped DEF Block, Kinds
<1>3. /\ main # Missing /\ CheckShutdown(main) /\ pc = "closed"
      /\ main' = Flushed(f, Len(main))
      /\ pc' = "open" /\ sum' = {} /\ log' = l
      /\ synced' = SyncedBy(main')
      /\ UNCHANGED <<bak, tmp, commits, damaged>>
  BY DEF Start, CheckShutdown
<1>4. KeptIds(main) \subseteq Ids(main) /\ KeptIds(main) \subseteq 1 .. commits
  BY <1>1, KeptInIds, KeptIdsBounded
<1>5. FileInv(main, commits, l, synced, damaged)
      /\ l \subseteq Ids(main) /\ l \in SUBSET (1 .. commits)
  BY <1>1, <1>3, <1>4 DEF FileInv, InOrder
<1>6. ~ damaged => Whole(main)
  BY <1>1, <1>3, ShutIsWhole DEF FileInv
<1> HIDE DEF b, l
<1>7. Passes(f, Len(main) + 1)
  BY <1>1, <1>2, OtherPasses
<1>8. /\ FileInv(f, commits, l, synced, damaged)
      /\ f # Missing /\ (~ damaged => Whole(f))
  BY <1>1, <1>2, <1>3, <1>5, <1>6, <1>7, FileAppend
<1>9. /\ f \in Seq(BlockType) /\ Len(f) = Len(main) + 1
      /\ f[Len(main) + 1] = b
  BY <1>1, <1>2, AppendFacts
<1>10. Ids(f) = Ids(main) \cup ({b.id} \ {0})
  BY <1>1, <1>2, IdsAppend
<1> HIDE DEF f
<1>11. OpenInv(f, l, {}, damaged)
  <2>1. Summed(f, Len(f) + 1) = {}
    BY <1>1, <1>2, <1>9 DEF Summed
  <2> QED
    BY <1>5, <1>8, <1>10, <2>1 DEF OpenInv
<1>12. synced' = synced \/ (AllDurable(main') /\ synced' = KeptIds(main'))
  BY <1>3 DEF SyncedBy
<1>13. FileInv(main', commits, l, synced', damaged)
       /\ main' # Missing /\ OpenInv(main', l, {}, damaged)
  BY <1>1, <1>3, <1>8, <1>9, <1>11, <1>12, FlushedFile
<1>14. RebuildInv'
  BY <1>1, <1>3, <1>13 DEF RebuildInv
<1> QED
  BY <1>1, <1>3, <1>13, <1>14 DEF HInv

\* An open database appends a block that is not a commit record.
LEMMA OpenHInv ==
  ASSUME HInv, IInv', pc = "open", NEW b \in BlockType,
         b.kind \in {"data", "other"}, b.state = "ok", b.id = 0,
         main' = Append(main, b),
         sum' = sum \cup (IF b.kind = "data" THEN {Len(main) + 1} ELSE {}),
         UNCHANGED <<bak, tmp, pc, commits, log, synced, damaged>>
  PROVE  HInv'
<1>1. /\ main \in Seq(BlockType) /\ Len(main) \in Nat
      /\ commits \in Nat /\ log \in SUBSET (1 .. commits) /\ damaged \in BOOLEAN
      /\ FileInv(main, commits, log, synced, damaged)
      /\ OpenInv(main, log, sum, damaged)
      /\ RebuildInv
  BY HInvTypes, Blocks
<1>2. main # Missing /\ (~ damaged => Whole(main))
  BY <1>1 DEF OpenInv
<1>3. Passes(main', Len(main) + 1)
  BY <1>1, OtherPasses
<1>4. /\ FileInv(main', commits, log, synced, damaged)
      /\ main' # Missing /\ (~ damaged => Whole(main'))
  BY <1>1, <1>2, <1>3, FileAppend
<1>5. OpenInv(main', log, sum', damaged)
  BY <1>1, <1>4, OpenAppend
<1>6. RebuildInv'
  BY <1>1, <1>4 DEF RebuildInv
<1> QED
  BY <1>4, <1>5, <1>6 DEF HInv

LEMMA OutputHInv ==
  ASSUME HInv, NEW created \in BOOLEAN, Output(created)
  PROVE  HInv'
<1> DEFINE b == Block("data")
<1>1. /\ b \in BlockType /\ b.kind = "data" /\ b.state = "ok" /\ b.id = 0
  BY NewBlockTyped DEF Block, Kinds
<1>2. /\ pc = "open" /\ main' = Append(main, b)
      /\ sum' = sum \cup {Len(main) + 1}
      /\ UNCHANGED <<bak, tmp, pc, commits, log, synced, damaged>>
  BY DEF Output, history
<1>3. IInv'
  BY OutputIInv, HInvTypes
<1> HIDE DEF b
<1> QED
  BY <1>1, <1>2, <1>3, OpenHInv

LEMMA OutputOtherHInv == ASSUME HInv, OutputOther PROVE HInv'
<1> DEFINE b == Block("other")
<1>1. /\ b \in BlockType /\ b.kind = "other" /\ b.state = "ok" /\ b.id = 0
  BY NewBlockTyped DEF Block, Kinds
<1>2. /\ pc = "open" /\ main' = Append(main, b)
      /\ sum' = sum \cup {}
      /\ UNCHANGED <<bak, tmp, pc, commits, log, synced, damaged>>
  BY DEF OutputOther, history
<1>3. IInv'
  BY OutputOtherIInv, HInvTypes
<1> HIDE DEF b
<1> QED
  BY <1>1, <1>2, <1>3, OpenHInv

\* What the commit record makes of an open file
LEMMA WrittenFile ==
  ASSUME HInv, pc = "open", NEW creates \in SUBSET fresh
  PROVE  LET g == Written(main, creates)
             d == commits + 1
         IN  /\ g \in Seq(BlockType)
             /\ FileInv(g, d, log \cup {d}, synced, damaged)
             /\ OpenInv(g, log \cup {d}, {}, damaged)
             /\ Numbered(tmp, d)
<1> DEFINE b == CommitBlock(commits + 1, creates, sum)
<1>1. /\ main \in Seq(BlockType) /\ tmp \in Seq(BlockType)
      /\ commits \in Nat /\ log \in SUBSET (1 .. commits) /\ damaged \in BOOLEAN
      /\ FileInv(main, commits, log, synced, damaged)
      /\ OpenInv(main, log, sum, damaged)
      /\ Numbered(tmp, commits)
  BY HInvTypes DEF RebuildInv
<1>2. creates \in SUBSET Nat /\ sum \in SUBSET Nat
  BY HInvTypes, Blocks DEF TypeOK
<1>3. b \in BlockType
  <2>1. commits + 1 \in Nat
    BY <1>1
  <2> QED
    BY <1>2, <2>1, NewBlockTyped
<1>4. b.kind = "commit" /\ b.state = "ok" /\ b.id = commits + 1 /\ b.sum = sum
  BY DEF CommitBlock, Block
<1> HIDE DEF b
<1>5. /\ FileInv(Append(main, b), commits + 1, log \cup {commits + 1},
                 synced, damaged)
      /\ OpenInv(Append(main, b), log \cup {commits + 1}, {}, damaged)
  BY <1>1, <1>3, <1>4, CommitAppend
<1>6. Append(main, b) \in Seq(BlockType)
  BY <1>1, <1>3, AppendFacts
<1>7. Numbered(tmp, commits + 1)
  BY <1>1, NumberedMore
<1> QED
  BY <1>5, <1>6, <1>7 DEF Written, b

LEMMA CommitHInv ==
  ASSUME HInv, NEW creates \in SUBSET fresh, Commit(creates)
  PROVE  HInv'
<1>1. /\ pc = "open" /\ main' = Written(main, creates) /\ sum' = {}
      /\ commits' = commits + 1 /\ log' = log \cup {commits + 1}
      /\ UNCHANGED <<bak, tmp, pc, synced, damaged>>
  BY DEF Commit
<1>2. IInv'
  BY CommitIInv, HInvTypes
<1>3. /\ FileInv(main', commits', log', synced', damaged')
      /\ OpenInv(main', log', sum', damaged')
      /\ Numbered(tmp', commits')
  BY <1>1, WrittenFile
<1>4. RebuildInv'
  BY <1>1, <1>3 DEF RebuildInv, OpenInv
<1> QED
  BY <1>2, <1>3, <1>4 DEF HInv

LEMMA SyncHInv == ASSUME HInv, Sync PROVE HInv'
<1>1. /\ main \in Seq(BlockType) /\ opened \in Nat
      /\ commits \in Nat /\ log \in SUBSET (1 .. commits) /\ damaged \in BOOLEAN
      /\ FileInv(main, commits, log, synced, damaged)
      /\ pc = "open" /\ OpenInv(main, log, sum, damaged)
      /\ RebuildInv
  BY HInvTypes, BlocksAssumption DEF TypeOK, Sync
<1>2. /\ main' = Flushed(main, opened) /\ synced' = SyncedBy(main')
      /\ UNCHANGED <<bak, tmp, pc, sum, commits, log, damaged>>
  BY DEF Sync
<1>3. synced' = synced \/ (AllDurable(main') /\ synced' = KeptIds(main'))
  BY <1>2 DEF SyncedBy
<1>4. main # Missing
  BY <1>1 DEF OpenInv
<1>5. FileInv(main', commits, log, synced', damaged)
      /\ main' # Missing /\ OpenInv(main', log, sum, damaged)
  BY <1>1, <1>2, <1>3, <1>4, FlushedFile
<1>6. RebuildInv'
  BY <1>1, <1>2, <1>5 DEF RebuildInv
<1>7. IInv'
  BY SyncIInv, HInvTypes
<1> QED
  BY <1>2, <1>5, <1>6, <1>7 DEF HInv

\* What the end of a process leaves, if the file is all right.
LEMMA ClosedHInv ==
  ASSUME IInv', Closed, FileInv(main', commits', log', synced', damaged'),
         ~ damaged' /\ main' = Missing => log' \subseteq bak'
  PROVE  HInv'
<1>1. pc' = "closed" /\ tmp' = Missing
  BY DEF Closed
<1>2. Numbered(tmp', commits')
  BY <1>1 DEF Numbered, Missing
<1>3. RebuildInv'
  BY <1>1, <1>2 DEF RebuildInv
<1> QED
  BY <1>1, <1>3 DEF HInv

LEMMA ShutdownHInv == ASSUME HInv, Shutdown PROVE HInv'
<1> DEFINE b == Block("shutdown")
<1>1. /\ main \in Seq(BlockType)
      /\ commits \in Nat /\ log \in SUBSET (1 .. commits) /\ damaged \in BOOLEAN
      /\ FileInv(main, commits, log, synced, damaged)
      /\ OpenInv(main, log, sum, damaged)
      /\ pc = "open"
  BY HInvTypes DEF Shutdown
<1>2. b \in BlockType /\ b.id = 0
  BY NewBlockTyped DEF Block, Kinds
<1>3. IInv' /\ Closed /\ UNCHANGED <<bak, synced, damaged>>
  BY ShutdownIInv, HInvTypes DEF Shutdown, history
<1> HIDE DEF b
<1>4. CASE main' = Append(main, b) /\ UNCHANGED <<commits, log>>
  <2>1. main # Missing /\ (~ damaged => Whole(main))
    BY <1>1 DEF OpenInv
  <2>2. FileInv(main', commits, log, synced, damaged) /\ main' # Missing
    BY <1>1, <1>2, <1>4, <2>1, FileAppend
  <2> QED
    BY <1>3, <1>4, <2>2, ClosedHInv
<1>5. CASE /\ main' = Append(Written(main, {}), b)
           /\ commits' = commits + 1 /\ log' = log \cup {commits + 1}
  <2> DEFINE g == Written(main, {})
             d == commits + 1
  <2>1. {} \in SUBSET fresh
    OBVIOUS
  <2>2. /\ g \in Seq(BlockType)
        /\ FileInv(g, d, log \cup {d}, synced, damaged)
        /\ OpenInv(g, log \cup {d}, {}, damaged)
    BY <1>1, <2>1, WrittenFile
  <2>3. d \in Nat /\ log \cup {d} \in SUBSET (1 .. d)
    BY <1>1
  <2> HIDE DEF g, d
  <2>4. g # Missing /\ (~ damaged => Whole(g))
    BY <2>2 DEF OpenInv
  <2>5. FileInv(Append(g, b), d, log \cup {d}, synced, damaged)
        /\ Append(g, b) # Missing
    BY <1>1, <1>2, <2>2, <2>3, <2>4, FileAppend
  <2>6. main' = Append(g, b) /\ commits' = d /\ log' = log \cup {d}
    BY <1>5 DEF g, d
  <2> QED
    BY <1>3, <2>5, <2>6, ClosedHInv
<1> QED
  BY <1>4, <1>5 DEF Shutdown, history, b

\* A block that is half written has no number.
LEMMA TornFile ==
  ASSUME NEW f \in Seq(BlockType), NEW c \in Nat, NEW l \in SUBSET (1 .. c),
         NEW s, NEW lost \in BOOLEAN, NEW su,
         FileInv(f, c, l, s, lost), OpenInv(f, l, su, lost),
         NEW g \in Torn(f)
  PROVE  FileInv(g, c, l, s, lost) /\ g # Missing
<1>1. f # Missing /\ (~ lost => Whole(f))
  BY DEF OpenInv
<1>2. CASE g = f
  BY <1>1, <1>2
<1>3. ASSUME NEW kind \in Kinds, NEW state \in {"garbled", "bad"},
             g = Append(f, [Block(kind) EXCEPT !.state = state])
      PROVE  FileInv(g, c, l, s, lost) /\ g # Missing
  <2> DEFINE b == [Block(kind) EXCEPT !.state = state]
  <2>1. b \in BlockType
    BY NewBlockTyped
  <2>2. b.id = 0
    BY DEF Block
  <2>3. g = Append(f, b)
    BY <1>3
  <2> HIDE DEF b
  <2> QED
    BY <1>1, <2>1, <2>2, <2>3, FileAppend
<1> QED
  BY <1>2, <1>3 DEF Torn, Checked, Kinds

LEMMA CrashHInv == ASSUME HInv, Crash PROVE HInv'
<1>1. /\ main \in Seq(BlockType)
      /\ commits \in Nat /\ log \in SUBSET (1 .. commits) /\ damaged \in BOOLEAN
      /\ FileInv(main, commits, log, synced, damaged)
      /\ pc = "open" => OpenInv(main, log, sum, damaged)
      /\ RebuildInv
  BY HInvTypes
<1>2. /\ IInv' /\ Closed /\ UNCHANGED <<bak, commits, log, synced, damaged>>
      /\ (pc = "open" /\ main' \in Torn(main)) \/ main' = main
  BY CrashIInv, HInvTypes DEF Crash, history
<1>3. CASE pc = "open" /\ main' \in Torn(main)
  <2>1. FileInv(main', commits, log, synced, damaged) /\ main' # Missing
    BY <1>1, <1>3, TornFile
  <2> QED
    BY <1>2, <2>1, ClosedHInv
<1>4. CASE main' = main
  <2>1. FileInv(main', commits', log', synced', damaged')
    BY <1>1, <1>2, <1>4
  <2>2. ~ damaged' /\ main' = Missing => log' \subseteq bak'
    BY <1>1, <1>2, <1>4 DEF RebuildInv
  <2> QED
    BY <1>2, <2>1, <2>2, ClosedHInv
<1> QED
  BY <1>2, <1>3, <1>4

LEMMA PowerLossHInv == ASSUME HInv, PowerLoss PROVE HInv'
<1>1. /\ main \in Seq(BlockType) /\ commits \in Nat
      /\ FileInv(main, commits, log, synced, damaged)
      /\ Len(main) \in Nat /\ DOMAIN main = 1 .. Len(main)
      /\ \A i \in 1 .. Len(main) : main[i] \in BlockType
  BY HInvTypes, Blocks
<1>2. /\ IInv' /\ Closed /\ UNCHANGED <<bak, commits, log, synced>>
      /\ damaged' = TRUE
  BY PowerLossIInv, HInvTypes DEF PowerLoss
<1>3. main' \in Seq(BlockType)
  BY <1>2 DEF IInv, TypeOK
<1> DEFINE loose == {i \in DOMAIN main : ~ main[i].durable}
<1>4. PICK n \in 0 .. Len(main) :
        /\ \A i \in DOMAIN main \ loose : i <= n
        /\ \E garbled, bad :
             /\ garbled \subseteq loose /\ bad \subseteq loose
             /\ main' = Damaged(main, n, garbled, bad)
  <2>1. PICK n \in 0 .. Len(main) :
          /\ \A i \in DOMAIN main \ loose : i <= n
          /\ \E garbled \in SUBSET ({i \in loose : main[i].kind \in Checked}
                                      \cap 1 .. n) :
               \E bad \in {{}} \cup {{i} : i \in loose \cap 1 .. n} :
                 main' = Damaged(main, n, garbled, bad)
    BY DEF PowerLoss
  <2>2. \A bad \in {{}} \cup {{i} : i \in loose \cap 1 .. n} :
          bad \subseteq loose
    OBVIOUS
  <2> QED
    BY <2>1, <2>2
<1>5. PICK garbled, bad :
        /\ garbled \subseteq loose /\ bad \subseteq loose
        /\ main' = Damaged(main, n, garbled, bad)
  BY <1>4
<1> DEFINE state(i) == IF i \in bad THEN "bad"
                       ELSE IF i \in garbled /\ main[i].state = "ok"
                       THEN "garbled" ELSE main[i].state
           e(i) == [main[i] EXCEPT !.durable = TRUE, !.state = state(i)]
<1>6. main' = [i \in 1 .. n |-> e(i)]
  BY <1>5 DEF Damaged
<1>7. ASSUME NEW i \in 1 .. n
      PROVE  /\ e(i).kind = main[i].kind /\ e(i).id = main[i].id
             /\ e(i).sum = main[i].sum /\ e(i).durable
             /\ main[i].durable => e(i).state = main[i].state
  <2>1. main[i] \in BlockType /\ i \in DOMAIN main
    BY <1>1
  <2>2. main[i].durable => state(i) = main[i].state
    BY <1>5, <2>1
  <2> HIDE DEF state, loose
  <2> QED
    BY <2>1, <2>2 DEF BlockType
<1> HIDE DEF e
<1>8. n \in Nat /\ n <= Len(main) /\ Len(main') = n
  <2>1. DOMAIN main' = 1 .. n /\ n \in Nat
    BY <1>1, <1>6
  <2> QED
    BY <1>1, <1>3, <2>1, Blocks
<1>9. \A i \in 1 .. n :
        /\ main'[i].kind = main[i].kind /\ main'[i].id = main[i].id
        /\ main'[i].sum = main[i].sum /\ main'[i].durable
  BY <1>6, <1>7
<1>10. ASSUME NEW i \in 1 .. Len(main), main[i].durable
       PROVE  i <= n /\ main'[i].state = main[i].state
  <2>1. i <= n
    BY <1>1, <1>4, <1>10
  <2>2. i \in 1 .. n
    BY <1>8, <2>1
  <2> QED
    BY <1>6, <1>7, <1>10, <2>1, <2>2
<1>11. FileInv(main', commits, log, synced, TRUE)
  BY <1>1, <1>3, <1>8, <1>9, <1>10, DamagedFile
<1> QED
  BY <1>2, <1>11, ClosedHInv

LEMMA CopyHInv == ASSUME HInv, Copy PROVE HInv'
<1>1. /\ main \in Seq(BlockType) /\ commits \in Nat
      /\ Numbered(main, commits) /\ RebuildInv
      /\ FileInv(main, commits, log, synced, damaged)
  BY HInvTypes DEF FileInv
<1>2. /\ UNCHANGED <<main, bak, commits, log, synced, damaged>>
      /\ pc' = "copied" /\ tmp' = Copied(main) /\ Recoverable(main)
  BY DEF Copy, history
<1>3. IInv'
  BY CopyIInv, HInvTypes
<1>4. Kept(main) # {}
  BY <1>2 DEF Recoverable
<1>5. Numbered(tmp', commits) /\ Clean(tmp') /\ tmp' # Missing
  BY <1>1, <1>2, <1>4, CopiedClean
<1>6. main # Missing
  BY <1>1, <1>4, KeptPasses DEF Missing
<1>7. RebuildInv'
  BY <1>1, <1>2, <1>5, <1>6 DEF RebuildInv
<1> QED
  BY <1>1, <1>2, <1>3, <1>7 DEF HInv

\* The old backup goes while the file is still there.
LEMMA RemoveBakHInv == ASSUME HInv, RemoveBak PROVE HInv'
<1>1. RebuildInv /\ FileInv(main, commits, log, synced, damaged)
  BY HInvTypes
<1>2. /\ UNCHANGED <<main, tmp, commits, log, synced, damaged>>
      /\ pc = "copied" /\ pc' = "unbacked"
  BY DEF RemoveBak, history
<1>3. IInv'
  BY RemoveBakIInv, HInvTypes
<1>4. RebuildInv'
  BY <1>1, <1>2 DEF RebuildInv
<1> QED
  BY <1>1, <1>2, <1>3, <1>4 DEF HInv

\* The file becomes the backup, with all that is found in it.
LEMMA MoveMainHInv == ASSUME HInv, MoveMain PROVE HInv'
<1>1. /\ main \in Seq(BlockType) /\ commits \in Nat
      /\ CoveredIn(main, commits)
      /\ FileInv(main, commits, log, synced, damaged) /\ RebuildInv
  BY HInvTypes
<1>2. /\ UNCHANGED <<tmp, commits, log, synced, damaged>>
      /\ pc = "unbacked" /\ pc' = "moved" /\ main' = Missing
      /\ bak' = KeptIds(main)
  BY DEF MoveMain, history
<1>3. IInv'
  BY MoveMainIInv, HInvTypes
<1>4. FileInv(main', commits, log, synced, damaged)
  BY <1>2 DEF FileInv, Numbered, InOrder, OnDisk, Missing
<1>5. ~ damaged => log \subseteq bak'
  <2>1. main # Missing
    BY <1>1, <1>2 DEF RebuildInv
  <2>2. ~ damaged => Clean(main) /\ log = Ids(main) /\ Numbered(main, commits)
    BY <1>1, <2>1 DEF FileInv
  <2> QED
    BY <1>1, <1>2, <2>2, CleanKeepsAll
<1>6. RebuildInv'
  BY <1>1, <1>2, <1>5 DEF RebuildInv
<1> QED
  BY <1>2, <1>3, <1>4, <1>6 DEF HInv

LEMMA MoveNewHInv == ASSUME HInv, MoveNew PROVE HInv'
<1>1. /\ tmp \in Seq(BlockType) /\ commits \in Nat
      /\ CoveredIn(tmp, commits) /\ Numbered(tmp, commits)
      /\ RebuildInv
  BY HInvTypes DEF RebuildInv
<1>2. /\ UNCHANGED <<bak, commits>>
      /\ pc = "moved" /\ pc' = "closed" /\ main' = tmp /\ tmp' = Missing
      /\ log' = KeptIds(tmp) /\ synced' = {} /\ damaged' = FALSE
  BY DEF MoveNew
<1>3. IInv'
  BY MoveNewIInv, HInvTypes
<1>4. Clean(tmp) /\ tmp # Missing
  BY <1>1, <1>2 DEF RebuildInv
<1>5. KeptIds(tmp) = Ids(tmp)
  BY <1>1, <1>4, CleanKeepsAll
<1>6. FileInv(main', commits', log', synced', damaged')
  BY <1>1, <1>2, <1>4, <1>5 DEF FileInv, InOrder, OnDisk
<1>7. Numbered(tmp', commits')
  BY <1>2 DEF Numbered, Missing
<1>8. RebuildInv'
  BY <1>2, <1>4, <1>7 DEF RebuildInv
<1> QED
  BY <1>2, <1>3, <1>6, <1>8 DEF HInv

LEMMA StutterHInv == ASSUME HInv, UNCHANGED vars PROVE HInv'
<1>1. UNCHANGED <<main, bak, tmp, pc, sum, commits, log, synced, damaged>>
  BY DEF vars, files, history
<1>2. IInv'
  BY StutterIInv, HInvTypes
<1>3. RebuildInv'
  BY <1>1, HInvTypes DEF RebuildInv
<1> QED
  BY <1>1, <1>2, <1>3 DEF HInv

LEMMA NextHInv == HInv /\ [Next]_vars => HInv'
<1> SUFFICES ASSUME HInv, [Next]_vars PROVE HInv'
  OBVIOUS
<1>1. CASE Start
  BY <1>1, StartHInv
<1>2. CASE \E created \in BOOLEAN : Output(created)
  BY <1>2, OutputHInv
<1>3. CASE OutputOther
  BY <1>3, OutputOtherHInv
<1>4. CASE \E creates \in SUBSET fresh : Commit(creates)
  BY <1>4, CommitHInv
<1>5. CASE Sync
  BY <1>5, SyncHInv
<1>6. CASE Shutdown
  BY <1>6, ShutdownHInv
<1>7. CASE Crash
  BY <1>7, CrashHInv
<1>8. CASE PowerLoss
  BY <1>8, PowerLossHInv
<1>9. CASE Copy
  BY <1>9, CopyHInv
<1>10. CASE RemoveBak
  BY <1>10, RemoveBakHInv
<1>11. CASE MoveMain
  BY <1>11, MoveMainHInv
<1>12. CASE MoveNew
  BY <1>12, MoveNewHInv
<1>13. CASE UNCHANGED vars
  BY <1>13, StutterHInv
<1> QED
  BY <1>1, <1>2, <1>3, <1>4, <1>5, <1>6, <1>7, <1>8, <1>9, <1>10, <1>11,
     <1>12, <1>13 DEF Next

-----------------------------------------------------------------------------
(* The theorems                                                             *)

LEMMA HistoryInvariant == Spec => []HInv
<1>1. Init => HInv
  BY InitHInv
<1>2. HInv /\ [Next]_vars => HInv'
  BY NextHInv
<1> QED
  BY <1>1, <1>2, PTL DEF Spec

\* A commit that the check finds is never found without those made before it,
\* and unless the power was lost all are found.
THEOREM CommitsAreKept == Spec => []KeptCommits
<1>1. HInv => KeptCommits
  <2> SUFFICES ASSUME HInv PROVE KeptCommits
    OBVIOUS
  <2>1. /\ main \in Seq(BlockType) /\ commits \in Nat
        /\ CoveredIn(main, commits)
        /\ FileInv(main, commits, log, synced, damaged)
    BY HInvTypes
  <2>2. /\ Numbered(main, commits) /\ InOrder(main, log)
        /\ DOMAIN main = 1 .. Len(main) /\ Len(main) \in Nat
        /\ \A i \in 1 .. Len(main) : main[i].id \in Nat
    BY <2>1, Blocks DEF FileInv
  <2>3. ASSUME NEW c \in KeptIds(main), NEW d \in log, d <= c
        PROVE  d \in KeptIds(main)
    <3>1. PICK i \in Kept(main) : main[i].id = c
      BY DEF KeptIds
    <3>2. /\ i \in 1 .. Len(main) /\ GoodCommit(main, i)
          /\ \A j \in 1 .. i - 1 : Passes(main, j)
      BY <2>1, <2>2, KeptPasses
    <3>3. d \in Nat /\ c \in Nat
      BY <2>2, <3>1, <3>2, HInvTypes
    <3>4. PICK j \in DOMAIN main : main[j].id = d /\ d # 0
      <4>1. ~ (main[i].id < d)
        BY <3>1, <3>3, <2>3
      <4>2. d \in Ids(main)
        BY <2>2, <3>2, <4>1 DEF InOrder
      <4> QED
        BY <4>2 DEF Ids
    <3>5. j <= i
      <4>1. ~ (i < j)
        BY <2>2, <2>3, <3>1, <3>2, <3>3, <3>4 DEF Numbered
      <4> QED
        BY <2>2, <3>2, <4>1
    <3>6. CASE j = i
      BY <3>1, <3>4, <3>6
    <3>7. CASE j < i
      <4>1. Passes(main, j) /\ main[j].kind = "commit"
        BY <2>2, <3>2, <3>4, <3>7 DEF Numbered
      <4>2. \A k \in 1 .. j - 1 : Passes(main, k)
        BY <2>2, <3>2, <3>4, <3>7
      <4>3. j \in Kept(main)
        BY <2>1, <4>1, <4>2, KeptPasses DEF Passes
      <4> QED
        BY <3>4, <4>3 DEF KeptIds
    <3> QED
      BY <2>2, <3>2, <3>5, <3>6, <3>7
  <2>4. ~ damaged /\ main # Missing => KeptIds(main) = log
    BY <2>1, <2>2, CleanKeepsAll DEF FileInv
  <2> QED
    BY <2>3, <2>4 DEF KeptCommits
<1> QED
  BY <1>1, HistoryInvariant, PTL

\* Wherever a rebuild stops, all commits are in the file or in its backup,
\* unless the power was lost.
THEOREM OneFileHasThem == Spec => []SomeFileHasThem
<1>1. KeptCommits /\ HInv => SomeFileHasThem
  BY DEF KeptCommits, HInv, RebuildInv, SomeFileHasThem
<1> QED
  BY <1>1, HistoryInvariant, CommitsAreKept, PTL

\* Unless the power was lost, a file can be recovered, and the look at its last
\* block with which a start is content finds what a check of all of it would.
THEOREM LastBlockTells == Spec => []CheckIsRight
<1>1. HInv => CheckIsRight
  <2> SUFFICES ASSUME HInv, ~ damaged, main # Missing
               PROVE  /\ Recoverable(main)
                      /\ CheckShutdown(main) => Scanned(main) = DOMAIN main
    BY DEF CheckIsRight
  <2>1. /\ main \in Seq(BlockType) /\ Clean(main)
        /\ DOMAIN main = 1 .. Len(main) /\ Len(main) \in Nat
        /\ Numbered(main, commits)
    BY HInvTypes, Blocks DEF FileInv
  <2>2. PICK i \in DOMAIN main : GoodCommit(main, i)
    BY <2>1 DEF Clean, Complete
  <2>3. PICK k \in DOMAIN main : ShutdownAt(main, k)
    BY <2>1 DEF Clean, Complete
  <2>4. \A j \in DOMAIN main : j < Len(main) => Passes(main, j)
    BY <2>1 DEF Clean
  <2>5. i \in Kept(main)
    <3>1. \A j \in 1 .. i - 1 : Passes(main, j)
      BY <2>1, <2>2, <2>4
    <3> QED
      BY <2>1, <2>2, <3>1, KeptPasses
  <2>6. ASSUME NEW n \in DOMAIN main, main[n].state = "ok"
        PROVE  n \in Scanned(main)
    <3>1. \A j \in 1 .. n - 1 : Passes(main, j)
      BY <2>1, <2>4
    <3>2. \A j \in 1 .. n : main[j].state # "bad"
      BY <2>1, <2>6, <3>1 DEF Passes
    <3> QED
      BY <3>1, <3>2 DEF Scanned, Passes
  <2>7. Recoverable(main)
    BY <2>3, <2>5, <2>6 DEF Recoverable, ShutdownAt
  <2>8. ASSUME CheckShutdown(main)
        PROVE  Scanned(main) = DOMAIN main
    <3>1. Whole(main)
      BY <2>1, <2>8, ShutIsWhole
    <3>2. \A n \in DOMAIN main : \A j \in 1 .. n : Passes(main, j)
      BY <2>1, <3>1 DEF Whole
    <3>3. \A n \in DOMAIN main : \A j \in 1 .. n - 1 : j \in 1 .. n
      BY <2>1
    <3> QED
      BY <3>2, <3>3 DEF Scanned, Passes
  <2> QED
    BY <2>7, <2>8
<1> QED
  BY <1>1, HistoryInvariant, PTL

\* What was on disk with all of the file before it is found again when the
\* power is lost, however often.
THEOREM SyncedIsKept == Spec => []SyncedKept
<1>1. HInv => SyncedKept
  BY DEF HInv, FileInv, OnDisk, SyncedKept, KeptIds
<1> QED
  BY <1>1, HistoryInvariant, PTL

=============================================================================
