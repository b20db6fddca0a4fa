----------------------------- MODULE TranProofs -----------------------------
(***************************************************************************)
(* Proofs about Tran, for every set of keys, clock and file length: first  *)
(* the types and what ties acts and maps to each other, then what a        *)
(* transaction sees and what it may commit, for which the maps, the index  *)
(* and final are tied to the history of committed records kept in born and *)
(* died.                                                                   *)
(***************************************************************************)
EXTENDS TranRefines, FiniteSetTheorems, TLAPS

\* finalize() takes the transactions it is given and drops entries of the
\* maps and the index, but changes none.
LEMMA FinalizeDrops ==
  ASSUME NEW trs, NEW fin, NEW cr, NEW de, NEW ix,
         Finalize(trs, fin, cr, de, ix)
  PROVE  /\ trans' = trs
         /\ final' \subseteq fin
         /\ DOMAIN created' \subseteq DOMAIN cr
         /\ \A off \in DOMAIN created' : created'[off] = cr[off]
         /\ DOMAIN deleted' \subseteq DOMAIN de
         /\ \A off \in DOMAIN deleted' : deleted'[off] = de[off]
         /\ index' \subseteq ix
BY DEF Finalize, Finalizable, Without, Restrict

\* What a request starts from: the types, and the numbers it computes with.
LEMMA ConstantFacts ==
  /\ Keys \subseteq Nat
  /\ UNCOMMITTED \in Nat
  /\ MaxClock \in Nat \ {0}
  /\ MaxClock < UNCOMMITTED
  /\ FUTURE \in Nat
  /\ UNCOMMITTED < FUTURE
  /\ PAST \in Int
  /\ PAST < 0
BY KeysAssumption, UncommittedAssumption, MaxClockAssumption
   DEF FUTURE, PAST

\* Writing a record keeps the earlier ones at their offsets.
LEMMA OutputGrows ==
  ASSUME file \in Seq(Keys), NEW k \in Keys, Output(k)
  PROVE  /\ file' \in Seq(Keys)
         /\ Offsets' = Offsets \cup {NewOff}
         /\ NewOff \notin Offsets
         /\ file'[NewOff] = k
         /\ \A off \in Offsets : file'[off] = file[off]
BY DEF Output, NewOff, Offsets

LEMMA InitType == Init => TypeOK
<1> SUFFICES ASSUME Init PROVE TypeOK
  OBVIOUS
<1>1. file \in Seq(Keys)
  <2>1. PICK n \in MinRecords .. MaxOff : file \in [1 .. n -> Keys]
    BY DEF Init
  <2> QED
    BY <2>1, MaxOffAssumption, MinRecordsAssumption
<1>2. nrecords \in Int
  <2>1. Offsets = 1 .. Len(file)
    BY <1>1 DEF Offsets
  <2> QED
    BY <1>1, <2>1, FS_Interval, FS_CardinalityType DEF Init
<1> QED
  BY <1>1, <1>2, ConstantFacts
     DEF Init, TypeOK, TransOK, MapsOK, HistoryOK, EmptyMap, Times

\* A step keeps the type of the transactions if each is kept or well typed.
LEMMA KeepTransOK ==
  ASSUME TransOK, Offsets \subseteq Offsets', DOMAIN trans' \subseteq Times,
         \A u \in DOMAIN trans' :
           \/ trans'[u] \in TransactionType'
           \/ u \in DOMAIN trans /\ trans'[u] = trans[u],
         \A f \in final' : f \in final \/ f \in FinalType'
  PROVE  TransOK'
<1>1. TransactionType \subseteq TransactionType' /\ FinalType \subseteq FinalType'
  BY DEF TransactionType, FinalType
<1> QED
  BY <1>1 DEF TransOK

\* The same of the maps created and deleted.
LEMMA KeepMapsOK ==
  ASSUME MapsOK, Offsets \subseteq Offsets',
         \A off \in DOMAIN created' :
           \/ off \in DOMAIN created /\ created'[off] = created[off]
           \/ off \in Offsets' /\ created'[off] \in Int,
         \A off \in DOMAIN deleted' :
           \/ off \in DOMAIN deleted /\ deleted'[off] = deleted[off]
           \/ off \in Offsets' /\ deleted'[off] \in [tran: Times, time: Int]
  PROVE  MapsOK'
BY DEF MapsOK

\* The parts of TypeOK that a request leaves alone stay as they are.
LEMMA SameHistory ==
  ASSUME HistoryOK, Offsets \subseteq Offsets', UNCHANGED <<born, died>>
  PROVE  HistoryOK'
BY DEF HistoryOK

LEMMA TimesAreIntegers ==
  \A t \in Times : t \in Nat /\ UNCOMMITTED + t \in Int /\ t + UNCOMMITTED \in Int
BY ConstantFacts DEF Times

\* An abort changes nrecords by the sizes of two finite sets.
LEMMA CountIsInteger ==
  ASSUME TypeOK, NEW t \in DOMAIN trans
  PROVE  CountWithout(t) \in Int
<1>1. IsFiniteSet(Offsets)
  <2>1. Offsets = 1 .. Len(file) /\ Len(file) \in Nat
    BY DEF TypeOK, Offsets
  <2> QED
    BY <2>1, FS_Interval
<1>2. trans[t].creates \subseteq Offsets /\ trans[t].deletes \subseteq Offsets
  BY DEF TypeOK, TransOK, TransactionType
<1>3. /\ Cardinality(trans[t].creates) \in Nat
      /\ Cardinality(trans[t].deletes) \in Nat
  BY <1>1, <1>2, FS_Subset, FS_CardinalityType
<1> QED
  BY <1>3 DEF CountWithout, TypeOK

LEMMA BeginType ==
  ASSUME TypeOK, NEW type \in {READONLY, READWRITE}, Begin(type)
  PROVE  TypeOK'
<1> USE ConstantFacts
<1>1. StartTime(type) \in Times /\ StartTime(type) + 1 \in Times
  BY DEF TypeOK, Begin, StartTime, Times
<1>2. TransOK'
  <2>1. trans'[StartTime(type)] \in TransactionType'
    BY <1>1 DEF Begin, Put, TransactionType
  <2>2. \A u \in DOMAIN trans' \ {StartTime(type)} :
          u \in DOMAIN trans /\ trans'[u] = trans[u]
    BY DEF Begin, Put
  <2>3. DOMAIN trans' \subseteq Times /\ Offsets' = Offsets /\ final' = final
    BY <1>1 DEF TypeOK, TransOK, Begin, Put, Offsets
  <2> QED
    BY <2>1, <2>2, <2>3, KeepTransOK DEF TypeOK
<1> QED
  BY <1>1, <1>2 DEF TypeOK, MapsOK, HistoryOK, Begin, Offsets

LEMMA ReadType ==
  ASSUME TypeOK, NEW t \in DOMAIN trans, NEW org \in Keys, NEW end \in Keys,
         Read(t, org, end)
  PROVE  TypeOK'
<1>1. TransOK'
  <2>1. trans'[t] \in TransactionType'
    BY DEF TypeOK, TransOK, TransactionType, NowRead, Read, Offsets
  <2> QED
    BY <2>1, KeepTransOK DEF TypeOK, TransOK, Read, Offsets
<1> QED
  BY <1>1 DEF TypeOK, MapsOK, HistoryOK, Read, Offsets

LEMMA AddType ==
  ASSUME TypeOK, NEW t \in DOMAIN trans, NEW k \in Keys, Add(t, k)
  PROVE  TypeOK'
<1>1. /\ Offsets \subseteq Offsets' /\ NewOff \in Offsets'
      /\ file' \in Seq(Keys) /\ index' \subseteq Offsets'
  BY OutputGrows DEF TypeOK, Add, Create
<1>2. TransOK'
  <2>1. trans[t] \in TransactionType'
    BY <1>1 DEF TypeOK, TransOK, TransactionType
  <2>2. trans'[t] \in TransactionType'
    BY <1>1, <2>1 DEF TransactionType, NowRead, Add, Create
  <2> QED
    BY <1>1, <2>2, KeepTransOK DEF TypeOK, TransOK, Add, Create
<1>3. MapsOK'
  BY <1>1, TimesAreIntegers, KeepMapsOK DEF TypeOK, TransOK, Add, Create, Put
<1> QED
  BY <1>1, <1>2, <1>3, SameHistory DEF TypeOK, Add

LEMMA AddDuplicateType ==
  ASSUME TypeOK, NEW t \in DOMAIN trans, NEW k \in Keys, AddDuplicate(t, k)
  PROVE  TypeOK'
<1>1. Offsets \subseteq Offsets' /\ file' \in Seq(Keys)
  BY OutputGrows DEF TypeOK, AddDuplicate
<1>2. TransOK'
  <2>1. trans[t] \in TransactionType'
    BY <1>1 DEF TypeOK, TransOK, TransactionType
  <2>2. trans'[t] \in TransactionType'
    BY <1>1, <2>1 DEF TransactionType, NowRead, AddDuplicate
  <2> QED
    BY <1>1, <2>2, KeepTransOK DEF TypeOK, TransOK, AddDuplicate
<1>3. MapsOK'
  BY <1>1, KeepMapsOK DEF TypeOK, AddDuplicate
<1> QED
  BY <1>1, <1>2, <1>3, SameHistory DEF TypeOK, AddDuplicate

LEMMA RemoveType ==
  ASSUME TypeOK, NEW t \in DOMAIN trans, NEW off \in Offsets, Remove(t, off)
  PROVE  TypeOK'
<1>1. Offsets' = Offsets
  BY DEF Remove, Offsets
<1>2. TransOK'
  <2>1. trans'[t] \in TransactionType'
    BY <1>1 DEF TypeOK, TransOK, TransactionType, Remove
  <2> QED
    BY <1>1, <2>1, KeepTransOK DEF TypeOK, TransOK, Remove
<1>3. MapsOK'
  <2>1. [tran |-> t, time |-> t + UNCOMMITTED] \in [tran: Times, time: Int]
    BY TimesAreIntegers DEF TypeOK, TransOK
  <2> QED
    BY <1>1, <2>1, KeepMapsOK DEF TypeOK, Remove, MarkDeleted, Put
<1> QED
  BY <1>1, <1>2, <1>3, SameHistory DEF TypeOK, Remove

LEMMA UpdateType ==
  ASSUME TypeOK, NEW t \in DOMAIN trans, NEW off \in Offsets, NEW k \in Keys,
         Update(t, off, k)
  PROVE  TypeOK'
<1>1. /\ Offsets \subseteq Offsets' /\ NewOff \in Offsets'
      /\ file' \in Seq(Keys) /\ index' \subseteq Offsets'
  BY OutputGrows DEF TypeOK, Update, Create
<1>2. TransOK'
  <2>1. trans[t] \in TransactionType'
    BY <1>1 DEF TypeOK, TransOK, TransactionType
  <2>2. trans'[t] \in TransactionType'
    BY <1>1, <2>1 DEF TransactionType, NowRead, Update, Create
  <2> QED
    BY <1>1, <2>2, KeepTransOK DEF TypeOK, TransOK, Update, Create
<1>3. MapsOK'
  <2>1. [tran |-> t, time |-> t + UNCOMMITTED] \in [tran: Times, time: Int]
    BY TimesAreIntegers DEF TypeOK, TransOK
  <2>2. UNCOMMITTED + t \in Int
    BY TimesAreIntegers DEF TypeOK, TransOK
  <2> QED
    BY <1>1, <2>1, <2>2, KeepMapsOK
       DEF TypeOK, Update, MarkDeleted, Create, Put
<1> QED
  BY <1>1, <1>2, <1>3, SameHistory DEF TypeOK, Update

\* A delete_act that is taken back leaves the map as it was.
LEMMA UndoRestores ==
  ASSUME NEW t, NEW off, off \notin DOMAIN deleted, UndoDelete(t, off)
  PROVE  /\ DOMAIN deleted' = DOMAIN deleted
         /\ \A o \in DOMAIN deleted : deleted'[o] = deleted[o]
BY DEF UndoDelete, Put, Without, Restrict

LEMMA UpdateDuplicateType ==
  ASSUME TypeOK, NEW t \in DOMAIN trans, NEW off \in Offsets, NEW k \in Keys,
         UpdateDuplicate(t, off, k)
  PROVE  TypeOK'
<1>1. Offsets \subseteq Offsets' /\ file' \in Seq(Keys)
  BY OutputGrows DEF TypeOK, UpdateDuplicate
<1>2. TransOK'
  <2>1. trans[t] \in TransactionType'
    BY <1>1 DEF TypeOK, TransOK, TransactionType
  <2>2. trans'[t] \in TransactionType'
    BY <1>1, <2>1 DEF TransactionType, NowRead, UpdateDuplicate
  <2> QED
    BY <1>1, <2>2, KeepTransOK DEF TypeOK, TransOK, UpdateDuplicate
<1>3. MapsOK'
  BY <1>1, UndoRestores, KeepMapsOK DEF TypeOK, UpdateDuplicate
<1> QED
  BY <1>1, <1>2, <1>3, SameHistory DEF TypeOK, UpdateDuplicate

LEMMA WriteConflictType ==
  ASSUME TypeOK, NEW t \in DOMAIN trans, NEW off \in Offsets,
         WriteConflict(t, off)
  PROVE  TypeOK'
<1>1. Offsets' = Offsets
  BY DEF WriteConflict, Offsets
<1>2. TransOK'
  <2>1. /\ trans' = [trans EXCEPT ![t].conflict = TRUE, ![t].asof = FUTURE,
                                   ![t].reads = {}]
        /\ final' \subseteq final
    BY FinalizeDrops DEF WriteConflict
  <2>2. trans'[t] \in TransactionType'
    BY <1>1, <2>1 DEF TypeOK, TransOK, TransactionType
  <2> QED
    BY <1>1, <2>1, <2>2, KeepTransOK DEF TypeOK, TransOK
<1>3. MapsOK' /\ index' \subseteq index
  BY <1>1, FinalizeDrops, KeepMapsOK DEF TypeOK, WriteConflict
<1> QED
  BY <1>1, <1>2, <1>3, SameHistory DEF TypeOK, WriteConflict

LEMMA CommitUnchangedType ==
  ASSUME TypeOK, NEW t \in DOMAIN trans, CommitUnchanged(t)
  PROVE  TypeOK'
<1>1. Offsets' = Offsets
  BY DEF CommitUnchanged, Offsets
<1>2. TransOK'
  BY <1>1, FinalizeDrops, KeepTransOK
     DEF TypeOK, TransOK, CommitUnchanged, Without, Restrict
<1>3. MapsOK' /\ index' \subseteq index
  BY <1>1, FinalizeDrops, KeepMapsOK DEF TypeOK, CommitUnchanged
<1> QED
  BY <1>1, <1>2, <1>3, SameHistory DEF TypeOK, CommitUnchanged

LEMMA CommitUpdateType ==
  ASSUME TypeOK, NEW t \in DOMAIN trans, CommitUpdate(t)
  PROVE  TypeOK'
<1>1. Offsets' = Offsets /\ clock \in Times /\ clock' \in Times
  BY ConstantFacts DEF CommitUpdate, Offsets, TypeOK, Times
<1>2. trans[t].creates \subseteq Offsets /\ trans[t].deletes \subseteq Offsets
  BY DEF TypeOK, TransOK, TransactionType
<1>3. TransOK'
  <2>1. [asof |-> clock, creates |-> trans[t].creates,
         deletes |-> trans[t].deletes] \in FinalType'
    BY <1>1, <1>2 DEF FinalType
  <2> QED
    BY <1>1, <2>1, FinalizeDrops, KeepTransOK
       DEF TypeOK, TransOK, CommitUpdate, Without, Restrict
<1>4. MapsOK' /\ index' \subseteq index
  <2>1. \A off \in DOMAIN deleted :
          [deleted[off] EXCEPT !.time = clock] \in [tran: Times, time: Int]
    BY <1>1, TimesAreIntegers DEF TypeOK, MapsOK
  <2>2. \A off \in DOMAIN deleted' :
          \/ off \in DOMAIN deleted /\ deleted'[off] = deleted[off]
          \/ off \in Offsets' /\ deleted'[off] \in [tran: Times, time: Int]
    BY <1>1, <2>1, FinalizeDrops
       DEF TypeOK, MapsOK, CommitUpdate, DeleteTimes
  <2>3. \A off \in DOMAIN created' :
          \/ off \in DOMAIN created /\ created'[off] = created[off]
          \/ off \in Offsets' /\ created'[off] \in Int
    BY <1>1, <1>2, TimesAreIntegers, FinalizeDrops DEF CommitUpdate, Put
  <2>4. index' \subseteq index
    BY FinalizeDrops DEF CommitUpdate
  <2> QED
    BY <1>1, <2>2, <2>3, <2>4, KeepMapsOK DEF TypeOK
<1>5. HistoryOK'
  BY <1>1, <1>2 DEF TypeOK, HistoryOK, CommitUpdate, Put
<1> QED
  BY <1>1, <1>3, <1>4, <1>5 DEF TypeOK, CommitUpdate

LEMMA AbortType ==
  ASSUME TypeOK, NEW t \in DOMAIN trans, Abort(t)
  PROVE  TypeOK'
<1>1. Offsets' = Offsets
  BY DEF Abort, Offsets
<1>2. TransOK'
  BY <1>1, FinalizeDrops, KeepTransOK
     DEF TypeOK, TransOK, Abort, Without, Restrict
<1>3. MapsOK' /\ index' \subseteq index
  BY <1>1, FinalizeDrops, KeepMapsOK
     DEF TypeOK, Abort, IndexWithout, Without, Restrict
<1> QED
  BY <1>1, <1>2, <1>3, CountIsInteger, SameHistory DEF TypeOK, Abort

LEMMA RestartType ==
  ASSUME TypeOK, Restart
  PROVE  TypeOK'
BY ConstantFacts
   DEF TypeOK, TransOK, MapsOK, HistoryOK, Restart, Live, EmptyMap, Offsets, Times

\* Type correctness of every reachable state.
THEOREM TypeCorrect == Spec => []TypeOK
<1>1. TypeOK /\ [Next]_vars => TypeOK'
  <2>1. TypeOK /\ UNCHANGED vars => TypeOK'
    BY DEF TypeOK, TransOK, MapsOK, HistoryOK, TransactionType, FinalType,
           Offsets, vars
  <2> QED
    BY <2>1, BeginType, ReadType, AddType, AddDuplicateType, RemoveType,
       UpdateType, UpdateDuplicateType, WriteConflictType,
       CommitUnchangedType, CommitUpdateType, AbortType, RestartType
       DEF Next, RequestOf, CommitFails
<1> QED
  BY InitType, <1>1, PTL DEF Spec

-----------------------------------------------------------------------------
(***************************************************************************)
(* The maps match the acts.  Two transactions never share an entry because *)
(* their numbers and commit times differ, which TimesOrdered adds.         *)
(***************************************************************************)

TimesOrdered ==
  /\ \A t \in DOMAIN trans :
       /\ t < clock
       /\ trans[t].asof = IF trans[t].conflict THEN FUTURE ELSE t
       /\ Updater(t) \/ trans[t].creates \cup trans[t].deletes = {}
  /\ \A f \in final : f.asof < clock /\ f.asof \notin DOMAIN trans

MapsMatchActs == TimesOrdered /\ CreatedMatchesActs /\ DeletedMatchesActs

\* finalize() takes out of the maps exactly what it takes out of final.
LEMMA FinalizeMatches ==
  ASSUME NEW trs, NEW fin, NEW cr, NEW de, NEW ix,
         Finalize(trs, fin, cr, de, ix),
         DOMAIN trs \subseteq Times,
         \A f \in fin : f.asof \in Times
  PROVE  /\ CreatedMatches(trs, fin, cr) => CreatedMatchesActs'
         /\ DeletedMatches(trs, fin, de) => DeletedMatchesActs'
<1> DEFINE gone == Finalizable(fin, trs)
<1>1. /\ trans' = trs
      /\ final' = fin \ gone
      /\ created' = Without(cr, CreatesOf(gone))
      /\ deleted' = Without(de, DeletesOf(gone))
  BY DEF Finalize
<1>2. \A f \in fin, t \in DOMAIN trs : f.asof # UNCOMMITTED + t /\ f.asof # t + UNCOMMITTED
  BY ConstantFacts DEF Times
<1>3. \A f \in gone : f \in fin /\ \A g \in fin : g.asof = f.asof => g \in gone
  BY DEF Finalizable
<1>4. /\ \A off : off \in CreatesOf(gone) <=> \E f \in gone : off \in f.creates
      /\ \A off : off \in DeletesOf(gone) <=> \E f \in gone : off \in f.deletes
  BY DEF CreatesOf, DeletesOf
<1> HIDE DEF gone
<1>5. ASSUME CreatedMatches(trs, fin, cr) PROVE CreatedMatchesActs'
  <2>1. \A t \in DOMAIN trs : \A off \in trs[t].creates : off \notin CreatesOf(gone)
    BY <1>2, <1>3, <1>4, <1>5 DEF CreatedMatches
  <2>2. \A f \in fin \ gone : \A off \in f.creates : off \notin CreatesOf(gone)
    BY <1>3, <1>4, <1>5 DEF CreatedMatches
  <2> QED
    BY <1>1, <1>4, <1>5, <2>1, <2>2
       DEF CreatedMatches, CreatedMatchesActs, Without, Restrict
<1>6. ASSUME DeletedMatches(trs, fin, de) PROVE DeletedMatchesActs'
  <2>0. \A t \in DOMAIN trs : \A off \in trs[t].deletes :
          de[off].time = t + UNCOMMITTED
    <3> SUFFICES ASSUME NEW t \in DOMAIN trs, NEW off \in trs[t].deletes
                 PROVE  de[off].time = t + UNCOMMITTED
      OBVIOUS
    <3>1. de[off] = [tran |-> t, time |-> t + UNCOMMITTED]
      BY <1>6 DEF DeletedMatches
    <3> QED
      BY <3>1
  <2>1. \A t \in DOMAIN trs : \A off \in trs[t].deletes : off \notin DeletesOf(gone)
    BY <1>2, <1>3, <1>4, <1>6, <2>0 DEF DeletedMatches
  <2>2. \A f \in fin \ gone : \A off \in f.deletes : off \notin DeletesOf(gone)
    BY <1>3, <1>4, <1>6 DEF DeletedMatches
  <2> QED
    BY <1>1, <1>4, <1>6, <2>1, <2>2
       DEF DeletedMatches, DeletedMatchesActs, Without, Restrict
<1> QED
  BY <1>5, <1>6

\* Requests that change the acts or reads of one update transaction only.
LEMMA EditKeepsOrder ==
  ASSUME TimesOrdered, NEW t \in DOMAIN trans, Updater(t),
         final' = final, clock' = clock, DOMAIN trans' = DOMAIN trans,
         trans'[t].asof = trans[t].asof,
         trans'[t].conflict = trans[t].conflict,
         trans'[t].type = trans[t].type,
         \A u \in DOMAIN trans \ {t} : trans'[u] = trans[u]
  PROVE  TimesOrdered'
BY DEF TimesOrdered, Updater

LEMMA OrderedNext ==
  ASSUME TypeOK, TimesOrdered, [Next]_vars
  PROVE  TimesOrdered'
<1>0. clock \in Nat /\ DOMAIN trans \subseteq Nat /\ FUTURE \in Nat
  BY ConstantFacts DEF TypeOK, TransOK, Times
<1>1. \A f \in final : f.asof \in Nat
  BY DEF TypeOK, TransOK, FinalType, Times
<1>2. ASSUME NEW type \in {READONLY, READWRITE}, Begin(type)
      PROVE  TimesOrdered'
  <2>1. StartTime(type) \in Nat /\ clock <= StartTime(type)
    BY <1>0 DEF StartTime
  <2> QED
    BY <1>0, <1>1, <1>2, <2>1 DEF TimesOrdered, Begin, Put, Updater
<1>3. ASSUME NEW t \in DOMAIN trans, NEW org \in Keys, NEW end \in Keys,
             Read(t, org, end)
      PROVE  TimesOrdered'
  BY <1>3, EditKeepsOrder DEF Read
<1>4. ASSUME NEW t \in DOMAIN trans, NEW k \in Keys,
             Add(t, k) \/ AddDuplicate(t, k)
      PROVE  TimesOrdered'
  <2>1. CASE Add(t, k)
    BY <2>1, EditKeepsOrder DEF Add, Create
  <2>2. CASE AddDuplicate(t, k)
    BY <2>2, EditKeepsOrder DEF AddDuplicate
  <2> QED
    BY <1>4, <2>1, <2>2
<1>5. ASSUME NEW t \in DOMAIN trans, NEW off \in Offsets, Remove(t, off)
      PROVE  TimesOrdered'
  BY <1>5, EditKeepsOrder DEF Remove
<1>6. ASSUME NEW t \in DOMAIN trans, NEW off \in Offsets, NEW k \in Keys,
             Update(t, off, k) \/ UpdateDuplicate(t, off, k)
      PROVE  TimesOrdered'
  <2>1. CASE Update(t, off, k)
    BY <2>1, EditKeepsOrder DEF Update, Create
  <2>2. CASE UpdateDuplicate(t, off, k)
    BY <2>2, EditKeepsOrder DEF UpdateDuplicate
  <2> QED
    BY <1>6, <2>1, <2>2
<1>7. ASSUME NEW t \in DOMAIN trans, NEW off \in Offsets,
             WriteConflict(t, off)
      PROVE  TimesOrdered'
  <2>1. /\ trans' = [trans EXCEPT ![t].conflict = TRUE, ![t].asof = FUTURE,
                                   ![t].reads = {}]
        /\ final' \subseteq final
        /\ clock' = clock
        /\ Updater(t)
    BY <1>7, FinalizeDrops DEF WriteConflict
  <2> QED
    BY <2>1 DEF TimesOrdered, Updater
<1>8. ASSUME NEW t \in DOMAIN trans, CommitUnchanged(t) \/ Abort(t)
      PROVE  TimesOrdered'
  <2>1. /\ trans' = Without(trans, {t})
        /\ final' \subseteq final
        /\ clock' = clock
    BY <1>8, FinalizeDrops DEF CommitUnchanged, Abort
  <2> QED
    BY <2>1 DEF TimesOrdered, Updater, Without, Restrict
<1>9. ASSUME NEW t \in DOMAIN trans, CommitUpdate(t)
      PROVE  TimesOrdered'
  <2> DEFINE committed == [asof |-> clock, creates |-> trans[t].creates,
                           deletes |-> trans[t].deletes]
  <2>1. /\ trans' = Without(trans, {t})
        /\ final' \subseteq final \cup {committed}
        /\ clock' = clock + 1
    BY <1>9, FinalizeDrops DEF CommitUpdate
  <2>2. committed.asof = clock
    OBVIOUS
  <2> QED
    BY <1>0, <1>1, <2>1, <2>2 DEF TimesOrdered, Updater, Without, Restrict
<1>10. CASE Restart
  BY <1>10 DEF TimesOrdered, Restart, EmptyMap
<1>11. CASE UNCHANGED vars
  BY <1>11 DEF TimesOrdered, vars, Updater
<1> QED
  BY <1>2, <1>3, <1>4, <1>5, <1>6, <1>7, <1>8, <1>9, <1>10, <1>11
     DEF Next, RequestOf, CommitFails

LEMMA ActTypes ==
  ASSUME TypeOK
  PROVE  /\ \A t \in DOMAIN trans : /\ t \in Times
                                    /\ trans[t].creates \subseteq Offsets
                                    /\ trans[t].deletes \subseteq Offsets
         /\ \A f \in final : /\ f.asof \in Times
                             /\ f.creates \subseteq Offsets
                             /\ f.deletes \subseteq Offsets
         /\ clock \in Times
BY DEF TypeOK, TransOK, TransactionType, FinalType

\* Requests that leave all acts alone.
LEMMA SameActsMatch ==
  ASSUME CreatedMatchesActs, DeletedMatchesActs, final' = final,
         DOMAIN trans' = DOMAIN trans,
         \A u \in DOMAIN trans : /\ trans'[u].creates = trans[u].creates
                                 /\ trans'[u].deletes = trans[u].deletes,
         DOMAIN created' = DOMAIN created,
         \A off \in DOMAIN created : created'[off] = created[off],
         DOMAIN deleted' = DOMAIN deleted,
         \A off \in DOMAIN deleted : deleted'[off] = deleted[off]
  PROVE  CreatedMatchesActs' /\ DeletedMatchesActs'
BY DEF CreatedMatchesActs, DeletedMatchesActs, CreatedMatches, DeletedMatches

\* A new record is an entry that no act is about yet.
LEMMA CreateMatches ==
  ASSUME TypeOK, CreatedMatchesActs, NEW t \in DOMAIN trans, NEW k \in Keys,
         NEW dels, Output(k), Create(t, k, dels), final' = final
  PROVE  CreatedMatchesActs'
<1>1. /\ NewOff \notin Offsets
      /\ \A u \in DOMAIN trans : NewOff \notin trans[u].creates
      /\ \A f \in final : NewOff \notin f.creates
  BY OutputGrows, ActTypes DEF TypeOK
<1>2. /\ DOMAIN trans' = DOMAIN trans
      /\ trans'[t].creates = trans[t].creates \cup {NewOff}
      /\ \A u \in DOMAIN trans \ {t} : trans'[u] = trans[u]
  <2>1. trans[t] \in TransactionType
    BY DEF TypeOK, TransOK
  <2> QED
    BY <2>1 DEF Create, TransactionType
<1>3. /\ DOMAIN created' = DOMAIN created \cup {NewOff}
      /\ created'[NewOff] = UNCOMMITTED + t
      /\ \A off \in DOMAIN created \ {NewOff} : created'[off] = created[off]
  BY DEF Create, Put
<1> QED
  BY <1>1, <1>2, <1>3 DEF CreatedMatchesActs, CreatedMatches

\* A deletion is of a record that no act deletes.
LEMMA DeleteMatches ==
  ASSUME DeletedMatchesActs, NEW t \in DOMAIN trans, NEW off,
         MarkDeleted(t, off), final' = final, DOMAIN trans' = DOMAIN trans,
         trans'[t].deletes = trans[t].deletes \cup {off},
         \A u \in DOMAIN trans \ {t} : trans'[u] = trans[u]
  PROVE  DeletedMatchesActs'
<1>1. /\ off \notin DOMAIN deleted
      /\ DOMAIN deleted' = DOMAIN deleted \cup {off}
      /\ deleted'[off] = [tran |-> t, time |-> t + UNCOMMITTED]
      /\ \A o \in DOMAIN deleted : deleted'[o] = deleted[o]
  BY DEF MarkDeleted, Put
<1>2. /\ \A u \in DOMAIN trans : off \notin trans[u].deletes
      /\ \A f \in final : off \notin f.deletes
  BY <1>1 DEF DeletedMatchesActs, DeletedMatches
<1> QED
  BY <1>1, <1>2 DEF DeletedMatchesActs, DeletedMatches

\* The transaction t ends and takes its entries out of both maps.
LEMMA AbortMatches ==
  ASSUME TypeOK, CreatedMatchesActs, DeletedMatchesActs, NEW t \in DOMAIN trans
  PROVE  /\ CreatedMatches(Without(trans, {t}), final,
                           Without(created, trans[t].creates))
         /\ DeletedMatches(Without(trans, {t}), final,
                           Without(deleted, trans[t].deletes))
<1> DEFINE trs == Without(trans, {t})
           cr == Without(created, trans[t].creates)
           de == Without(deleted, trans[t].deletes)
<1>1. /\ DOMAIN trs = DOMAIN trans \ {t}
      /\ \A u \in DOMAIN trs : trs[u] = trans[u]
      /\ DOMAIN cr = DOMAIN created \ trans[t].creates
      /\ \A off \in DOMAIN cr : cr[off] = created[off]
      /\ DOMAIN de = DOMAIN deleted \ trans[t].deletes
      /\ \A off \in DOMAIN de : de[off] = deleted[off]
  BY DEF Without, Restrict
<1>2. \A u \in DOMAIN trans \ {t} : UNCOMMITTED + u # UNCOMMITTED + t
  BY ActTypes, ConstantFacts DEF Times
<1>3. \A f \in final : /\ f.asof # UNCOMMITTED + t
                       /\ f.asof # t + UNCOMMITTED
  BY ActTypes, ConstantFacts DEF Times
<1>4. CreatedMatches(trs, final, cr)
  <2>1. \A u \in DOMAIN trs : \A off \in trs[u].creates :
          off \notin trans[t].creates
    BY <1>1, <1>2 DEF CreatedMatchesActs, CreatedMatches
  <2>2. \A f \in final : \A off \in f.creates : off \notin trans[t].creates
    BY <1>3 DEF CreatedMatchesActs, CreatedMatches
  <2> HIDE DEF trs, cr
  <2> QED
    BY <1>1, <2>1, <2>2 DEF CreatedMatchesActs, CreatedMatches
<1>5. DeletedMatches(trs, final, de)
  <2>1. \A u \in DOMAIN trans : \A off \in trans[u].deletes :
          deleted[off].tran = u /\ deleted[off].time = u + UNCOMMITTED
    <3> SUFFICES ASSUME NEW u \in DOMAIN trans, NEW off \in trans[u].deletes
                 PROVE  /\ deleted[off].tran = u
                        /\ deleted[off].time = u + UNCOMMITTED
      OBVIOUS
    <3>1. deleted[off] = [tran |-> u, time |-> u + UNCOMMITTED]
      BY DEF DeletedMatchesActs, DeletedMatches
    <3> QED
      BY <3>1
  <2>2. \A u \in DOMAIN trs : \A off \in trs[u].deletes :
          off \notin trans[t].deletes
    BY <1>1, <2>1
  <2>3. \A f \in final : \A off \in f.deletes : off \notin trans[t].deletes
    BY <1>3, <2>1 DEF DeletedMatchesActs, DeletedMatches
  <2> HIDE DEF trs, de
  <2> QED
    BY <1>1, <2>2, <2>3 DEF DeletedMatchesActs, DeletedMatches
<1> QED
  BY <1>4, <1>5

Committed(t) == [asof |-> clock, creates |-> trans[t].creates,
                 deletes |-> trans[t].deletes]

\* The entries of t stay, with the commit time, for the copy of t in final.
LEMMA CommitMatches ==
  ASSUME TypeOK, CreatedMatchesActs, DeletedMatchesActs, NEW t \in DOMAIN trans
  PROVE  /\ CreatedMatches(Without(trans, {t}), final \cup {Committed(t)},
                           Put(created, trans[t].creates, clock))
         /\ DeletedMatches(Without(trans, {t}), final \cup {Committed(t)},
                           DeleteTimes(trans[t].deletes, clock))
<1> DEFINE trs == Without(trans, {t})
           fin == final \cup {Committed(t)}
           cr == Put(created, trans[t].creates, clock)
           de == DeleteTimes(trans[t].deletes, clock)
<1>1. /\ DOMAIN trs = DOMAIN trans \ {t}
      /\ \A u \in DOMAIN trs : trs[u] = trans[u]
      /\ DOMAIN cr = DOMAIN created
      /\ \A off \in trans[t].creates : cr[off] = clock
      /\ \A off \in DOMAIN cr \ trans[t].creates : cr[off] = created[off]
      /\ DOMAIN de = DOMAIN deleted
      /\ \A off \in DOMAIN de \ trans[t].deletes : de[off] = deleted[off]
  BY DEF Without, Restrict, Put, DeleteTimes, CreatedMatchesActs, CreatedMatches
<1>2. \A off \in trans[t].deletes : off \in DOMAIN de /\ de[off].time = clock
  <2> SUFFICES ASSUME NEW off \in trans[t].deletes
               PROVE  off \in DOMAIN de /\ de[off].time = clock
    OBVIOUS
  <2>1. off \in DOMAIN deleted /\ deleted[off] \in [tran: Times, time: Int]
    BY DEF TypeOK, MapsOK, DeletedMatchesActs, DeletedMatches
  <2>2. de[off] = [deleted[off] EXCEPT !.time = clock]
    BY <2>1 DEF DeleteTimes
  <2> QED
    BY <2>1, <2>2 DEF DeleteTimes
<1>3. \A f \in final : /\ f.asof # UNCOMMITTED + t
                       /\ f.asof # t + UNCOMMITTED
  BY ActTypes, ConstantFacts DEF Times
<1>4. \A u \in DOMAIN trans : \A off \in trans[u].deletes :
        deleted[off].tran = u /\ deleted[off].time = u + UNCOMMITTED
  <2> SUFFICES ASSUME NEW u \in DOMAIN trans, NEW off \in trans[u].deletes
               PROVE  /\ deleted[off].tran = u
                      /\ deleted[off].time = u + UNCOMMITTED
    OBVIOUS
  <2>1. deleted[off] = [tran |-> u, time |-> u + UNCOMMITTED]
    BY DEF DeletedMatchesActs, DeletedMatches
  <2> QED
    BY <2>1
<1>5. \A f \in fin : \/ f \in final
                     \/ /\ f.asof = clock
                        /\ f.creates = trans[t].creates
                        /\ f.deletes = trans[t].deletes
  BY DEF Committed
<1>6. Committed(t) \in fin /\ final \subseteq fin
  OBVIOUS
<1>7. CreatedMatches(trs, fin, cr)
  <2>1. \A u \in DOMAIN trans \ {t} : UNCOMMITTED + u # UNCOMMITTED + t
    BY ActTypes, ConstantFacts DEF Times
  <2>2. \A u \in DOMAIN trs : \A off \in trs[u].creates :
          off \notin trans[t].creates
    BY <1>1, <2>1 DEF CreatedMatchesActs, CreatedMatches
  <2>3. \A f \in final : \A off \in f.creates : off \notin trans[t].creates
    BY <1>3 DEF CreatedMatchesActs, CreatedMatches
  <2>4. Committed(t).creates = trans[t].creates
    BY DEF Committed
  <2> HIDE DEF trs, fin, cr
  <2>5. ASSUME NEW off \in DOMAIN cr
        PROVE  \/ \E u \in DOMAIN trs : off \in trs[u].creates
               \/ \E f \in fin : off \in f.creates
    BY <1>1, <1>6, <2>4 DEF CreatedMatchesActs, CreatedMatches
  <2>6. ASSUME NEW u \in DOMAIN trs, NEW off \in trs[u].creates
        PROVE  off \in DOMAIN cr /\ cr[off] = UNCOMMITTED + u
    BY <1>1, <2>2 DEF CreatedMatchesActs, CreatedMatches
  <2>7. ASSUME NEW f \in fin, NEW off \in f.creates
        PROVE  off \in DOMAIN cr /\ cr[off] = f.asof
    BY <1>1, <1>5, <2>3 DEF CreatedMatchesActs, CreatedMatches
  <2> QED
    BY <2>5, <2>6, <2>7 DEF CreatedMatches
<1>8. DeletedMatches(trs, fin, de)
  <2>2. \A u \in DOMAIN trs : \A off \in trs[u].deletes :
          off \notin trans[t].deletes
    BY <1>1, <1>4
  <2>3. \A f \in final : \A off \in f.deletes : off \notin trans[t].deletes
    BY <1>3, <1>4 DEF DeletedMatchesActs, DeletedMatches
  <2>4. Committed(t).deletes = trans[t].deletes
    BY DEF Committed
  <2> HIDE DEF trs, fin, de
  <2>5. ASSUME NEW off \in DOMAIN de
        PROVE  \/ \E u \in DOMAIN trs : off \in trs[u].deletes
               \/ \E f \in fin : off \in f.deletes
    BY <1>1, <1>6, <2>4 DEF DeletedMatchesActs, DeletedMatches
  <2>6. ASSUME NEW u \in DOMAIN trs, NEW off \in trs[u].deletes
        PROVE  /\ off \in DOMAIN de
               /\ de[off] = [tran |-> u, time |-> u + UNCOMMITTED]
    BY <1>1, <2>2 DEF DeletedMatchesActs, DeletedMatches
  <2>7. ASSUME NEW f \in fin, NEW off \in f.deletes
        PROVE  off \in DOMAIN de /\ de[off].time = f.asof
    BY <1>1, <1>2, <1>5, <2>3 DEF DeletedMatchesActs, DeletedMatches
  <2> QED
    BY <2>5, <2>6, <2>7 DEF DeletedMatches
<1> QED
  BY <1>7, <1>8

LEMMA MatchNext ==
  ASSUME TypeOK, MapsMatchActs, [Next]_vars
  PROVE  CreatedMatchesActs' /\ DeletedMatchesActs'
<1> USE DEF MapsMatchActs
<1>1. ASSUME NEW type \in {READONLY, READWRITE}, Begin(type)
      PROVE  CreatedMatchesActs' /\ DeletedMatchesActs'
  <2>1. StartTime(type) \notin DOMAIN trans
    <3>1. clock \in Nat /\ DOMAIN trans \subseteq Nat
      BY DEF TypeOK, TransOK, Times
    <3> QED
      BY <3>1 DEF StartTime, TimesOrdered
  <2>2. /\ DOMAIN trans' = DOMAIN trans \cup {StartTime(type)}
        /\ trans'[StartTime(type)].creates = {}
        /\ trans'[StartTime(type)].deletes = {}
        /\ \A u \in DOMAIN trans : trans'[u] = trans[u]
        /\ UNCHANGED <<final, created, deleted>>
    BY <1>1, <2>1 DEF Begin, Put
  <2> QED
    BY <2>2 DEF CreatedMatchesActs, DeletedMatchesActs, CreatedMatches,
                DeletedMatches
<1>2. ASSUME NEW t \in DOMAIN trans, NEW org \in Keys, NEW end \in Keys,
             Read(t, org, end)
      PROVE  CreatedMatchesActs' /\ DeletedMatchesActs'
  BY <1>2, SameActsMatch DEF Read
<1>3. ASSUME NEW t \in DOMAIN trans, NEW k \in Keys, Add(t, k)
      PROVE  CreatedMatchesActs' /\ DeletedMatchesActs'
  <2>1. CreatedMatchesActs'
    BY <1>3, CreateMatches DEF Add
  <2>2. DOMAIN trans' = DOMAIN trans /\ final' = final /\ deleted' = deleted
    BY <1>3 DEF Add, Create
  <2>3. \A u \in DOMAIN trans : trans'[u].deletes = trans[u].deletes
    <3>1. trans[t] \in TransactionType
      BY DEF TypeOK, TransOK
    <3> QED
      BY <1>3, <3>1 DEF Add, Create, TransactionType
  <2> QED
    BY <2>1, <2>2, <2>3 DEF DeletedMatchesActs, DeletedMatches
<1>4. ASSUME NEW t \in DOMAIN trans, NEW k \in Keys, AddDuplicate(t, k)
      PROVE  CreatedMatchesActs' /\ DeletedMatchesActs'
  BY <1>4, SameActsMatch DEF AddDuplicate
<1>5. ASSUME NEW t \in DOMAIN trans, NEW off \in Offsets, Remove(t, off)
      PROVE  CreatedMatchesActs' /\ DeletedMatchesActs'
  <2>1. trans[t] \in TransactionType
    BY DEF TypeOK, TransOK
  <2>2. /\ DOMAIN trans' = DOMAIN trans /\ final' = final
        /\ created' = created
        /\ trans'[t].deletes = trans[t].deletes \cup {off}
        /\ \A u \in DOMAIN trans \ {t} : trans'[u] = trans[u]
        /\ \A u \in DOMAIN trans : trans'[u].creates = trans[u].creates
    BY <1>5, <2>1 DEF Remove, TransactionType
  <2>3. DeletedMatchesActs'
    BY <1>5, <2>2, DeleteMatches DEF Remove
  <2> QED
    BY <2>2, <2>3 DEF CreatedMatchesActs, CreatedMatches
<1>6. ASSUME NEW t \in DOMAIN trans, NEW off \in Offsets, NEW k \in Keys,
             Update(t, off, k)
      PROVE  CreatedMatchesActs' /\ DeletedMatchesActs'
  <2>1. trans[t] \in TransactionType
    BY DEF TypeOK, TransOK
  <2>2. /\ DOMAIN trans' = DOMAIN trans /\ final' = final
        /\ trans'[t].deletes = trans[t].deletes \cup {off}
        /\ \A u \in DOMAIN trans \ {t} : trans'[u] = trans[u]
    BY <1>6, <2>1 DEF Update, Create, TransactionType
  <2>3. DeletedMatchesActs'
    BY <1>6, <2>2, DeleteMatches DEF Update
  <2>4. CreatedMatchesActs'
    BY <1>6, CreateMatches DEF Update
  <2> QED
    BY <2>3, <2>4
<1>7. ASSUME NEW t \in DOMAIN trans, NEW off \in Offsets, NEW k \in Keys,
             UpdateDuplicate(t, off, k)
      PROVE  CreatedMatchesActs' /\ DeletedMatchesActs'
  <2>1. /\ DOMAIN deleted' = DOMAIN deleted
        /\ \A o \in DOMAIN deleted : deleted'[o] = deleted[o]
    BY <1>7, UndoRestores DEF UpdateDuplicate
  <2> QED
    BY <1>7, <2>1, SameActsMatch DEF UpdateDuplicate
<1>8. ASSUME NEW t \in DOMAIN trans, NEW off \in Offsets,
             WriteConflict(t, off)
      PROVE  CreatedMatchesActs' /\ DeletedMatchesActs'
  <2> DEFINE trs == [trans EXCEPT ![t].conflict = TRUE, ![t].asof = FUTURE,
                                  ![t].reads = {}]
  <2>1. /\ DOMAIN trs = DOMAIN trans
        /\ \A u \in DOMAIN trans : /\ trs[u].creates = trans[u].creates
                                   /\ trs[u].deletes = trans[u].deletes
    OBVIOUS
  <2> HIDE DEF trs
  <2>2. CreatedMatches(trs, final, created) /\ DeletedMatches(trs, final, deleted)
    BY <2>1 DEF CreatedMatchesActs, DeletedMatchesActs, CreatedMatches,
                DeletedMatches
  <2>3. Finalize(trs, final, created, deleted, index)
    BY <1>8 DEF WriteConflict, trs
  <2> QED
    BY <2>1, <2>2, <2>3, ActTypes, FinalizeMatches
<1>9. ASSUME NEW t \in DOMAIN trans, CommitUnchanged(t)
      PROVE  CreatedMatchesActs' /\ DeletedMatchesActs'
  <2> DEFINE trs == Without(trans, {t})
  <2>1. /\ DOMAIN trs = DOMAIN trans \ {t}
        /\ \A u \in DOMAIN trs : trs[u] = trans[u]
    BY DEF Without, Restrict
  <2>2. trans[t].creates = {} /\ trans[t].deletes = {}
    BY <1>9 DEF CommitUnchanged, HasActs, TimesOrdered
  <2>3. Finalize(trs, final, created, deleted, index)
    BY <1>9 DEF CommitUnchanged
  <2> HIDE DEF trs
  <2>4. CreatedMatches(trs, final, created) /\ DeletedMatches(trs, final, deleted)
    BY <2>1, <2>2 DEF CreatedMatchesActs, DeletedMatchesActs, CreatedMatches,
                      DeletedMatches
  <2> QED
    BY <2>1, <2>3, <2>4, ActTypes, FinalizeMatches
<1>10. ASSUME NEW t \in DOMAIN trans, CommitUpdate(t)
       PROVE  CreatedMatchesActs' /\ DeletedMatchesActs'
  <2>1. Finalize(Without(trans, {t}), final \cup {Committed(t)},
                 Put(created, trans[t].creates, clock),
                 DeleteTimes(trans[t].deletes, clock), index)
    BY <1>10 DEF CommitUpdate, Committed
  <2>2. DOMAIN Without(trans, {t}) \subseteq Times
    BY ActTypes DEF Without, Restrict
  <2>3. \A f \in final \cup {Committed(t)} : f.asof \in Times
    BY ActTypes DEF Committed
  <2> QED
    BY <2>1, <2>2, <2>3, CommitMatches, FinalizeMatches
<1>11. ASSUME NEW t \in DOMAIN trans, Abort(t)
       PROVE  CreatedMatchesActs' /\ DeletedMatchesActs'
  <2>1. DOMAIN Without(trans, {t}) \subseteq Times
    BY ActTypes DEF Without, Restrict
  <2> QED
    BY <1>11, <2>1, ActTypes, AbortMatches, FinalizeMatches DEF Abort
<1>12. CASE Restart
  BY <1>12 DEF Restart, EmptyMap, CreatedMatchesActs, DeletedMatchesActs,
               CreatedMatches, DeletedMatches
<1>13. CASE UNCHANGED vars
  BY <1>13 DEF vars, CreatedMatchesActs, DeletedMatchesActs, CreatedMatches,
               DeletedMatches
<1> QED
  BY <1>1, <1>2, <1>3, <1>4, <1>5, <1>6, <1>7, <1>8, <1>9, <1>10, <1>11,
     <1>12, <1>13
     DEF Next, RequestOf, CommitFails

\* The inductive invariant, for the theorems here and in other modules.
LEMMA MapsInvariant == Spec => [](TypeOK /\ MapsMatchActs)
<1>1. Init => MapsMatchActs
  BY DEF Init, EmptyMap, MapsMatchActs, TimesOrdered, CreatedMatchesActs,
         DeletedMatchesActs, CreatedMatches, DeletedMatches
<1>2. TypeOK /\ MapsMatchActs /\ [Next]_vars => MapsMatchActs'
  BY OrderedNext, MatchNext DEF MapsMatchActs
<1> QED
  BY TypeCorrect, <1>1, <1>2, PTL DEF Spec

\* No verify() of commit, abort or finalize on created can fail, and nothing
\* stays in it without a transaction that will take it out.
THEOREM CreatedIsExact == Spec => []CreatedMatchesActs
<1>1. MapsMatchActs => CreatedMatchesActs
  BY DEF MapsMatchActs
<1> QED
  BY MapsInvariant, <1>1, PTL

\* The same of deleted: no record stays undeletable for ever.
THEOREM DeletedIsExact == Spec => []DeletedMatchesActs
<1>1. MapsMatchActs => DeletedMatchesActs
  BY DEF MapsMatchActs
<1> QED
  BY MapsInvariant, <1>1, PTL

-----------------------------------------------------------------------------
(* The inductive invariant.  Its parts take the transactions, final, index *)
(* and history as arguments, since a request that finalizes first changes  *)
(* them and then runs finalize() on the result.                            *)

\* What a committed transaction in final did is in the history at its time.
Recorded(fin, bo, di) ==
  \A f \in fin :
    /\ \A off \in f.creates : off \in DOMAIN bo /\ bo[off] = f.asof
    /\ \A off \in f.deletes : off \in DOMAIN di /\ di[off] = f.asof

\* A commit that is not in final any more is older than every active
\* transaction, so no map has to say when it was.
Settled(trs, fin, bo, di) ==
  \A t \in DOMAIN trs :
    /\ \A off \in DOMAIN bo :
         bo[off] < trs[t].asof \/ \E f \in fin : off \in f.creates
    /\ \A off \in DOMAIN di :
         di[off] < trs[t].asof \/ \E f \in fin : off \in f.deletes

\* What an active transaction did is not in the history yet.  Only one with a
\* conflict, which will not commit, can have deleted what is deleted already.
Pending(trs, bo, di) ==
  /\ DOMAIN di \subseteq DOMAIN bo
  /\ \A t \in DOMAIN trs :
       /\ trs[t].creates \cap DOMAIN bo = {}
       /\ trs[t].deletes \subseteq DOMAIN bo \cup trs[t].creates
       /\ ~ trs[t].conflict => trs[t].deletes \cap DOMAIN di = {}

\* the index entries that the acts and the history imply
PendingCreates(trs) == UNION {trs[t].creates : t \in DOMAIN trs}

Indexed(trs, fin, ix, bo, di) ==
  ix = (DOMAIN bo \ DOMAIN di) \cup PendingCreates(trs) \cup DeletesOf(fin)

HistoryTies(trs, fin, ix, bo, di) ==
  /\ Recorded(fin, bo, di)
  /\ Settled(trs, fin, bo, di)
  /\ Pending(trs, bo, di)
  /\ Indexed(trs, fin, ix, bo, di)

\* Times are positive, and every commit is before the clock.
HistoryOrdered ==
  /\ 0 < clock
  /\ \A t \in DOMAIN trans : 0 < t
  /\ \A off \in DOMAIN born : born[off] < clock
  /\ \A off \in DOMAIN died : died[off] < clock

History == HistoryOrdered /\ HistoryTies(trans, final, index, born, died)

\* A transaction that can still commit has read the keys of its acts.
ActsWereRead ==
  \A t \in DOMAIN trans : ~ trans[t].conflict =>
    \A off \in trans[t].creates \cup trans[t].deletes :
      file[off] \in trans[t].reads

-----------------------------------------------------------------------------
(* What a transaction sees *)

\* Facts about times that every proof below compares them with.
LEMMA TimeFacts ==
  ASSUME TypeOK, MapsMatchActs
  PROVE  /\ clock \in Nat /\ clock < UNCOMMITTED /\ clock < FUTURE
         /\ PAST < 0 /\ PAST \in Int
         /\ UNCOMMITTED \in Nat /\ FUTURE \in Nat /\ UNCOMMITTED < FUTURE
         /\ \A t \in DOMAIN trans :
              /\ t \in Nat /\ t < clock /\ trans[t].asof \in Nat
              /\ trans[t].asof <= FUTURE
              /\ trans[t].asof = FUTURE \/ trans[t].asof = t
         /\ \A f \in final :
              /\ f.asof \in Nat /\ f.asof < clock
              /\ f.asof \notin DOMAIN trans
         /\ \A off \in DOMAIN born : born[off] \in Nat /\ born[off] < FUTURE
         /\ \A off \in DOMAIN died : died[off] \in Nat /\ died[off] < FUTURE
BY ConstantFacts
   DEF TypeOK, TransOK, HistoryOK, FinalType, TransactionType, Times,
       MapsMatchActs, TimesOrdered

\* The newest committed records are those born and not dead.
LEMMA LiveNow ==
  ASSUME TypeOK, MapsMatchActs
  PROVE  Live(FUTURE) = DOMAIN born \ DOMAIN died
BY TimeFacts DEF Live

\* The reasons for which an offset is in the index.
LEMMA InIndex ==
  ASSUME NEW trs, NEW fin, NEW ix, NEW bo, NEW di, NEW off
  PROVE  Indexed(trs, fin, ix, bo, di) =>
           (off \in ix <=>
              \/ off \in DOMAIN bo \ DOMAIN di
              \/ \E t \in DOMAIN trs : off \in trs[t].creates
              \/ \E f \in fin : off \in f.deletes)
BY DEF Indexed, PendingCreates, DeletesOf

\* Two transactions never share an act.
LEMMA ActsApart ==
  ASSUME TypeOK, MapsMatchActs, NEW t \in DOMAIN trans,
         NEW u \in DOMAIN trans, t # u
  PROVE  /\ trans[t].creates \cap trans[u].creates = {}
         /\ trans[t].deletes \cap trans[u].deletes = {}
<1>1. UNCOMMITTED + t # UNCOMMITTED + u
  BY TimeFacts
<1>2. [tran |-> t, time |-> t + UNCOMMITTED].tran
        # [tran |-> u, time |-> u + UNCOMMITTED].tran
  OBVIOUS
<1> QED
  BY <1>1, <1>2
     DEF MapsMatchActs, CreatedMatchesActs, CreatedMatches,
         DeletedMatchesActs, DeletedMatches

\* the times visible() finds for an entry of an act
LEMMA ActTimes ==
  ASSUME TypeOK, MapsMatchActs
  PROVE  /\ \A t \in DOMAIN trans : \A off \in trans[t].creates :
              CreateTime(off) = UNCOMMITTED + t
         /\ \A t \in DOMAIN trans : \A off \in trans[t].deletes :
              DeleteTime(off) = t + UNCOMMITTED
         /\ \A f \in final : \A off \in f.creates : CreateTime(off) = f.asof
         /\ \A f \in final : \A off \in f.deletes : DeleteTime(off) = f.asof
<1>1. \A t : [tran |-> t, time |-> t + UNCOMMITTED].time = t + UNCOMMITTED
  OBVIOUS
<1> QED
  BY <1>1
     DEF MapsMatchActs, CreatedMatchesActs, CreatedMatches, CreateTime,
         DeletedMatchesActs, DeletedMatches, DeleteTime

\* and for an offset in no act
LEMMA NoActTimes ==
  ASSUME TypeOK, MapsMatchActs, NEW off
  PROVE  /\ \/ CreateTime(off) = PAST
            \/ \E t \in DOMAIN trans : off \in trans[t].creates
            \/ \E f \in final : off \in f.creates
         /\ \/ DeleteTime(off) = FUTURE
            \/ \E t \in DOMAIN trans : off \in trans[t].deletes
            \/ \E f \in final : off \in f.deletes
BY DEF MapsMatchActs, CreatedMatchesActs, CreatedMatches, CreateTime,
       DeletedMatchesActs, DeletedMatches, DeleteTime

\* visible() as the history has it: for a committed record ...
LEMMA CommittedVisible ==
  ASSUME TypeOK, MapsMatchActs, History, NEW t \in DOMAIN trans,
         NEW off \in DOMAIN born
  PROVE  CreateVisible(t, CreateTime(off)) <=> born[off] <= trans[t].asof
<1>1. \A u \in DOMAIN trans : off \notin trans[u].creates
  BY DEF History, HistoryTies, Pending
<1>2. CASE \E f \in final : off \in f.creates
  <2>1. PICK f \in final : off \in f.creates
    BY <1>2
  <2>2. CreateTime(off) = f.asof /\ born[off] = f.asof
    BY <2>1, ActTimes DEF History, HistoryTies, Recorded
  <2>3. f.asof \in Nat /\ f.asof < UNCOMMITTED /\ UNCOMMITTED \in Nat
    BY TimeFacts
  <2> QED
    BY <2>2, <2>3 DEF CreateVisible
<1>3. CASE ~ \E f \in final : off \in f.creates
  <2>1. CreateTime(off) = PAST
    BY <1>1, <1>3, NoActTimes
  <2>2. born[off] < trans[t].asof
    BY <1>3 DEF History, HistoryTies, Settled
  <2> QED
    BY <2>1, <2>2, TimeFacts DEF CreateVisible
<1> QED
  BY <1>2, <1>3

\* ... for a new one ...
LEMMA NewVisible ==
  ASSUME TypeOK, MapsMatchActs, History, NEW t \in DOMAIN trans,
         NEW u \in DOMAIN trans, NEW off \in trans[u].creates
  PROVE  CreateVisible(t, CreateTime(off)) <=> u = t
<1>1. CreateTime(off) = UNCOMMITTED + u /\ 0 < u
  BY ActTimes DEF History, HistoryOrdered
<1> QED
  BY <1>1, TimeFacts DEF CreateVisible

\* ... and for one that t has not deleted.
LEMMA DeletionVisible ==
  ASSUME TypeOK, MapsMatchActs, History, NEW t \in DOMAIN trans, NEW off,
         off \in index \/ off \notin DOMAIN died
  PROVE  DeleteVisible(t, DeleteTime(off)) <=>
           /\ off \notin trans[t].deletes
           /\ off \in DOMAIN died => died[off] >= trans[t].asof
<1>1. CASE \E f \in final : off \in f.deletes
  <2>1. PICK f \in final : off \in f.deletes
    BY <1>1
  <2>2. DeleteTime(off) = f.asof /\ off \in DOMAIN died /\ died[off] = f.asof
    BY <2>1, ActTimes DEF History, HistoryTies, Recorded
  <2>3. f.asof \in Nat /\ f.asof < UNCOMMITTED /\ UNCOMMITTED \in Nat
    BY TimeFacts
  <2>4. off \notin trans[t].deletes
    <3>1. off \in trans[t].deletes => DeleteTime(off) = t + UNCOMMITTED
      BY ActTimes
    <3> QED
      BY <2>2, <2>3, <3>1, TimeFacts
  <2> QED
    BY <2>2, <2>3, <2>4, TimeFacts DEF DeleteVisible
<1>2. CASE ~ \E f \in final : off \in f.deletes
  <2>1. off \notin DOMAIN died
    BY <1>2, InIndex DEF History, HistoryTies, Pending
  <2>2. CASE \E u \in DOMAIN trans : off \in trans[u].deletes
    <3>1. PICK u \in DOMAIN trans : off \in trans[u].deletes
      BY <2>2
    <3>2. DeleteTime(off) = u + UNCOMMITTED /\ 0 < u
      BY <3>1, ActTimes DEF History, HistoryOrdered
    <3>3. off \in trans[t].deletes <=> u = t
      BY <3>1, ActsApart
    <3> QED
      BY <2>1, <3>2, <3>3, TimeFacts DEF DeleteVisible
  <2>3. CASE ~ \E u \in DOMAIN trans : off \in trans[u].deletes
    <3>1. DeleteTime(off) = FUTURE
      BY <1>2, <2>3, NoActTimes
    <3>2. FUTURE - UNCOMMITTED # t /\ FUTURE > UNCOMMITTED
      BY TimeFacts DEF FUTURE
    <3> QED
      BY <2>1, <2>3, <3>1, <3>2 DEF DeleteVisible
  <2> QED
    BY <2>2, <2>3
<1> QED
  BY <1>1, <1>2

\* SnapshotRead is a consequence of the maps, the index and the history.
LEMMA Snapshot ==
  ASSUME TypeOK, MapsMatchActs, History
  PROVE  SnapshotRead
<1> SUFFICES ASSUME NEW t \in DOMAIN trans
             PROVE  Sees(t) = (Live(trans[t].asof) \cup trans[t].creates)
                                \ trans[t].deletes
  BY DEF SnapshotRead
<1>1. ASSUME NEW off \in Sees(t)
      PROVE  off \in (Live(trans[t].asof) \cup trans[t].creates)
                       \ trans[t].deletes
  <2>1. /\ off \in index
        /\ CreateVisible(t, CreateTime(off))
        /\ off \notin trans[t].deletes
        /\ off \in DOMAIN died => died[off] >= trans[t].asof
    BY <1>1, DeletionVisible DEF Sees, Visible
  <2>2. CASE off \in DOMAIN born
    BY <2>1, <2>2, CommittedVisible DEF Live
  <2>3. CASE off \notin DOMAIN born
    <3>1. PICK u \in DOMAIN trans : off \in trans[u].creates
      BY <2>1, <2>3, InIndex DEF History, HistoryTies, Recorded, Pending
    <3> QED
      BY <2>1, <3>1, NewVisible
  <2> QED
    BY <2>2, <2>3
<1>2. ASSUME NEW off \in (Live(trans[t].asof) \cup trans[t].creates)
                          \ trans[t].deletes
      PROVE  off \in Sees(t)
  <2>1. CASE off \in Live(trans[t].asof)
    <3>1. /\ off \in DOMAIN born /\ born[off] <= trans[t].asof
          /\ off \in DOMAIN died => died[off] >= trans[t].asof
      BY <2>1 DEF Live
    <3>2. off \in index
      <4>1. off \in DOMAIN died => \E f \in final : off \in f.deletes
        BY <3>1, TimeFacts DEF History, HistoryTies, Settled
      <4> QED
        BY <3>1, <4>1, InIndex DEF History, HistoryTies
    <3> QED
      BY <1>2, <3>1, <3>2, CommittedVisible, DeletionVisible DEF Sees, Visible
  <2>2. CASE off \in trans[t].creates
    <3>1. off \in index /\ off \notin DOMAIN died
      BY <2>2, InIndex DEF History, HistoryTies, Pending
    <3> QED
      BY <1>2, <2>2, <3>1, NewVisible, DeletionVisible DEF Sees, Visible
  <2> QED
    BY <1>2, <2>1, <2>2
<1> QED
  BY <1>1, <1>2

-----------------------------------------------------------------------------
(* The requests that act, seen together.  A request of t other than its    *)
(* end and a write conflict adds the new record of C, if any, and deletes  *)
(* the record of D, if any.                                                *)

Edit(t, C, D) ==
  /\ DOMAIN trans' = DOMAIN trans
  /\ trans'[t].creates = trans[t].creates \cup C
  /\ trans'[t].deletes = trans[t].deletes \cup D
  /\ trans'[t].asof = trans[t].asof
  /\ trans'[t].conflict = trans[t].conflict
  /\ ~ trans[t].conflict => trans[t].reads \subseteq trans'[t].reads
  /\ ~ trans[t].conflict /\ C \cup D # {} =>
       trans'[t].reads = trans[t].reads \cup {file'[off] : off \in C}
  /\ \A u \in DOMAIN trans \ {t} : trans'[u] = trans[u]
  /\ UNCHANGED <<clock, final, born, died>>
  /\ index' = index \cup C
  /\ Offsets \subseteq Offsets'
  /\ \A off \in Offsets : file'[off] = file[off]
  /\ \A off \in C :
       /\ off \in Offsets' \ Offsets
       /\ ~ Duplicate(t, file'[off], D)
       /\ ~ trans[t].conflict => file'[off] \in trans'[t].reads
  /\ \A off \in D :
       /\ off \in Offsets \ DOMAIN deleted
       /\ Holds(t, off)

\* What each request writes, for the reader of a lemma about edits.
Sizes(C, D) ==
  /\ C = {} \/ \E off : C = {off}
  /\ D = {} \/ \E off : D = {off}
  /\ nrecords' = nrecords + Cardinality(C) - Cardinality(D)

EditOf(t) == \E C, D \in SUBSET Offsets' : Edit(t, C, D) /\ Sizes(C, D)

LEMMA EmptyAndSingle ==
  ASSUME NEW off
  PROVE  Cardinality({}) = 0 /\ Cardinality({off}) = 1
BY FS_EmptySet, FS_Singleton

LEMMA SameSize ==
  ASSUME TypeOK, nrecords' = nrecords
  PROVE  Sizes({}, {})
BY FS_EmptySet DEF Sizes, TypeOK

LEMMA TransIsRecord ==
  ASSUME TypeOK, NEW t \in DOMAIN trans
  PROVE  trans[t] \in TransactionType
BY DEF TypeOK, TransOK

LEMMA ReadEdits ==
  ASSUME TypeOK, NEW t \in DOMAIN trans, NEW org \in Keys, NEW end \in Keys,
         Read(t, org, end)
  PROVE  EditOf(t)
<1>1. Edit(t, {}, {})
  BY TransIsRecord DEF Edit, Read, NowRead, Offsets, TransactionType
<1>2. Sizes({}, {})
  BY SameSize DEF Read
<1> QED
  BY <1>1, <1>2 DEF EditOf

LEMMA AddEdits ==
  ASSUME TypeOK, NEW t \in DOMAIN trans, NEW k \in Keys, Add(t, k)
  PROVE  EditOf(t)
<1>1. /\ Offsets' = Offsets \cup {NewOff} /\ NewOff \notin Offsets
      /\ file'[NewOff] = k
      /\ \A off \in Offsets : file'[off] = file[off]
  BY OutputGrows DEF TypeOK, Add
<1>2. Edit(t, {NewOff}, {})
  BY <1>1, TransIsRecord DEF Edit, Add, Create, NowRead, TransactionType
<1>3. Sizes({NewOff}, {})
  <2>1. Cardinality({}) = 0 /\ Cardinality({NewOff}) = 1
    BY EmptyAndSingle
  <2>2. nrecords' = nrecords + Cardinality({NewOff}) - Cardinality({})
    BY <2>1 DEF Add, TypeOK
  <2> QED
    BY <2>2 DEF Sizes
<1> QED
  BY <1>1, <1>2, <1>3 DEF EditOf

LEMMA AddDuplicateEdits ==
  ASSUME TypeOK, NEW t \in DOMAIN trans, NEW k \in Keys, AddDuplicate(t, k)
  PROVE  EditOf(t)
<1>1. /\ Offsets \subseteq Offsets'
      /\ \A off \in Offsets : file'[off] = file[off]
  BY OutputGrows DEF TypeOK, AddDuplicate
<1>2. Edit(t, {}, {})
  BY <1>1, TransIsRecord DEF Edit, AddDuplicate, NowRead, TransactionType
<1>3. Sizes({}, {})
  BY SameSize DEF AddDuplicate
<1> QED
  BY <1>2, <1>3 DEF EditOf

LEMMA RemoveEdits ==
  ASSUME TypeOK, NEW t \in DOMAIN trans, NEW off \in Offsets, Remove(t, off)
  PROVE  EditOf(t)
<1>1. Offsets' = Offsets
  BY DEF Remove, Offsets
<1>2. Edit(t, {}, {off})
  BY <1>1, TransIsRecord
     DEF Edit, Remove, MarkDeleted, NowRead, TransactionType
<1>3. Sizes({}, {off})
  <2>1. Cardinality({}) = 0 /\ Cardinality({off}) = 1
    BY EmptyAndSingle
  <2>2. nrecords' = nrecords + Cardinality({}) - Cardinality({off})
    BY <2>1 DEF Remove, TypeOK
  <2> QED
    BY <2>2 DEF Sizes
<1> QED
  BY <1>1, <1>2, <1>3 DEF EditOf

LEMMA UpdateEdits ==
  ASSUME TypeOK, NEW t \in DOMAIN trans, NEW off \in Offsets, NEW k \in Keys,
         Update(t, off, k)
  PROVE  EditOf(t)
<1>1. /\ Offsets' = Offsets \cup {NewOff} /\ NewOff \notin Offsets
      /\ file'[NewOff] = k
      /\ \A o \in Offsets : file'[o] = file[o]
  BY OutputGrows DEF TypeOK, Update
<1>2. Edit(t, {NewOff}, {off})
  <2>1. /\ DOMAIN trans' = DOMAIN trans
        /\ trans'[t].creates = trans[t].creates \cup {NewOff}
        /\ trans'[t].deletes = trans[t].deletes \cup {off}
        /\ trans'[t].asof = trans[t].asof
        /\ trans'[t].conflict = trans[t].conflict
        /\ trans'[t].reads = NowRead(t, {k})
        /\ \A u \in DOMAIN trans \ {t} : trans'[u] = trans[u]
    BY TransIsRecord DEF Update, Create, TransactionType
  <2>2. {file'[o] : o \in {NewOff}} = {k}
    BY <1>1
  <2> QED
    BY <1>1, <2>1, <2>2 DEF Edit, Update, MarkDeleted, Create, NowRead
<1>3. Sizes({NewOff}, {off})
  <2>1. Cardinality({off}) = 1 /\ Cardinality({NewOff}) = 1
    BY EmptyAndSingle
  <2>2. nrecords' = nrecords + Cardinality({NewOff}) - Cardinality({off})
    BY <2>1 DEF Update, TypeOK
  <2> QED
    BY <2>2 DEF Sizes
<1> QED
  BY <1>1, <1>2, <1>3 DEF EditOf

LEMMA UpdateDuplicateEdits ==
  ASSUME TypeOK, NEW t \in DOMAIN trans, NEW off \in Offsets, NEW k \in Keys,
         UpdateDuplicate(t, off, k)
  PROVE  EditOf(t)
<1>1. /\ Offsets \subseteq Offsets'
      /\ \A o \in Offsets : file'[o] = file[o]
  BY OutputGrows DEF TypeOK, UpdateDuplicate
<1>2. Edit(t, {}, {})
  BY <1>1, TransIsRecord DEF Edit, UpdateDuplicate, NowRead, TransactionType
<1>3. Sizes({}, {})
  BY SameSize DEF UpdateDuplicate
<1> QED
  BY <1>2, <1>3 DEF EditOf

\* So there are seven kinds of steps.
LEMMA StepKinds ==
  ASSUME TypeOK, [Next]_vars
  PROVE  \/ \E type \in {READONLY, READWRITE} : Begin(type)
         \/ \E t \in DOMAIN trans :
              \/ EditOf(t)
              \/ \E off \in Offsets : WriteConflict(t, off)
              \/ CommitUnchanged(t)
              \/ CommitUpdate(t)
              \/ Abort(t)
         \/ Restart
         \/ UNCHANGED vars
BY ReadEdits, AddEdits, AddDuplicateEdits, RemoveEdits, UpdateEdits,
   UpdateDuplicateEdits DEF Next, RequestOf, CommitFails

-----------------------------------------------------------------------------
(* The history invariant is inductive *)

\* finalize() takes the entries of final's finished transactions out of the
\* index, and they are the only ones their deletions had there.
LEMMA FinalizeTies ==
  ASSUME NEW trs, NEW fin, NEW cr, NEW de, NEW ix,
         Finalize(trs, fin, cr, de, ix),
         HistoryTies(trs, fin, ix, born', died')
  PROVE  HistoryTies(trans', final', index', born', died')
<1> DEFINE gone == Finalizable(fin, trs)
<1>1. /\ trans' = trs
      /\ final' = fin \ gone
      /\ index' = ix \ DeletesOf(gone)
  BY DEF Finalize
<1>2. \A f \in gone : /\ f \in fin
                      /\ \A g \in fin : g.asof = f.asof => g \in gone
                      /\ \A t \in DOMAIN trs : f.asof < trs[t].asof
  BY DEF Finalizable
<1>3. \A off : off \in DeletesOf(gone) <=> \E f \in gone : off \in f.deletes
  BY DEF DeletesOf
<1> HIDE DEF gone
<1>4. Recorded(final', born', died')
  BY <1>1 DEF HistoryTies, Recorded
<1>5. Settled(trans', final', born', died')
  BY <1>1, <1>2 DEF HistoryTies, Recorded, Settled
<1>6. Pending(trans', born', died')
  BY <1>1 DEF HistoryTies, Pending
<1>7. Indexed(trans', final', index', born', died')
  <2>1. \A off \in DeletesOf(gone) :
          /\ off \in DOMAIN died'
          /\ \A t \in DOMAIN trs : off \notin trs[t].creates
          /\ \A f \in fin \ gone : off \notin f.deletes
    BY <1>2, <1>3 DEF HistoryTies, Recorded, Pending
  <2>2. /\ PendingCreates(trs) \cap DeletesOf(gone) = {}
        /\ DeletesOf(fin \ gone) = DeletesOf(fin) \ DeletesOf(gone)
    BY <1>2, <1>3, <2>1 DEF PendingCreates, DeletesOf
  <2> QED
    BY <1>1, <2>1, <2>2 DEF HistoryTies, Indexed
<1> QED
  BY <1>4, <1>5, <1>6, <1>7 DEF HistoryTies

\* What a request may delete is committed or its own, and, if the transaction
\* can still commit, nobody's deletion of it was committed.
LEMMA HeldRecord ==
  ASSUME TypeOK, MapsMatchActs, History, NEW t \in DOMAIN trans, NEW off,
         Holds(t, off), off \notin DOMAIN deleted
  PROVE  /\ off \in DOMAIN born \cup trans[t].creates
         /\ ~ trans[t].conflict => off \notin DOMAIN died /\ off \in Sees(t)
<1>1. off \notin trans[t].deletes
  BY DEF MapsMatchActs, DeletedMatchesActs, DeletedMatches
<1>2. \A f \in final : off \notin f.deletes
  BY DEF MapsMatchActs, DeletedMatchesActs, DeletedMatches
<1>3. CASE off \in Sees(t)
  <2>1. off \in Live(trans[t].asof) \cup trans[t].creates
    BY <1>3, Snapshot DEF SnapshotRead
  <2>2. off \in Live(trans[t].asof) => off \in DOMAIN born /\ off \notin DOMAIN died
    BY <1>2, TimeFacts DEF Live, History, HistoryTies, Settled
  <2> QED
    BY <1>3, <2>1, <2>2 DEF History, HistoryTies, Pending
<1>4. CASE trans[t].conflict /\ off \in Live(t)
  BY <1>4 DEF Live
<1> QED
  BY <1>1, <1>3, <1>4 DEF Holds

LEMMA EditTies ==
  ASSUME TypeOK, MapsMatchActs, History, NEW t \in DOMAIN trans,
         NEW C, NEW D, Edit(t, C, D)
  PROVE  HistoryTies(trans', final', index', born', died')
<1>1. /\ DOMAIN trans' = DOMAIN trans
      /\ trans'[t].creates = trans[t].creates \cup C
      /\ trans'[t].deletes = trans[t].deletes \cup D
      /\ trans'[t].asof = trans[t].asof
      /\ trans'[t].conflict = trans[t].conflict
      /\ \A u \in DOMAIN trans \ {t} : trans'[u] = trans[u]
      /\ UNCHANGED <<final, born, died>>
      /\ index' = index \cup C
  BY DEF Edit
<1>2. /\ C \cap DOMAIN born = {}
      /\ D \subseteq DOMAIN born \cup trans[t].creates
      /\ ~ trans[t].conflict => D \cap DOMAIN died = {}
  <2>1. DOMAIN born \subseteq Offsets
    BY DEF TypeOK, HistoryOK
  <2> QED
    BY <2>1, HeldRecord DEF Edit
<1>3. Recorded(final', born', died') /\ Settled(trans', final', born', died')
  BY <1>1 DEF History, HistoryTies, Recorded, Settled
<1>4. Pending(trans', born', died')
  BY <1>1, <1>2 DEF History, HistoryTies, Pending
<1>5. Indexed(trans', final', index', born', died')
  <2>1. PendingCreates(trans') = PendingCreates(trans) \cup C
    BY <1>1 DEF PendingCreates
  <2> QED
    BY <1>1, <2>1 DEF History, HistoryTies, Indexed
<1> QED
  BY <1>3, <1>4, <1>5 DEF HistoryTies

LEMMA BeginTies ==
  ASSUME TypeOK, MapsMatchActs, History, NEW type \in {READONLY, READWRITE},
         Begin(type)
  PROVE  /\ HistoryTies(trans', final', index', born', died')
         /\ StartTime(type) \notin DOMAIN trans
         /\ clock <= StartTime(type)
<1>1. StartTime(type) \in Nat /\ clock <= StartTime(type)
  BY TimeFacts DEF StartTime
<1>2. StartTime(type) \notin DOMAIN trans
  BY <1>1, TimeFacts
<1>3. /\ DOMAIN trans' = DOMAIN trans \cup {StartTime(type)}
      /\ trans'[StartTime(type)].asof = StartTime(type)
      /\ trans'[StartTime(type)].creates = {}
      /\ trans'[StartTime(type)].deletes = {}
      /\ \A u \in DOMAIN trans : trans'[u] = trans[u]
      /\ UNCHANGED <<final, index, born, died>>
  BY <1>2 DEF Begin, Put
<1>4. \A off \in DOMAIN born : born[off] < StartTime(type)
  BY <1>1, TimeFacts DEF History, HistoryOrdered
<1>5. \A off \in DOMAIN died : died[off] < StartTime(type)
  BY <1>1, TimeFacts DEF History, HistoryOrdered
<1>6. Recorded(final', born', died') /\ Settled(trans', final', born', died')
  BY <1>3, <1>4, <1>5 DEF History, HistoryTies, Recorded, Settled
<1>7. Pending(trans', born', died')
  BY <1>3 DEF History, HistoryTies, Pending
<1>8. Indexed(trans', final', index', born', died')
  <2>1. PendingCreates(trans') = PendingCreates(trans)
    BY <1>3 DEF PendingCreates
  <2> QED
    BY <1>3, <2>1 DEF History, HistoryTies, Indexed
<1> QED
  BY <1>1, <1>2, <1>6, <1>7, <1>8 DEF HistoryTies

\* A write conflict raises asof and forgets reads, before finalize().
Conflicted(t) ==
  [trans EXCEPT ![t].conflict = TRUE, ![t].asof = FUTURE, ![t].reads = {}]

LEMMA ConflictTies ==
  ASSUME TypeOK, MapsMatchActs, History, NEW t \in DOMAIN trans,
         NEW off \in Offsets, WriteConflict(t, off)
  PROVE  HistoryTies(trans', final', index', born', died')
<1> DEFINE trs == Conflicted(t)
<1>1. Finalize(trs, final, created, deleted, index) /\ UNCHANGED <<born, died>>
  BY DEF WriteConflict, Conflicted
<1>2. /\ DOMAIN trs = DOMAIN trans
      /\ trs[t].conflict = TRUE
      /\ trs[t].asof = FUTURE
      /\ trs[t].creates = trans[t].creates
      /\ trs[t].deletes = trans[t].deletes
      /\ \A u \in DOMAIN trans \ {t} : trs[u] = trans[u]
  BY TransIsRecord DEF Conflicted, TransactionType
<1> HIDE DEF trs
<1>3. Settled(trs, final, born, died)
  BY <1>2, TimeFacts DEF History, HistoryTies, Settled
<1>4. Pending(trs, born, died)
  BY <1>2 DEF History, HistoryTies, Pending
<1>5. Indexed(trs, final, index, born, died)
  <2>1. PendingCreates(trs) = PendingCreates(trans)
    BY <1>2 DEF PendingCreates
  <2> QED
    BY <2>1 DEF History, HistoryTies, Indexed
<1>6. HistoryTies(trs, final, index, born', died')
  BY <1>1, <1>3, <1>4, <1>5 DEF History, HistoryTies
<1> QED
  BY <1>1, <1>6, FinalizeTies

LEMMA WithoutOne ==
  ASSUME NEW t
  PROVE  /\ DOMAIN Without(trans, {t}) = DOMAIN trans \ {t}
         /\ \A u \in DOMAIN trans \ {t} : Without(trans, {t})[u] = trans[u]
BY DEF Without, Restrict

\* The end of a transaction without acts takes nothing along, and an abort
\* takes the new records out of the index.
LEMMA AbandonTies ==
  ASSUME TypeOK, MapsMatchActs, History, NEW t \in DOMAIN trans,
         NEW cr, NEW de,
         Finalize(Without(trans, {t}), final, cr, de,
                  index \ trans[t].creates),
         UNCHANGED <<born, died>>
  PROVE  HistoryTies(trans', final', index', born', died')
<1> DEFINE trs == Without(trans, {t})
           ix == index \ trans[t].creates
<1>1. /\ DOMAIN trs = DOMAIN trans \ {t}
      /\ \A u \in DOMAIN trans \ {t} : trs[u] = trans[u]
  BY WithoutOne
<1>2. Finalize(trs, final, cr, de, ix)
  OBVIOUS
<1> HIDE DEF trs
<1>3. Settled(trs, final, born, died) /\ Pending(trs, born, died)
  BY <1>1 DEF History, HistoryTies, Settled, Pending
<1>4. Indexed(trs, final, ix, born, died)
  <2>1. PendingCreates(trs) = PendingCreates(trans) \ trans[t].creates
    <3>1. \A u \in DOMAIN trans \ {t} :
            trans[u].creates \cap trans[t].creates = {}
      BY ActsApart
    <3> QED
      BY <1>1, <3>1 DEF PendingCreates
  <2>2. trans[t].creates \cap (DOMAIN born \cup DeletesOf(final)) = {}
    BY DEF History, HistoryTies, Pending, Recorded, DeletesOf
  <2> QED
    BY <2>1, <2>2 DEF History, HistoryTies, Indexed
<1>5. HistoryTies(trs, final, ix, born', died')
  BY <1>3, <1>4 DEF History, HistoryTies
<1> QED
  BY <1>2, <1>5, FinalizeTies

\* A commit puts the acts into the history, at the time of the clock.
LEMMA CommitTies ==
  ASSUME TypeOK, MapsMatchActs, History, NEW t \in DOMAIN trans,
         CommitUpdate(t)
  PROVE  HistoryTies(trans', final', index', born', died')
<1> DEFINE trs == Without(trans, {t})
           fin == final \cup {Committed(t)}
<1>1. /\ DOMAIN trs = DOMAIN trans \ {t}
      /\ \A u \in DOMAIN trans \ {t} : trs[u] = trans[u]
  BY WithoutOne
<1>2. /\ Committed(t).asof = clock
      /\ Committed(t).creates = trans[t].creates
      /\ Committed(t).deletes = trans[t].deletes
  BY DEF Committed
<1>3. /\ DOMAIN born' = DOMAIN born \cup trans[t].creates
      /\ \A off \in trans[t].creates : born'[off] = clock
      /\ \A off \in DOMAIN born \ trans[t].creates : born'[off] = born[off]
      /\ DOMAIN died' = DOMAIN died \cup trans[t].deletes
      /\ \A off \in trans[t].deletes : died'[off] = clock
      /\ \A off \in DOMAIN died \ trans[t].deletes : died'[off] = died[off]
  BY DEF CommitUpdate, Put
<1>4. /\ trans[t].creates \cap DOMAIN born = {}
      /\ trans[t].deletes \cap DOMAIN died = {}
      /\ trans[t].deletes \subseteq DOMAIN born \cup trans[t].creates
      /\ DOMAIN died \subseteq DOMAIN born
  BY DEF History, HistoryTies, Pending, CommitUpdate
<1>5. \A u \in DOMAIN trans \ {t} :
        /\ trans[u].creates \cap trans[t].creates = {}
        /\ trans[u].deletes \cap trans[t].deletes = {}
  BY ActsApart
<1>6. \A f \in fin : f \in final \/ f = Committed(t)
  OBVIOUS
<1>7. Committed(t) \in fin /\ final \subseteq fin
  OBVIOUS
<1>8. \E cr, de : Finalize(trs, fin, cr, de, index)
  BY DEF CommitUpdate, Committed
<1>9. DeletesOf(fin) = DeletesOf(final) \cup trans[t].deletes
  BY <1>2 DEF DeletesOf
<1> HIDE DEF trs, fin
<1>10. Recorded(fin, born', died')
  <2>1. ASSUME NEW f \in final
        PROVE  /\ \A off \in f.creates : off \in DOMAIN born' /\ born'[off] = f.asof
               /\ \A off \in f.deletes : off \in DOMAIN died' /\ died'[off] = f.asof
    BY <1>3, <1>4 DEF History, HistoryTies, Recorded
  <2> QED
    BY <1>2, <1>3, <1>6, <2>1 DEF Recorded
<1>11. Settled(trs, fin, born', died')
  <2> SUFFICES ASSUME NEW u \in DOMAIN trans \ {t}
               PROVE  /\ \A off \in DOMAIN born' :
                           \/ born'[off] < trans[u].asof
                           \/ \E f \in fin : off \in f.creates
                      /\ \A off \in DOMAIN died' :
                           \/ died'[off] < trans[u].asof
                           \/ \E f \in fin : off \in f.deletes
    BY <1>1 DEF Settled
  <2>1. /\ \A off \in DOMAIN born : born[off] < trans[u].asof
                                    \/ \E f \in final : off \in f.creates
        /\ \A off \in DOMAIN died : died[off] < trans[u].asof
                                    \/ \E f \in final : off \in f.deletes
    BY DEF History, HistoryTies, Settled
  <2> QED
    BY <1>2, <1>3, <1>7, <2>1
<1>12. Pending(trs, born', died')
  BY <1>1, <1>3, <1>4, <1>5 DEF History, HistoryTies, Pending
<1>13. Indexed(trs, fin, index, born', died')
  <2>1. PendingCreates(trans) = PendingCreates(trs) \cup trans[t].creates
    BY <1>1 DEF PendingCreates
  <2>2. /\ DOMAIN died \cap trans[t].creates = {}
        /\ PendingCreates(trs) \cap trans[t].deletes = {}
    <3>1. \A u \in DOMAIN trans \ {t} :
            /\ trans[u].creates \cap DOMAIN born = {}
            /\ trans[u].creates \cap trans[t].creates = {}
      BY <1>5 DEF History, HistoryTies, Pending
    <3> QED
      BY <1>1, <1>4, <3>1 DEF PendingCreates
  <2> QED
    BY <1>3, <1>4, <1>9, <2>1, <2>2 DEF History, HistoryTies, Indexed
<1>14. HistoryTies(trs, fin, index, born', died')
  BY <1>10, <1>11, <1>12, <1>13 DEF HistoryTies
<1> QED
  BY <1>8, <1>14, FinalizeTies

LEMMA OrderedHistory ==
  ASSUME TypeOK, MapsMatchActs, History, [Next]_vars
  PROVE  HistoryOrdered'
<1> USE DEF History
<1>1. ASSUME NEW type \in {READONLY, READWRITE}, Begin(type)
      PROVE  HistoryOrdered'
  <2>1. StartTime(type) \in Nat /\ clock <= StartTime(type)
    BY TimeFacts DEF StartTime
  <2> QED
    BY <1>1, <2>1, TimeFacts DEF HistoryOrdered, Begin, Put
<1>2. ASSUME NEW t \in DOMAIN trans, EditOf(t)
      PROVE  HistoryOrdered'
  BY <1>2 DEF HistoryOrdered, EditOf, Edit
<1>3. ASSUME NEW t \in DOMAIN trans, NEW off \in Offsets,
             WriteConflict(t, off)
      PROVE  HistoryOrdered'
  BY <1>3, FinalizeDrops DEF HistoryOrdered, WriteConflict
<1>4. ASSUME NEW t \in DOMAIN trans, CommitUnchanged(t) \/ Abort(t)
      PROVE  HistoryOrdered'
  <2>1. /\ trans' = Without(trans, {t})
        /\ UNCHANGED <<clock, born, died>>
    BY <1>4, FinalizeDrops DEF CommitUnchanged, Abort
  <2> QED
    BY <2>1, WithoutOne DEF HistoryOrdered
<1>5. ASSUME NEW t \in DOMAIN trans, CommitUpdate(t)
      PROVE  HistoryOrdered'
  <2>1. /\ trans' = Without(trans, {t})
        /\ clock' = clock + 1
        /\ born' = Put(born, trans[t].creates, clock)
        /\ died' = Put(died, trans[t].deletes, clock)
    BY <1>5, FinalizeDrops DEF CommitUpdate
  <2>2. \A off \in DOMAIN born' :
          born'[off] = clock \/ (off \in DOMAIN born /\ born'[off] = born[off])
    BY <2>1 DEF Put
  <2>3. \A off \in DOMAIN died' :
          died'[off] = clock \/ (off \in DOMAIN died /\ died'[off] = died[off])
    BY <2>1 DEF Put
  <2>4. /\ \A off \in DOMAIN born' : born'[off] < clock + 1
        /\ \A off \in DOMAIN died' : died'[off] < clock + 1
    BY <2>2, <2>3, TimeFacts DEF HistoryOrdered
  <2>5. DOMAIN trans' \subseteq DOMAIN trans
    BY <2>1, WithoutOne
  <2>6. 0 < clock + 1
    BY TimeFacts
  <2> QED
    BY <2>1, <2>4, <2>5, <2>6 DEF HistoryOrdered
<1>6. CASE Restart
  BY <1>6 DEF HistoryOrdered, Restart, EmptyMap
<1>7. CASE UNCHANGED vars
  BY <1>7 DEF HistoryOrdered, vars
<1> QED
  BY <1>1, <1>2, <1>3, <1>4, <1>5, <1>6, <1>7, StepKinds

\* A restart finds final empty, so the index has the committed records only.
LEMMA RestartTies ==
  ASSUME TypeOK, MapsMatchActs, History, FinalIsNeeded, Restart
  PROVE  HistoryTies(trans', final', index', born', died')
<1>1. final = {} /\ DOMAIN trans = {} /\ PendingCreates(trans) = {}
  BY DEF FinalIsNeeded, Restart, EmptyMap, PendingCreates
<1>2. /\ trans' = trans /\ final' = {} /\ index' = index
      /\ DOMAIN born' = DOMAIN born \ DOMAIN died
      /\ DOMAIN died' = {}
  BY LiveNow DEF Restart, EmptyMap
<1>3. DeletesOf(final) = {} /\ DeletesOf(final') = {}
  BY <1>1, <1>2 DEF DeletesOf
<1>4. Indexed(trans', final', index', born', died')
  BY <1>1, <1>2, <1>3 DEF History, HistoryTies, Indexed
<1> QED
  BY <1>1, <1>2, <1>4 DEF HistoryTies, Recorded, Settled, Pending

LEMMA HistoryNext ==
  ASSUME TypeOK, MapsMatchActs, History, FinalIsNeeded, [Next]_vars
  PROVE  History'
<1>1. ASSUME NEW type \in {READONLY, READWRITE}, Begin(type)
      PROVE  HistoryTies(trans', final', index', born', died')
  BY <1>1, BeginTies
<1>2. ASSUME NEW t \in DOMAIN trans, EditOf(t)
      PROVE  HistoryTies(trans', final', index', born', died')
  BY <1>2, EditTies DEF EditOf
<1>3. ASSUME NEW t \in DOMAIN trans, NEW off \in Offsets,
             WriteConflict(t, off)
      PROVE  HistoryTies(trans', final', index', born', died')
  BY <1>3, ConflictTies
<1>4. ASSUME NEW t \in DOMAIN trans, CommitUnchanged(t)
      PROVE  HistoryTies(trans', final', index', born', died')
  <2>1. trans[t].creates = {}
    BY <1>4 DEF CommitUnchanged, HasActs, MapsMatchActs, TimesOrdered
  <2>2. index = index \ trans[t].creates
    BY <2>1
  <2>3. Finalize(Without(trans, {t}), final, created, deleted,
                 index \ trans[t].creates)
    BY <1>4, <2>2 DEF CommitUnchanged
  <2> QED
    BY <1>4, <2>3, AbandonTies DEF CommitUnchanged
<1>5. ASSUME NEW t \in DOMAIN trans, CommitUpdate(t)
      PROVE  HistoryTies(trans', final', index', born', died')
  BY <1>5, CommitTies
<1>6. ASSUME NEW t \in DOMAIN trans, Abort(t)
      PROVE  HistoryTies(trans', final', index', born', died')
  BY <1>6, AbandonTies DEF Abort, IndexWithout
<1>7. ASSUME Restart
      PROVE  HistoryTies(trans', final', index', born', died')
  BY <1>7, RestartTies
<1>8. ASSUME UNCHANGED vars
      PROVE  HistoryTies(trans', final', index', born', died')
  BY <1>8 DEF vars, History
<1>9. HistoryTies(trans', final', index', born', died')
  BY <1>1, <1>2, <1>3, <1>4, <1>5, <1>6, <1>7, <1>8, StepKinds
<1> QED
  BY <1>9, OrderedHistory DEF History

-----------------------------------------------------------------------------
(* How long a transaction stays in final *)

\* Nothing that finalize() leaves in final could have been taken out.
LEMMA FinalizeNeeded ==
  ASSUME TypeOK', TimesOrdered', NEW trs, NEW fin, NEW cr, NEW de, NEW ix,
         Finalize(trs, fin, cr, de, ix)
  PROVE  FinalIsNeeded'
<1> SUFFICES ASSUME NEW f \in final'
             PROVE  \E t \in DOMAIN trans' : trans'[t].asof < f.asof
  BY DEF FinalIsNeeded
<1>1. PICK t \in DOMAIN trans' : ~ f.asof < trans'[t].asof
  BY DEF Finalize, Finalizable
<1>2. f.asof \in Times /\ f.asof \notin DOMAIN trans' /\ t \in Times
  BY DEF TypeOK, TransOK, FinalType, TimesOrdered, Times
<1>3. trans'[t].asof = FUTURE \/ trans'[t].asof = t
  BY DEF TimesOrdered
<1> QED
  BY <1>1, <1>2, <1>3, ConstantFacts DEF Times

LEMMA NeededNext ==
  ASSUME TypeOK, TypeOK', MapsMatchActs, MapsMatchActs', FinalIsNeeded,
         [Next]_vars
  PROVE  FinalIsNeeded'
<1> USE DEF MapsMatchActs
<1>1. ASSUME NEW type \in {READONLY, READWRITE}, Begin(type)
      PROVE  FinalIsNeeded'
  <2>1. StartTime(type) \notin DOMAIN trans
    BY TimeFacts DEF StartTime
  <2> QED
    BY <1>1, <2>1 DEF FinalIsNeeded, Begin, Put
<1>2. ASSUME NEW t \in DOMAIN trans, EditOf(t)
      PROVE  FinalIsNeeded'
  <2>1. /\ DOMAIN trans' = DOMAIN trans /\ final' = final
        /\ \A u \in DOMAIN trans : trans'[u].asof = trans[u].asof
    BY <1>2 DEF EditOf, Edit
  <2> QED
    BY <2>1 DEF FinalIsNeeded
<1>3. ASSUME NEW t \in DOMAIN trans, NEW off \in Offsets,
             WriteConflict(t, off)
      PROVE  FinalIsNeeded'
  BY <1>3, FinalizeNeeded DEF WriteConflict
<1>4. ASSUME NEW t \in DOMAIN trans,
             CommitUnchanged(t) \/ CommitUpdate(t) \/ Abort(t)
      PROVE  FinalIsNeeded'
  BY <1>4, FinalizeNeeded DEF CommitUnchanged, CommitUpdate, Abort
<1>5. CASE Restart
  BY <1>5 DEF FinalIsNeeded, Restart
<1>6. CASE UNCHANGED vars
  BY <1>6 DEF FinalIsNeeded, vars
<1> QED
  BY <1>1, <1>2, <1>3, <1>4, <1>5, <1>6, StepKinds

\* A commit is taken out of final by the end of the last transaction that
\* started before it, if not sooner, so with none active final is empty.
LEMMA FinalStaysNeeded == Spec => []FinalIsNeeded
<1>1. Init => FinalIsNeeded
  BY DEF Init, FinalIsNeeded
<1>2. /\ TypeOK /\ TypeOK' /\ MapsMatchActs /\ MapsMatchActs'
      /\ FinalIsNeeded /\ [Next]_vars
      => FinalIsNeeded'
  BY NeededNext
<1> QED
  BY <1>1, <1>2, MapsInvariant, PTL DEF Spec

LEMMA HistoryInit == Init => History
<1> SUFFICES ASSUME Init PROVE History
  OBVIOUS
<1>1. /\ DOMAIN trans = {} /\ final = {} /\ DOMAIN died = {}
      /\ DOMAIN born = index /\ \A off \in DOMAIN born : born[off] = 0
      /\ clock = 1
  BY DEF Init, EmptyMap
<1>2. PendingCreates(trans) = {} /\ DeletesOf(final) = {}
  BY <1>1 DEF PendingCreates, DeletesOf
<1> QED
  BY <1>1, <1>2
     DEF History, HistoryOrdered, HistoryTies, Recorded, Settled, Pending,
         Indexed

\* What committed after the start of an active transaction is still in final,
\* and what is in final is in the history at its time.
LEMMA NeededIsHeld ==
  ASSUME TypeOK, MapsMatchActs, History
  PROVE  FinalHasNeeded
<1> SUFFICES ASSUME NEW t \in DOMAIN trans
             PROVE  /\ \A off \in DOMAIN born : born[off] > trans[t].asof =>
                         \E f \in final : off \in f.creates /\ f.asof = born[off]
                    /\ \A off \in DOMAIN died : died[off] > trans[t].asof =>
                         \E f \in final : off \in f.deletes /\ f.asof = died[off]
  BY DEF FinalHasNeeded
<1>1. /\ Recorded(final, born, died) /\ Settled(trans, final, born, died)
      /\ trans[t].asof \in Nat
      /\ \A off \in DOMAIN born : born[off] \in Nat
      /\ \A off \in DOMAIN died : died[off] \in Nat
  BY TimeFacts DEF History, HistoryTies
<1>2. /\ \A off \in DOMAIN born : born[off] > trans[t].asof =>
           \E f \in final : off \in f.creates
      /\ \A off \in DOMAIN died : died[off] > trans[t].asof =>
           \E f \in final : off \in f.deletes
  BY <1>1 DEF Settled
<1> QED
  BY <1>1, <1>2 DEF Recorded

\* The history invariant, with all it rests on.
LEMMA HistoryInvariant ==
  Spec => [](TypeOK /\ MapsMatchActs /\ FinalIsNeeded /\ History)
<1>1. /\ TypeOK /\ MapsMatchActs /\ FinalIsNeeded /\ History /\ [Next]_vars
      => History'
  BY HistoryNext
<1> QED
  BY <1>1, HistoryInit, MapsInvariant, FinalStaysNeeded, PTL DEF Spec

\* A commit is in final from its commit to the end of the last transaction that
\* started before it: not longer, and not shorter either.
THEOREM FinalStaysExact == Spec => []FinalIsExact
BY HistoryInvariant, NeededIsHeld, PTL DEF FinalIsExact

\* A transaction reads the table as of its start with its own changes, under
\* every interleaving of requests, commits, aborts and finalizations.
THEOREM ReadsAreSnapshots == Spec => []SnapshotRead
<1>1. TypeOK /\ MapsMatchActs /\ History => SnapshotRead
  BY Snapshot
<1> QED
  BY <1>1, HistoryInvariant, PTL

-----------------------------------------------------------------------------
(* The index and the record count *)

LEMMA ActsAreFinite ==
  ASSUME TypeOK
  PROVE  /\ IsFiniteSet(Offsets)
         /\ CreatesOf(Active) \subseteq Offsets
         /\ DeletesOf(Active) \subseteq Offsets
         /\ Live(FUTURE) \subseteq Offsets
         /\ \A S \in SUBSET Offsets : IsFiniteSet(S) /\ Cardinality(S) \in Nat
<1>1. IsFiniteSet(Offsets)
  <2>1. Offsets = 1 .. Len(file) /\ Len(file) \in Nat
    BY DEF TypeOK, Offsets
  <2> QED
    BY <2>1, FS_Interval
<1>2. /\ CreatesOf(Active) \subseteq Offsets
      /\ DeletesOf(Active) \subseteq Offsets
  BY ActTypes DEF CreatesOf, DeletesOf, Active
<1>3. Live(FUTURE) \subseteq Offsets
  BY DEF Live, TypeOK, HistoryOK
<1> QED
  BY <1>1, <1>2, <1>3, FS_Subset, FS_CardinalityType

\* The sizes of what is added to a set and of what is taken from it.
LEMMA GrownSize ==
  ASSUME NEW S, NEW T, IsFiniteSet(S), IsFiniteSet(T), S \cap T = {}
  PROVE  Cardinality(S \cup T) = Cardinality(S) + Cardinality(T)
<1>1. Cardinality(S) \in Nat /\ Cardinality(T) \in Nat
  BY FS_CardinalityType
<1>2. Cardinality(S \cup T)
        = Cardinality(S) + Cardinality(T) - Cardinality(S \cap T)
  BY FS_Union
<1>3. Cardinality(S \cap T) = 0
  BY FS_EmptySet
<1> QED
  BY <1>1, <1>2, <1>3

LEMMA ShrunkSize ==
  ASSUME NEW S, NEW T, IsFiniteSet(S), T \subseteq S
  PROVE  Cardinality(S \ T) = Cardinality(S) - Cardinality(T)
<1>1. Cardinality(S \ T) = Cardinality(S) - Cardinality(S \cap T)
  BY FS_Difference
<1>2. S \cap T = T
  OBVIOUS
<1> QED
  BY <1>1, <1>2

\* The acts of the active transactions, one by one.
LEMMA InActive ==
  /\ \A off : off \in CreatesOf(Active) <=>
       \E t \in DOMAIN trans : off \in trans[t].creates
  /\ \A off : off \in DeletesOf(Active) <=>
       \E t \in DOMAIN trans : off \in trans[t].deletes
BY DEF CreatesOf, DeletesOf, Active

\* The same after a step.
LEMMA InActiveNext ==
  /\ \A off : off \in CreatesOf(Active)' <=>
       \E t \in DOMAIN trans' : off \in trans'[t].creates
  /\ \A off : off \in DeletesOf(Active)' <=>
       \E t \in DOMAIN trans' : off \in trans'[t].deletes
BY DEF CreatesOf, DeletesOf, Active

LEMMA IndexIsEntries ==
  ASSUME TypeOK, MapsMatchActs, History
  PROVE  IndexEntries
<1>1. CreatesOf(Active) = PendingCreates(trans)
  BY DEF CreatesOf, Active, PendingCreates
<1> QED
  BY <1>1, LiveNow DEF IndexEntries, History, HistoryTies, Indexed

\* A step that leaves the acts, the history and the count alone.
LEMMA SameCount ==
  ASSUME RecordCount, nrecords' = nrecords,
         CreatesOf(Active)' = CreatesOf(Active),
         DeletesOf(Active)' = DeletesOf(Active),
         Live(FUTURE)' = Live(FUTURE)
  PROVE  RecordCount'
BY DEF RecordCount

LEMMA EditCounts ==
  ASSUME TypeOK, TypeOK', MapsMatchActs, History, RecordCount,
         NEW t \in DOMAIN trans, EditOf(t)
  PROVE  RecordCount'
<1>1. PICK C \in SUBSET Offsets', D \in SUBSET Offsets' :
        Edit(t, C, D) /\ Sizes(C, D)
  BY DEF EditOf
<1>2. /\ DOMAIN trans' = DOMAIN trans
      /\ trans'[t].creates = trans[t].creates \cup C
      /\ trans'[t].deletes = trans[t].deletes \cup D
      /\ \A u \in DOMAIN trans \ {t} : trans'[u] = trans[u]
      /\ UNCHANGED <<born, died>>
  BY <1>1 DEF Edit
<1>3. /\ CreatesOf(Active)' = CreatesOf(Active) \cup C
      /\ DeletesOf(Active)' = DeletesOf(Active) \cup D
  BY <1>2 DEF CreatesOf, DeletesOf, Active
<1>4. Live(FUTURE)' = Live(FUTURE)
  BY <1>2 DEF Live
<1>5. /\ CreatesOf(Active) \cap C = {}
      /\ DeletesOf(Active) \cap D = {}
  <2>1. CreatesOf(Active) \subseteq Offsets
    BY ActsAreFinite
  <2>2. DeletesOf(Active) \subseteq DOMAIN deleted
    BY InActive DEF MapsMatchActs, DeletedMatchesActs, DeletedMatches
  <2> QED
    BY <1>1, <2>1, <2>2 DEF Edit
<1>6. /\ IsFiniteSet(C) /\ IsFiniteSet(D)
      /\ Cardinality(C) \in Nat /\ Cardinality(D) \in Nat
  <2>1. \A S : S = {} \/ (\E off : S = {off}) => IsFiniteSet(S)
    BY FS_EmptySet, FS_Singleton
  <2>2. IsFiniteSet(C) /\ IsFiniteSet(D)
    BY <1>1, <2>1 DEF Sizes
  <2> QED
    BY <2>2, FS_CardinalityType
<1>7. /\ IsFiniteSet(CreatesOf(Active)) /\ IsFiniteSet(DeletesOf(Active))
      /\ Cardinality(CreatesOf(Active)) \in Nat
      /\ Cardinality(DeletesOf(Active)) \in Nat
      /\ Cardinality(Live(FUTURE)) \in Nat
  BY ActsAreFinite
<1>8. /\ Cardinality(CreatesOf(Active)')
           = Cardinality(CreatesOf(Active)) + Cardinality(C)
      /\ Cardinality(DeletesOf(Active)')
           = Cardinality(DeletesOf(Active)) + Cardinality(D)
  BY <1>3, <1>5, <1>6, <1>7, GrownSize
<1>9. nrecords \in Int /\ nrecords' = nrecords + Cardinality(C) - Cardinality(D)
  BY <1>1 DEF Sizes, TypeOK
<1> QED
  BY <1>4, <1>6, <1>7, <1>8, <1>9 DEF RecordCount

\* What the end of t leaves of the acts.
LEMMA EndedActs ==
  ASSUME TypeOK, MapsMatchActs, NEW t \in DOMAIN trans,
         trans' = Without(trans, {t})
  PROVE  /\ CreatesOf(Active)' = CreatesOf(Active) \ trans[t].creates
         /\ DeletesOf(Active)' = DeletesOf(Active) \ trans[t].deletes
         /\ Cardinality(CreatesOf(Active)')
              = Cardinality(CreatesOf(Active)) - Cardinality(trans[t].creates)
         /\ Cardinality(DeletesOf(Active)')
              = Cardinality(DeletesOf(Active)) - Cardinality(trans[t].deletes)
<1>1. /\ DOMAIN trans' = DOMAIN trans \ {t}
      /\ \A u \in DOMAIN trans \ {t} : trans'[u] = trans[u]
  BY WithoutOne
<1>2. \A u \in DOMAIN trans \ {t} :
        /\ trans[u].creates \cap trans[t].creates = {}
        /\ trans[u].deletes \cap trans[t].deletes = {}
  BY ActsApart
<1>3. CreatesOf(Active)' = CreatesOf(Active) \ trans[t].creates
  BY <1>1, <1>2, InActive, InActiveNext
<1>4. DeletesOf(Active)' = DeletesOf(Active) \ trans[t].deletes
  BY <1>1, <1>2, InActive, InActiveNext
<1>5. /\ trans[t].creates \subseteq CreatesOf(Active)
      /\ trans[t].deletes \subseteq DeletesOf(Active)
  BY InActive
<1>6. IsFiniteSet(CreatesOf(Active)) /\ IsFiniteSet(DeletesOf(Active))
  BY ActsAreFinite
<1> QED
  BY <1>3, <1>4, <1>5, <1>6, ShrunkSize

\* What a commit makes of the committed records.
LEMMA CommittedRecords ==
  ASSUME TypeOK, TypeOK', MapsMatchActs, MapsMatchActs', History,
         NEW t \in DOMAIN trans, CommitUpdate(t)
  PROVE  /\ trans[t].creates \cap Live(FUTURE) = {}
         /\ trans[t].deletes \subseteq Live(FUTURE) \cup trans[t].creates
         /\ Live(FUTURE)' = (Live(FUTURE) \cup trans[t].creates)
                              \ trans[t].deletes
<1>1. Live(FUTURE) = DOMAIN born \ DOMAIN died
  BY LiveNow
<1>2. /\ DOMAIN born' = DOMAIN born \cup trans[t].creates
      /\ DOMAIN died' = DOMAIN died \cup trans[t].deletes
  BY DEF CommitUpdate, Put
<1>3. /\ \A off \in DOMAIN born' : born'[off] \in Times
      /\ \A off \in DOMAIN died' : died'[off] \in Times
  BY DEF TypeOK, HistoryOK
<1>4. FUTURE' = FUTURE
  BY DEF FUTURE
<1>5. Live(FUTURE)' = DOMAIN born' \ DOMAIN died'
  BY <1>3, <1>4, ConstantFacts DEF Live, Times
<1>6. /\ trans[t].creates \cap DOMAIN born = {}
      /\ trans[t].deletes \cap DOMAIN died = {}
      /\ trans[t].deletes \subseteq DOMAIN born \cup trans[t].creates
      /\ DOMAIN died \subseteq DOMAIN born
  BY DEF History, HistoryTies, Pending, CommitUpdate
<1> QED
  BY <1>1, <1>2, <1>5, <1>6

LEMMA CountNext ==
  ASSUME TypeOK, TypeOK', MapsMatchActs, MapsMatchActs', History, RecordCount,
         [Next]_vars
  PROVE  RecordCount'
<1>1. ASSUME NEW type \in {READONLY, READWRITE}, Begin(type)
      PROVE  RecordCount'
  <2>1. StartTime(type) \notin DOMAIN trans
    BY TimeFacts DEF StartTime
  <2>2. /\ DOMAIN trans' = DOMAIN trans \cup {StartTime(type)}
        /\ trans'[StartTime(type)].creates = {}
        /\ trans'[StartTime(type)].deletes = {}
        /\ \A u \in DOMAIN trans : trans'[u] = trans[u]
        /\ UNCHANGED <<nrecords, born, died>>
    BY <1>1, <2>1 DEF Begin, Put
  <2>3. /\ CreatesOf(Active)' = CreatesOf(Active)
        /\ DeletesOf(Active)' = DeletesOf(Active)
        /\ Live(FUTURE)' = Live(FUTURE)
    BY <2>2, InActive, InActiveNext DEF Live
  <2> QED
    BY <2>2, <2>3, SameCount
<1>2. ASSUME NEW t \in DOMAIN trans, EditOf(t)
      PROVE  RecordCount'
  BY <1>2, EditCounts
<1>3. ASSUME NEW t \in DOMAIN trans, NEW off \in Offsets,
             WriteConflict(t, off)
      PROVE  RecordCount'
  <2>1. trans' = Conflicted(t) /\ UNCHANGED <<nrecords, born, died>>
    BY <1>3, FinalizeDrops DEF WriteConflict, Conflicted
  <2>2. /\ DOMAIN trans' = DOMAIN trans
        /\ \A u \in DOMAIN trans : /\ trans'[u].creates = trans[u].creates
                                   /\ trans'[u].deletes = trans[u].deletes
    BY <2>1 DEF Conflicted
  <2>3. /\ CreatesOf(Active)' = CreatesOf(Active)
        /\ DeletesOf(Active)' = DeletesOf(Active)
        /\ Live(FUTURE)' = Live(FUTURE)
    BY <2>1, <2>2, InActive, InActiveNext DEF Live
  <2> QED
    BY <2>1, <2>3, SameCount
<1>4. ASSUME NEW t \in DOMAIN trans, CommitUnchanged(t)
      PROVE  RecordCount'
  <2>1. trans[t].creates = {} /\ trans[t].deletes = {}
    BY <1>4 DEF CommitUnchanged, HasActs, MapsMatchActs, TimesOrdered
  <2>2. trans' = Without(trans, {t}) /\ UNCHANGED <<nrecords, born, died>>
    BY <1>4, FinalizeDrops DEF CommitUnchanged
  <2>3. /\ CreatesOf(Active)' = CreatesOf(Active)
        /\ DeletesOf(Active)' = DeletesOf(Active)
    BY <2>1, <2>2, EndedActs
  <2>4. Live(FUTURE)' = Live(FUTURE)
    BY <2>2 DEF Live
  <2> QED
    BY <2>2, <2>3, <2>4, SameCount
<1>5. ASSUME NEW t \in DOMAIN trans, CommitUpdate(t)
      PROVE  RecordCount'
  <2> DEFINE live == Live(FUTURE)
             cr == trans[t].creates
             de == trans[t].deletes
  <2>1. trans' = Without(trans, {t}) /\ nrecords' = nrecords
    BY <1>5, FinalizeDrops DEF CommitUpdate
  <2>2. IsFiniteSet(live) /\ IsFiniteSet(cr) /\ IsFiniteSet(de)
    BY ActsAreFinite, ActTypes
  <2>3. /\ Cardinality(live) \in Nat /\ Cardinality(cr) \in Nat
        /\ Cardinality(de) \in Nat
        /\ Cardinality(CreatesOf(Active)) \in Nat
        /\ Cardinality(DeletesOf(Active)) \in Nat
    BY ActsAreFinite, ActTypes
  <2>4. Cardinality(live \cup cr) = Cardinality(live) + Cardinality(cr)
    BY <1>5, <2>2, CommittedRecords, GrownSize
  <2>5. Cardinality((live \cup cr) \ de) = Cardinality(live \cup cr) - Cardinality(de)
    BY <1>5, <2>2, CommittedRecords, ShrunkSize, FS_Union
  <2>6. Live(FUTURE)' = (live \cup cr) \ de
    BY <1>5, CommittedRecords
  <2>7. /\ Cardinality(CreatesOf(Active)')
             = Cardinality(CreatesOf(Active)) - Cardinality(cr)
        /\ Cardinality(DeletesOf(Active)')
             = Cardinality(DeletesOf(Active)) - Cardinality(de)
    BY <2>1, EndedActs
  <2>8. nrecords \in Int
    BY DEF TypeOK
  <2> HIDE DEF live, cr, de
  <2>9. nrecords + Cardinality(DeletesOf(Active))
          = Cardinality(live) + Cardinality(CreatesOf(Active))
    BY DEF RecordCount, live
  <2> QED
    BY <2>1, <2>3, <2>4, <2>5, <2>6, <2>7, <2>8, <2>9 DEF RecordCount
<1>6. ASSUME NEW t \in DOMAIN trans, Abort(t)
      PROVE  RecordCount'
  <2>1. /\ trans' = Without(trans, {t})
        /\ nrecords' = nrecords - Cardinality(trans[t].creates)
                         + Cardinality(trans[t].deletes)
        /\ UNCHANGED <<born, died>>
    BY <1>6, FinalizeDrops DEF Abort, CountWithout
  <2>2. /\ Cardinality(trans[t].creates) \in Nat
        /\ Cardinality(trans[t].deletes) \in Nat
        /\ Cardinality(CreatesOf(Active)) \in Nat
        /\ Cardinality(DeletesOf(Active)) \in Nat
        /\ Cardinality(Live(FUTURE)) \in Nat
        /\ nrecords \in Int
    BY ActsAreFinite, ActTypes DEF TypeOK
  <2>3. /\ Cardinality(CreatesOf(Active)')
             = Cardinality(CreatesOf(Active)) - Cardinality(trans[t].creates)
        /\ Cardinality(DeletesOf(Active)')
             = Cardinality(DeletesOf(Active)) - Cardinality(trans[t].deletes)
    BY <2>1, EndedActs
  <2>4. Live(FUTURE)' = Live(FUTURE)
    BY <2>1 DEF Live
  <2> QED
    BY <2>1, <2>2, <2>3, <2>4 DEF RecordCount
<1>7. CASE Restart
  <2>1. UNCHANGED <<trans, nrecords>>
    BY <1>7 DEF Restart
  <2>2. DOMAIN born' = Live(FUTURE) /\ DOMAIN died' = {}
        /\ \A off \in DOMAIN born' : born'[off] = 0
    BY <1>7 DEF Restart, EmptyMap
  <2>3. Live(FUTURE)' = Live(FUTURE)
    BY <2>2, ConstantFacts DEF Live, FUTURE
  <2>4. /\ CreatesOf(Active)' = CreatesOf(Active)
        /\ DeletesOf(Active)' = DeletesOf(Active)
    BY <2>1 DEF Active
  <2> QED
    BY <2>1, <2>3, <2>4, SameCount
<1>8. CASE UNCHANGED vars
  <2>1. /\ CreatesOf(Active)' = CreatesOf(Active)
        /\ DeletesOf(Active)' = DeletesOf(Active)
        /\ Live(FUTURE)' = Live(FUTURE)
        /\ nrecords' = nrecords
    BY <1>8 DEF vars, Active, Live
  <2> QED
    BY <2>1, SameCount
<1> QED
  BY <1>1, <1>2, <1>3, <1>4, <1>5, <1>6, <1>7, <1>8, StepKinds

LEMMA CountInit == Init => RecordCount
<1> SUFFICES ASSUME Init PROVE RecordCount
  OBVIOUS
<1>1. TypeOK
  BY InitType
<1>2. /\ DOMAIN trans = {} /\ DOMAIN died = {} /\ DOMAIN born = Offsets
      /\ \A off \in DOMAIN born : born[off] = 0
      /\ nrecords = Cardinality(Offsets)
  BY DEF Init, EmptyMap
<1>3. CreatesOf(Active) = {} /\ DeletesOf(Active) = {}
  BY <1>2, InActive
<1>4. Live(FUTURE) = Offsets
  BY <1>2, ConstantFacts DEF Live
<1>5. Cardinality({}) = 0 /\ Cardinality(Offsets) \in Nat
  BY <1>1, FS_EmptySet, ActsAreFinite
<1> QED
  BY <1>2, <1>3, <1>4, <1>5 DEF RecordCount

\* The index and the record count always are what the acts of the active and
\* finalizing transactions and the committed history imply: no entry is lost
\* or left over, and no record is counted twice or not at all.
THEOREM IndexAndCountAreRight == Spec => []IndexAndCount
<1>1. TypeOK /\ MapsMatchActs /\ History => IndexEntries
  BY IndexIsEntries
<1>2. /\ TypeOK /\ TypeOK' /\ MapsMatchActs /\ MapsMatchActs' /\ History
      /\ RecordCount /\ [Next]_vars
      => RecordCount'
  BY CountNext
<1>3. IndexEntries /\ RecordCount => IndexAndCount
  BY DEF IndexAndCount
<1> QED
  BY <1>1, <1>2, <1>3, CountInit, HistoryInvariant, PTL DEF Spec

-----------------------------------------------------------------------------
(* Serializability and unique keys *)

\* validate_reads() at a commit: every committed record of a key that t read
\* was there when t started and is there now, or neither.
LEMMA ReadsAreCurrent ==
  ASSUME TypeOK, MapsMatchActs, History, NEW t \in DOMAIN trans,
         ValidateReads(t), NEW off, file[off] \in trans[t].reads
  PROVE  off \in Live(trans[t].asof) <=> off \in Live(FUTURE)
<1>1. ASSUME off \in DOMAIN born, ~ born[off] <= trans[t].asof
      PROVE  FALSE
  <2>1. PICK f \in final : off \in f.creates
    BY <1>1, TimeFacts DEF History, HistoryTies, Settled
  <2>2. born[off] = f.asof
    BY <2>1 DEF History, HistoryTies, Recorded
  <2>3. f.asof >= trans[t].asof
    BY <1>1, <2>2, TimeFacts
  <2> QED
    BY <2>1, <2>3 DEF ValidateReads
<1>2. ASSUME off \in DOMAIN died, died[off] >= trans[t].asof
      PROVE  FALSE
  <2>1. PICK f \in final : off \in f.deletes
    BY <1>2, TimeFacts DEF History, HistoryTies, Settled
  <2>2. died[off] = f.asof
    BY <2>1 DEF History, HistoryTies, Recorded
  <2>3. f.asof >= trans[t].asof
    BY <1>2, <2>2
  <2> QED
    BY <2>1, <2>3 DEF ValidateReads
<1> QED
  BY <1>1, <1>2, LiveNow DEF Live

\* Only a commit ends a transaction and changes the history.
LEMMA ChangesAreCommitted ==
  ASSUME TypeOK, [Next]_vars, NEW t \in DOMAIN trans, CommitsChanges(t)
  PROVE  CommitUpdate(t)
<1>1. t \notin DOMAIN trans' /\ <<born, died>>' # <<born, died>>
  BY DEF CommitsChanges
<1>2. ASSUME NEW type \in {READONLY, READWRITE}, Begin(type)
      PROVE  FALSE
  BY <1>1, <1>2 DEF Begin
<1>3. ASSUME NEW u \in DOMAIN trans, EditOf(u)
      PROVE  FALSE
  BY <1>1, <1>3 DEF EditOf, Edit
<1>4. ASSUME NEW u \in DOMAIN trans, NEW off \in Offsets,
             WriteConflict(u, off)
      PROVE  FALSE
  BY <1>1, <1>4 DEF WriteConflict
<1>5. ASSUME NEW u \in DOMAIN trans, CommitUnchanged(u) \/ Abort(u)
      PROVE  FALSE
  BY <1>1, <1>5 DEF CommitUnchanged, Abort
<1>6. ASSUME NEW u \in DOMAIN trans, CommitUpdate(u)
      PROVE  t = u
  <2>1. trans' = Without(trans, {u})
    BY <1>6, FinalizeDrops DEF CommitUpdate
  <2> QED
    BY <1>1, <2>1, WithoutOne
<1>7. CASE Restart
  BY <1>7 DEF Restart, EmptyMap
<1>8. CASE UNCHANGED vars
  BY <1>1, <1>8 DEF vars
<1> QED
  BY <1>2, <1>3, <1>4, <1>5, <1>6, <1>7, <1>8, StepKinds

LEMMA SerializableStep ==
  ASSUME TypeOK, TypeOK', MapsMatchActs, MapsMatchActs', History, [Next]_vars
  PROVE  CommitIsSerializable
<1> SUFFICES ASSUME NEW t \in DOMAIN trans, CommitsChanges(t)
             PROVE  /\ LiveOf(trans[t].asof, trans[t].reads)
                         = LiveOf(FUTURE, trans[t].reads)
                    /\ trans[t].deletes \subseteq Live(FUTURE) \cup trans[t].creates
  BY DEF CommitIsSerializable
<1>1. CommitUpdate(t)
  BY ChangesAreCommitted
<1>2. ValidateReads(t)
  BY <1>1 DEF CommitUpdate
<1>3. LiveOf(trans[t].asof, trans[t].reads) = LiveOf(FUTURE, trans[t].reads)
  BY <1>2, ReadsAreCurrent DEF LiveOf
<1> QED
  BY <1>1, <1>3, CommittedRecords

\* Every commit of changes could have run alone at that moment.
THEOREM CommitsAreSerializable == Spec => Serializable
<1>1. /\ TypeOK /\ TypeOK' /\ MapsMatchActs /\ MapsMatchActs' /\ History
      /\ [Next]_vars
      => [CommitIsSerializable]_vars
  BY SerializableStep
<1> QED
  BY <1>1, HistoryInvariant, PTL DEF Spec, Serializable

LEMMA ActsReadNext ==
  ASSUME TypeOK, ActsWereRead, [Next]_vars
  PROVE  ActsWereRead'
<1>1. ASSUME NEW type \in {READONLY, READWRITE}, Begin(type)
      PROVE  ActsWereRead'
  BY <1>1 DEF ActsWereRead, Begin, Put
<1>2. ASSUME NEW t \in DOMAIN trans, EditOf(t)
      PROVE  ActsWereRead'
  <2>1. PICK C \in SUBSET Offsets', D \in SUBSET Offsets' : Edit(t, C, D)
    BY <1>2 DEF EditOf
  <2>2. \A u \in DOMAIN trans :
          \A off \in trans[u].creates \cup trans[u].deletes :
            file'[off] = file[off]
    BY <2>1, ActTypes DEF Edit
  <2>3. ~ trans'[t].conflict =>
          \A off \in trans'[t].creates \cup trans'[t].deletes :
            file'[off] \in trans'[t].reads
    BY <2>1, <2>2 DEF Edit, ActsWereRead, Holds
  <2> QED
    BY <2>1, <2>2, <2>3 DEF Edit, ActsWereRead
<1>3. ASSUME NEW t \in DOMAIN trans, NEW off \in Offsets,
             WriteConflict(t, off)
      PROVE  ActsWereRead'
  <2>1. trans' = Conflicted(t) /\ file' = file
    BY <1>3, FinalizeDrops DEF WriteConflict, Conflicted
  <2>2. /\ DOMAIN trans' = DOMAIN trans /\ trans'[t].conflict = TRUE
        /\ \A u \in DOMAIN trans \ {t} : trans'[u] = trans[u]
    BY <2>1, TransIsRecord DEF Conflicted, TransactionType
  <2> QED
    BY <2>1, <2>2 DEF ActsWereRead
<1>4. ASSUME NEW t \in DOMAIN trans,
             CommitUnchanged(t) \/ CommitUpdate(t) \/ Abort(t)
      PROVE  ActsWereRead'
  <2>1. trans' = Without(trans, {t}) /\ file' = file
    BY <1>4, FinalizeDrops DEF CommitUnchanged, CommitUpdate, Abort
  <2> QED
    BY <2>1, WithoutOne DEF ActsWereRead
<1>5. CASE Restart
  BY <1>5 DEF Restart, ActsWereRead
<1>6. CASE UNCHANGED vars
  BY <1>6 DEF vars, ActsWereRead
<1> QED
  BY <1>1, <1>2, <1>3, <1>4, <1>5, <1>6, StepKinds


-----------------------------------------------------------------------------
(* What a step changes in the views of the transactions *)

\* the history as of a time, when the history does not change
LEMMA SameLive ==
  ASSUME UNCHANGED <<born, died>>
  PROVE  /\ \A u \in DOMAIN trans : trans'[u].asof = trans[u].asof =>
              Live(trans[u].asof)' = Live(trans[u].asof)
         /\ Live(FUTURE)' = Live(FUTURE)
BY DEF Live, FUTURE

LEMMA SameView ==
  ASSUME SnapshotRead, SnapshotRead', NEW u \in DOMAIN trans,
         u \in DOMAIN trans', trans'[u].creates = trans[u].creates,
         trans'[u].deletes = trans[u].deletes,
         Live(trans[u].asof)' = Live(trans[u].asof)
  PROVE  Sees(u)' = Sees(u)
BY DEF SnapshotRead

\* A new transaction sees the newest committed records.
LEMMA BeginView ==
  ASSUME TypeOK, MapsMatchActs, History, SnapshotRead, SnapshotRead',
         NEW type \in {READONLY, READWRITE}, Begin(type),
         NEW t, t = StartTime(type)
  PROVE  /\ Sees(t)' = Live(FUTURE)
         /\ Live(trans[t].asof)' = Live(FUTURE)
         /\ Live(FUTURE)' = Live(FUTURE)
         /\ \A u \in DOMAIN trans :
              Sees(u)' = Sees(u) /\ Live(trans[u].asof)' = Live(trans[u].asof)
<1>1. t \notin DOMAIN trans /\ t \in Nat /\ clock <= t
  BY TimeFacts DEF StartTime
<1>2. /\ DOMAIN trans' = DOMAIN trans \cup {t}
      /\ trans'[t].asof = t
      /\ trans'[t].creates = {} /\ trans'[t].deletes = {}
      /\ \A u \in DOMAIN trans : trans'[u] = trans[u]
      /\ UNCHANGED <<born, died>>
  BY <1>1 DEF Begin, Put
<1>3. /\ \A off \in DOMAIN born : born[off] <= t
      /\ \A off \in DOMAIN died : ~ died[off] >= t
  BY <1>1, TimeFacts DEF History, HistoryOrdered
<1>4. Live(trans[t].asof)' = DOMAIN born \ DOMAIN died
  BY <1>2, <1>3 DEF Live
<1>5. Sees(t)' = Live(trans[t].asof)'
  BY <1>2 DEF SnapshotRead
<1>6. \A u \in DOMAIN trans : Sees(u)' = Sees(u)
  BY <1>2, SameLive, SameView
<1> QED
  BY <1>2, <1>4, <1>5, <1>6, LiveNow, SameLive

\* A request changes the view of its own transaction only.
LEMMA EditView ==
  ASSUME TypeOK, MapsMatchActs, SnapshotRead, SnapshotRead',
         NEW t \in DOMAIN trans, NEW C, NEW D, Edit(t, C, D)
  PROVE  /\ Sees(t)' = (Sees(t) \ D) \cup C
         /\ Live(trans[t].asof)' = Live(trans[t].asof)
         /\ Live(FUTURE)' = Live(FUTURE)
         /\ \A u \in DOMAIN trans \ {t} :
              Sees(u)' = Sees(u) /\ Live(trans[u].asof)' = Live(trans[u].asof)
<1>1. /\ DOMAIN trans' = DOMAIN trans
      /\ trans'[t].creates = trans[t].creates \cup C
      /\ trans'[t].deletes = trans[t].deletes \cup D
      /\ trans'[t].asof = trans[t].asof
      /\ \A u \in DOMAIN trans \ {t} : trans'[u] = trans[u]
      /\ UNCHANGED <<born, died>>
      /\ C \cap Offsets = {} /\ D \subseteq Offsets
  BY DEF Edit
<1>2. /\ Live(trans[t].asof)' = Live(trans[t].asof)
      /\ Live(FUTURE)' = Live(FUTURE)
      /\ \A u \in DOMAIN trans \ {t} :
           Live(trans[u].asof)' = Live(trans[u].asof)
  BY <1>1, SameLive
<1>3. trans[t].deletes \subseteq Offsets
  BY ActTypes
<1>4. Sees(t)' = (Sees(t) \ D) \cup C
  <2>1. Sees(t) = (Live(trans[t].asof) \cup trans[t].creates)
                    \ trans[t].deletes
    BY DEF SnapshotRead
  <2>2. Sees(t)' = (Live(trans[t].asof)' \cup trans'[t].creates)
                     \ trans'[t].deletes
    BY <1>1 DEF SnapshotRead
  <2> QED
    BY <1>1, <1>2, <1>3, <2>1, <2>2
<1>5. \A u \in DOMAIN trans \ {t} : Sees(u)' = Sees(u)
  BY <1>1, <1>2, SameView
<1> QED
  BY <1>2, <1>4, <1>5

\* A conflict, and an end without commit, change no other view.
LEMMA OtherView ==
  ASSUME SnapshotRead, SnapshotRead', NEW t \in DOMAIN trans,
         trans' = Conflicted(t) \/ trans' = Without(trans, {t}),
         UNCHANGED <<born, died>>
  PROVE  /\ Live(FUTURE)' = Live(FUTURE)
         /\ \A u \in DOMAIN trans \ {t} :
              /\ u \in DOMAIN trans' /\ trans'[u] = trans[u]
              /\ Sees(u)' = Sees(u)
              /\ Live(trans[u].asof)' = Live(trans[u].asof)
<1>1. \A u \in DOMAIN trans \ {t} : u \in DOMAIN trans' /\ trans'[u] = trans[u]
  BY WithoutOne DEF Conflicted
<1> QED
  BY <1>1, SameLive, SameView

\* A commit changes no other view either, of those that can still commit.
LEMMA CommitView ==
  ASSUME TypeOK, MapsMatchActs, History, SnapshotRead, SnapshotRead',
         NEW t \in DOMAIN trans, CommitUpdate(t),
         NEW u \in DOMAIN trans \ {t}, ~ trans[u].conflict
  PROVE  /\ u \in DOMAIN trans' /\ trans'[u] = trans[u]
         /\ Sees(u)' = Sees(u)
         /\ Live(trans[u].asof)' = Live(trans[u].asof)
<1>1. u \in DOMAIN trans' /\ trans'[u] = trans[u]
  <2>1. trans' = Without(trans, {t})
    BY FinalizeDrops DEF CommitUpdate
  <2> QED
    BY <2>1, WithoutOne
<1>2. /\ DOMAIN born' = DOMAIN born \cup trans[t].creates
      /\ \A off \in trans[t].creates : born'[off] = clock
      /\ \A off \in DOMAIN born \ trans[t].creates : born'[off] = born[off]
      /\ DOMAIN died' = DOMAIN died \cup trans[t].deletes
      /\ \A off \in trans[t].deletes : died'[off] = clock
      /\ \A off \in DOMAIN died \ trans[t].deletes : died'[off] = died[off]
  BY DEF CommitUpdate, Put
<1>3. /\ trans[t].creates \cap DOMAIN born = {}
      /\ trans[t].deletes \cap DOMAIN died = {}
  BY DEF History, HistoryTies, Pending, CommitUpdate
<1>4. trans[u].asof = u /\ u < clock /\ u \in Nat /\ clock \in Nat
  BY TimeFacts DEF MapsMatchActs, TimesOrdered
<1>5. Live(trans[u].asof)' = Live(trans[u].asof)
  <2>1. Live(trans[u].asof)' = {off \in DOMAIN born' :
          /\ born'[off] <= u
          /\ off \in DOMAIN died' => died'[off] >= u}
    BY <1>1, <1>4 DEF Live
  <2>2. Live(trans[u].asof) = {off \in DOMAIN born :
          /\ born[off] <= u
          /\ off \in DOMAIN died => died[off] >= u}
    BY <1>4 DEF Live
  <2>3. clock >= u /\ ~ clock <= u
    BY <1>4
  <2> QED
    BY <1>2, <1>3, <2>1, <2>2, <2>3
<1> QED
  BY <1>1, <1>5, SameView

\* At a restart there is no transaction.
LEMMA RestartView ==
  ASSUME Restart
  PROVE  DOMAIN trans = {} /\ trans' = trans /\ Live(FUTURE)' = Live(FUTURE)
<1>1. /\ DOMAIN born' = Live(FUTURE) /\ DOMAIN died' = {}
      /\ \A off \in DOMAIN born' : born'[off] = 0
  BY DEF Restart, EmptyMap
<1>2. Live(FUTURE)' = Live(FUTURE)
  BY <1>1, ConstantFacts DEF Live, FUTURE
<1> QED
  BY <1>2 DEF Restart, EmptyMap

-----------------------------------------------------------------------------
(* Unique keys *)

LEMMA UniqueCommit ==
  ASSUME TypeOK, TypeOK', MapsMatchActs, MapsMatchActs', History, SnapshotRead,
         ActsWereRead, UniqueKeys, NEW t \in DOMAIN trans, CommitUpdate(t)
  PROVE  UniqueIn(Live(FUTURE))'
<1> DEFINE cr == trans[t].creates
           de == trans[t].deletes
<1>1. Live(FUTURE)' = (Live(FUTURE) \cup cr) \ de
  BY CommittedRecords
<1>2. Sees(t) = (Live(trans[t].asof) \cup cr) \ de
  BY DEF SnapshotRead
<1>3. ~ trans[t].conflict /\ ValidateReads(t) /\ file' = file
  BY DEF CommitUpdate
<1>4. UniqueIn(Sees(t)) /\ UniqueIn(Live(FUTURE))
  BY <1>3 DEF UniqueKeys
<1>5. \A o1 \in cr \ de, o2 \in Live(FUTURE) \ de :
        file[o1] = file[o2] => o1 = o2
  <2> SUFFICES ASSUME NEW o1 \in cr \ de, NEW o2 \in Live(FUTURE) \ de,
                      file[o1] = file[o2]
               PROVE  o1 = o2
    OBVIOUS
  <2>1. file[o2] \in trans[t].reads
    BY <1>3 DEF ActsWereRead
  <2>2. o2 \in Live(trans[t].asof)
    BY <1>3, <2>1, ReadsAreCurrent
  <2> QED
    BY <1>2, <1>4, <2>2 DEF UniqueIn
<1>6. \A o1, o2 \in cr \ de : file[o1] = file[o2] => o1 = o2
  BY <1>2, <1>4 DEF UniqueIn
<1> HIDE DEF cr, de
<1>7. \A o1, o2 \in (Live(FUTURE) \cup cr) \ de : file[o1] = file[o2] => o1 = o2
  BY <1>4, <1>5, <1>6 DEF UniqueIn
<1> QED
  BY <1>1, <1>3, <1>7 DEF UniqueIn

LEMMA UniqueEdit ==
  ASSUME TypeOK, MapsMatchActs, SnapshotRead, SnapshotRead', UniqueKeys,
         NEW t \in DOMAIN trans, EditOf(t)
  PROVE  UniqueKeys'
<1>1. PICK C \in SUBSET Offsets', D \in SUBSET Offsets' :
        Edit(t, C, D) /\ Sizes(C, D)
  BY DEF EditOf
<1>2. /\ DOMAIN trans' = DOMAIN trans
      /\ trans'[t].conflict = trans[t].conflict
      /\ \A u \in DOMAIN trans \ {t} : trans'[u] = trans[u]
      /\ \A off \in Offsets : file'[off] = file[off]
  BY <1>1 DEF Edit
<1>3. /\ Live(FUTURE) \subseteq Offsets
      /\ \A u \in DOMAIN trans : Sees(u) \subseteq Offsets
  BY ActsAreFinite DEF Sees, TypeOK
<1>4. UniqueIn(Live(FUTURE))'
  BY <1>1, <1>2, <1>3, EditView DEF UniqueKeys, UniqueIn
<1>5. \A u \in DOMAIN trans \ {t} : ~ trans[u].conflict => UniqueIn(Sees(u))'
  BY <1>1, <1>2, <1>3, EditView DEF UniqueKeys, UniqueIn
<1>6. ASSUME ~ trans[t].conflict
      PROVE  UniqueIn(Sees(t))'
  <2>1. Sees(t)' = (Sees(t) \ D) \cup C
    BY <1>1, EditView
  <2>2. \A o1, o2 \in Sees(t) : file'[o1] = file'[o2] => o1 = o2
    BY <1>2, <1>3, <1>6 DEF UniqueKeys, UniqueIn
  <2>3. \A o1 \in C, o2 \in Sees(t) \ D : file'[o1] # file'[o2]
    BY <1>1, <1>2, <1>3 DEF Edit, Duplicate
  <2>4. \A o1, o2 \in C : o1 = o2
    BY <1>1 DEF Sizes
  <2>5. \A o1, o2 \in (Sees(t) \ D) \cup C : file'[o1] = file'[o2] => o1 = o2
    BY <2>2, <2>3, <2>4
  <2> QED
    BY <2>1, <2>5 DEF UniqueIn
<1> QED
  BY <1>2, <1>4, <1>5, <1>6 DEF UniqueKeys

LEMMA UniqueNext ==
  ASSUME TypeOK, TypeOK', MapsMatchActs, MapsMatchActs', History,
         SnapshotRead, SnapshotRead', ActsWereRead, UniqueKeys, [Next]_vars
  PROVE  UniqueKeys'
<1>1. ASSUME NEW type \in {READONLY, READWRITE}, Begin(type)
      PROVE  UniqueKeys'
  <2>0. PICK t : t = StartTime(type)
    OBVIOUS
  <2>1. t \notin DOMAIN trans
    BY <2>0, TimeFacts DEF StartTime
  <2>2. /\ DOMAIN trans' = DOMAIN trans \cup {t} /\ file' = file
        /\ \A u \in DOMAIN trans : trans'[u] = trans[u]
    BY <1>1, <2>0, <2>1 DEF Begin, Put
  <2>3. /\ Sees(t)' = Live(FUTURE) /\ Live(FUTURE)' = Live(FUTURE)
        /\ \A u \in DOMAIN trans : Sees(u)' = Sees(u)
    BY <1>1, <2>0, BeginView
  <2> QED
    BY <2>2, <2>3 DEF UniqueKeys, UniqueIn
<1>2. ASSUME NEW t \in DOMAIN trans, EditOf(t)
      PROVE  UniqueKeys'
  BY <1>2, UniqueEdit
<1>3. ASSUME NEW t \in DOMAIN trans, NEW off \in Offsets,
             WriteConflict(t, off)
      PROVE  UniqueKeys'
  <2>1. /\ trans' = Conflicted(t)
        /\ UNCHANGED <<file, born, died>>
    BY <1>3, FinalizeDrops DEF WriteConflict, Conflicted
  <2>2. DOMAIN trans' = DOMAIN trans /\ trans'[t].conflict = TRUE
    BY <2>1, TransIsRecord DEF Conflicted, TransactionType
  <2>3. /\ Live(FUTURE)' = Live(FUTURE)
        /\ \A u \in DOMAIN trans \ {t} :
             trans'[u] = trans[u] /\ Sees(u)' = Sees(u)
    BY <2>1, OtherView
  <2> QED
    BY <2>1, <2>2, <2>3 DEF UniqueKeys, UniqueIn
<1>4. ASSUME NEW t \in DOMAIN trans, CommitUnchanged(t) \/ Abort(t)
      PROVE  UniqueKeys'
  <2>1. trans' = Without(trans, {t}) /\ UNCHANGED <<file, born, died>>
    BY <1>4, FinalizeDrops DEF CommitUnchanged, Abort
  <2>2. DOMAIN trans' = DOMAIN trans \ {t}
    BY <2>1, WithoutOne
  <2>3. /\ Live(FUTURE)' = Live(FUTURE)
        /\ \A u \in DOMAIN trans \ {t} :
             trans'[u] = trans[u] /\ Sees(u)' = Sees(u)
    BY <2>1, OtherView
  <2>4. UniqueIn(Live(FUTURE))'
    BY <2>1, <2>3 DEF UniqueKeys, UniqueIn
  <2>5. ASSUME NEW u \in DOMAIN trans', ~ trans'[u].conflict
        PROVE  UniqueIn(Sees(u))'
    <3>1. u \in DOMAIN trans \ {t}
      BY <2>2, <2>5
    <3>2. ~ trans[u].conflict /\ Sees(u)' = Sees(u) /\ file' = file
      BY <2>1, <2>3, <2>5, <3>1
    <3> QED
      BY <3>1, <3>2 DEF UniqueKeys, UniqueIn
  <2> QED
    BY <2>4, <2>5 DEF UniqueKeys
<1>5. ASSUME NEW t \in DOMAIN trans, CommitUpdate(t)
      PROVE  UniqueKeys'
  <2>1. trans' = Without(trans, {t}) /\ file' = file
    BY <1>5, FinalizeDrops DEF CommitUpdate
  <2>2. /\ DOMAIN trans' = DOMAIN trans \ {t}
        /\ \A u \in DOMAIN trans \ {t} : trans'[u] = trans[u]
    BY <2>1, WithoutOne
  <2>3. \A u \in DOMAIN trans \ {t} : ~ trans[u].conflict => Sees(u)' = Sees(u)
    BY <1>5, CommitView
  <2> QED
    BY <1>5, <2>1, <2>2, <2>3, UniqueCommit DEF UniqueKeys, UniqueIn
<1>6. CASE Restart
  <2>1. file' = file
    BY <1>6 DEF Restart
  <2> QED
    BY <1>6, <2>1, RestartView DEF UniqueKeys, UniqueIn
<1>7. CASE UNCHANGED vars
  BY <1>7 DEF vars, UniqueKeys, UniqueIn, Live, Sees, Visible, CreateVisible,
              DeleteVisible, CreateTime, DeleteTime
<1> QED
  BY <1>1, <1>2, <1>3, <1>4, <1>5, <1>6, <1>7, StepKinds

LEMMA UniqueInit == Init => ActsWereRead /\ UniqueKeys
<1> SUFFICES ASSUME Init PROVE ActsWereRead /\ UniqueKeys
  OBVIOUS
<1>1. DOMAIN trans = {} /\ Live(FUTURE) \subseteq DOMAIN file
  BY DEF Init, EmptyMap, Live, Offsets
<1>2. \A o1, o2 \in DOMAIN file : file[o1] = file[o2] => o1 = o2
  BY DEF Init, IsInjective
<1> QED
  BY <1>1, <1>2 DEF ActsWereRead, UniqueKeys, UniqueIn

\* Two transactions that cannot see each other never both commit the same key,
\* and none that can still commit ever sees a key twice.
THEOREM KeysStayUnique == Spec => []UniqueKeys
<1>1. /\ TypeOK /\ TypeOK' /\ MapsMatchActs /\ MapsMatchActs' /\ History
      /\ SnapshotRead /\ SnapshotRead' /\ ActsWereRead /\ UniqueKeys
      /\ [Next]_vars
      => ActsWereRead' /\ UniqueKeys'
  BY ActsReadNext, UniqueNext
<1> QED
  BY <1>1, UniqueInit, HistoryInvariant, ReadsAreSnapshots, PTL DEF Spec

-----------------------------------------------------------------------------
(* Tran implements SnapshotDb: each request maps to one step of SnapshotDb  *)
(* or to none.                                                              *)

\* What the proofs in TranProofs have shown of every state.
Proved ==
  /\ TypeOK
  /\ MapsMatchActs
  /\ History
  /\ SnapshotRead
  /\ ActsWereRead

\* The offsets are identities of SnapshotDb.
FileFits == Offsets \subseteq 1 .. MaxOff

LEMMA FileFitsNext ==
  ASSUME TypeOK, FileFits, [Next]_vars
  PROVE  FileFits'
<1>1. \A k \in Keys : Output(k) => FileFits'
  <2> SUFFICES ASSUME NEW k \in Keys, Output(k) PROVE FileFits'
    OBVIOUS
  <2>1. Offsets' = Offsets \cup {NewOff}
    BY OutputGrows DEF TypeOK
  <2>2. NewOff \in 1 .. MaxOff
    BY MaxOffAssumption DEF Output, NewOff, TypeOK
  <2> QED
    BY <2>1, <2>2 DEF FileFits
<1>2. file' = file => FileFits'
  BY DEF FileFits, Offsets
<1>3. ASSUME NEW t \in DOMAIN trans, RequestOf(t)
      PROVE  (file' = file) \/ (\E k \in Keys : Output(k))
  <2>1. ASSUME NEW k \in Keys, Add(t, k) \/ AddDuplicate(t, k)
        PROVE  Output(k)
    BY <2>1 DEF Add, AddDuplicate
  <2>2. ASSUME NEW off \in Offsets, NEW k \in Keys,
               Update(t, off, k) \/ UpdateDuplicate(t, off, k)
        PROVE  Output(k)
    BY <2>2 DEF Update, UpdateDuplicate
  <2>3. ASSUME NEW org \in Keys, NEW end \in Keys, Read(t, org, end)
        PROVE  file' = file
    BY <2>3 DEF Read
  <2>4. ASSUME NEW off \in Offsets, Remove(t, off) \/ WriteConflict(t, off)
        PROVE  file' = file
    BY <2>4 DEF Remove, WriteConflict
  <2>5. ASSUME CommitUnchanged(t) \/ CommitUpdate(t) \/ CommitFails(t) \/ Abort(t)
        PROVE  file' = file
    BY <2>5 DEF CommitUnchanged, CommitUpdate, CommitFails, Abort
  <2> QED
    BY <1>3, <2>1, <2>2, <2>3, <2>4, <2>5 DEF RequestOf
<1>4. ASSUME Restart \/ (\E type \in {READONLY, READWRITE} : Begin(type))
             \/ UNCHANGED vars
      PROVE  file' = file
  BY <1>4 DEF Restart, Begin, vars
<1> QED
  BY <1>1, <1>2, <1>3, <1>4 DEF Next

-----------------------------------------------------------------------------
(* The refinement mapping, term by term *)

LEMMA RecordsAtFacts ==
  ASSUME NEW offs
  PROVE  /\ DOMAIN RecordsAt(offs) = offs
         /\ \A off \in offs : RecordsAt(offs)[off] = file[off]
BY DEF RecordsAt

LEMMA CopiesFacts ==
  /\ DOMAIN Copies = Committable
  /\ \A t \in Committable :
       /\ Copies[t] = CopyOf(t)
       /\ Copies[t].start = RecordsAt(Live(trans[t].asof))
       /\ Copies[t].view = RecordsAt(Sees(t))
       /\ Copies[t].reads = trans[t].reads
BY DEF Copies, CopyOf

LEMMA SameTable ==
  ASSUME TypeOK, \A off \in Offsets : file'[off] = file[off],
         Live(FUTURE)' = Live(FUTURE)
  PROVE  Table' = Table
<1>1. Live(FUTURE) \subseteq Offsets
  BY ActsAreFinite
<1> QED
  BY <1>1 DEF Table, RecordsAt

LEMMA SameCopy ==
  ASSUME TypeOK, \A off \in Offsets : file'[off] = file[off],
         NEW u \in DOMAIN trans, trans'[u].reads = trans[u].reads,
         Sees(u)' = Sees(u),
         Live(trans[u].asof)' = Live(trans[u].asof)
  PROVE  CopyOf(u)' = CopyOf(u)
<1>1. Live(trans[u].asof) \subseteq Offsets /\ Sees(u) \subseteq Offsets
  BY DEF Live, Sees, TypeOK, HistoryOK
<1>2. RecordsAt(Sees(u))' = RecordsAt(Sees(u))
  BY <1>1 DEF RecordsAt
<1>3. RecordsAt(Live(trans[u].asof))' = RecordsAt(Live(trans[u].asof))
  BY <1>1 DEF RecordsAt
<1> QED
  BY <1>2, <1>3 DEF CopyOf

\* Steps that SnapshotDb does not see.
LEMMA Stutters ==
  ASSUME Committable' = Committable,
         \A u \in Committable : CopyOf(u)' = CopyOf(u),
         Table' = Table
  PROVE  UNCHANGED Abstract!vars
<1>1. Copies' = Copies
  BY DEF Copies
<1> QED
  BY <1>1 DEF Abstract!vars

\* The end of a transaction that could still commit, or its first conflict.
LEMMA Cancels ==
  ASSUME NEW t \in Committable, Committable' = Committable \ {t},
         \A u \in Committable \ {t} : CopyOf(u)' = CopyOf(u),
         Table' = Table
  PROVE  Abstract!Cancel(t)
<1>1. Copies' = Abstract!Without(Copies, {t})
  BY DEF Copies, Abstract!Without, Abstract!Restrict
<1> QED
  BY <1>1, CopiesFacts DEF Abstract!Cancel, Abstract!Active

-----------------------------------------------------------------------------
(* The requests of a transaction that goes on *)

\* One component of a copy replaced, and two, as SnapshotDb writes it.
LEMMA ChangedCopy ==
  ASSUME NEW t \in Committable, NEW view, NEW reads
  PROVE  /\ [Copies EXCEPT ![t].view = view]
              = [Copies EXCEPT ![t] = [start |-> Copies[t].start, view |-> view,
                                       reads |-> Copies[t].reads]]
         /\ [Copies EXCEPT ![t].reads = reads]
              = [Copies EXCEPT ![t] = [start |-> Copies[t].start,
                                       view |-> Copies[t].view,
                                       reads |-> reads]]
         /\ [Copies EXCEPT ![t].view = view, ![t].reads = reads]
              = [Copies EXCEPT ![t] = [start |-> Copies[t].start, view |-> view,
                                       reads |-> reads]]
<1>1. Copies[t] = [start |-> Copies[t].start, view |-> Copies[t].view,
                   reads |-> Copies[t].reads]
  BY CopiesFacts DEF CopyOf
<1>2. /\ [Copies[t] EXCEPT !.view = view]
           = [start |-> Copies[t].start, view |-> view, reads |-> Copies[t].reads]
      /\ [Copies[t] EXCEPT !.reads = reads]
           = [start |-> Copies[t].start, view |-> Copies[t].view, reads |-> reads]
  BY <1>1
<1>3. [Copies EXCEPT ![t].view = view]
        = [Copies EXCEPT ![t] = [start |-> Copies[t].start, view |-> view,
                                 reads |-> Copies[t].reads]]
  BY <1>2
<1>4. [Copies EXCEPT ![t].reads = reads]
        = [Copies EXCEPT ![t] = [start |-> Copies[t].start,
                                 view |-> Copies[t].view, reads |-> reads]]
  BY <1>2
<1>5. [[start |-> Copies[t].start, view |-> view, reads |-> Copies[t].reads]
         EXCEPT !.reads = reads]
        = [start |-> Copies[t].start, view |-> view, reads |-> reads]
  OBVIOUS
<1>6. t \in DOMAIN Copies
  BY CopiesFacts
<1>7. [Copies EXCEPT ![t].view = view, ![t].reads = reads]
        = [Copies EXCEPT ![t] = [start |-> Copies[t].start, view |-> view,
                                 reads |-> reads]]
  BY <1>3, <1>5, <1>6
<1> QED
  BY <1>3, <1>4, <1>7

\* A request of a transaction that can still commit changes its copy only.
LEMMA OneCopy ==
  ASSUME NEW t \in Committable, Committable' = Committable,
         \A u \in Committable \ {t} : CopyOf(u)' = CopyOf(u)
  PROVE  Copies' = [Copies EXCEPT ![t] = CopyOf(t)']
<1>1. Copies' = [u \in Committable |-> IF u = t THEN CopyOf(t)' ELSE CopyOf(u)]
  BY DEF Copies
<1>2. [Copies EXCEPT ![t] = CopyOf(t)']
        = [u \in Committable |-> IF u = t THEN CopyOf(t)' ELSE CopyOf(u)]
  BY DEF Copies
<1> QED
  BY <1>1, <1>2

\* What an edit does to the copies.
LEMMA EditCopies ==
  ASSUME TypeOK, MapsMatchActs, SnapshotRead, SnapshotRead',
         NEW t \in DOMAIN trans, NEW C, NEW D, Edit(t, C, D)
  PROVE  /\ Table' = Table
         /\ Committable' = Committable
         /\ \A u \in Committable \ {t} : CopyOf(u)' = CopyOf(u)
         /\ RecordsAt(Live(trans[t].asof))' = RecordsAt(Live(trans[t].asof))
         /\ CopyOf(t)' = [start |-> RecordsAt(Live(trans[t].asof)),
                          view |-> RecordsAt(Sees(t))',
                          reads |-> trans'[t].reads]
<1>1. /\ DOMAIN trans' = DOMAIN trans
      /\ trans'[t].asof = trans[t].asof
      /\ trans'[t].conflict = trans[t].conflict
      /\ \A u \in DOMAIN trans \ {t} : trans'[u] = trans[u]
      /\ \A off \in Offsets : file'[off] = file[off]
  BY DEF Edit
<1>2. /\ Live(trans[t].asof)' = Live(trans[t].asof)
      /\ Live(FUTURE)' = Live(FUTURE)
      /\ \A u \in DOMAIN trans \ {t} :
           Sees(u)' = Sees(u) /\ Live(trans[u].asof)' = Live(trans[u].asof)
  BY EditView
<1>3. Table' = Table
  BY <1>1, <1>2, SameTable
<1>4. Committable' = Committable
  BY <1>1 DEF Committable
<1>5. \A u \in Committable \ {t} : CopyOf(u)' = CopyOf(u)
  BY <1>1, <1>2, SameCopy DEF Committable
<1>6. RecordsAt(Live(trans[t].asof))' = RecordsAt(Live(trans[t].asof))
  <2>1. Live(trans[t].asof) \subseteq Offsets
    BY DEF Live, TypeOK, HistoryOK
  <2> QED
    BY <1>1, <1>2, <2>1 DEF RecordsAt
<1>7. CopyOf(t)' = [start |-> RecordsAt(Live(trans[t].asof))',
                    view |-> RecordsAt(Sees(t))', reads |-> trans'[t].reads]
  BY DEF CopyOf
<1> QED
  BY <1>3, <1>4, <1>5, <1>6, <1>7

\* The copies and the table have only records that were written.
LEMMA UsedWritten == ASSUME TypeOK PROVE Abstract!UsedIds \subseteq Offsets
<1>1. Live(FUTURE) \subseteq Offsets
  BY ActsAreFinite
<1>2. \A t \in Committable :
        Live(trans[t].asof) \subseteq Offsets /\ Sees(t) \subseteq Offsets
  BY DEF Live, Sees, TypeOK, HistoryOK
<1>3. DOMAIN Table \subseteq Offsets
  BY <1>1, RecordsAtFacts DEF Table
<1>4. \A t \in Committable : /\ DOMAIN Copies[t].start \subseteq Offsets
                             /\ DOMAIN Copies[t].view \subseteq Offsets
  BY <1>2, CopiesFacts, RecordsAtFacts
<1> QED
  BY <1>3, <1>4, CopiesFacts DEF Abstract!UsedIds

\* A delete, and the deletion that an update starts with.
LEMMA EditDrops ==
  ASSUME TypeOK, MapsMatchActs, History, NEW t \in Committable,
         NEW C, NEW D, Edit(t, C, D)
  PROVE  Abstract!Drop(t, D)
<1>1. t \in DOMAIN trans /\ ~ trans[t].conflict
  BY DEF Committable
<1>2. ASSUME NEW off \in D
      PROVE  off \in Sees(t) /\ file[off] \in trans[t].reads
  <2>1. Holds(t, off) /\ off \notin DOMAIN deleted
    BY DEF Edit
  <2>2. off \in Sees(t)
    BY <1>1, <2>1, HeldRecord
  <2> QED
    BY <1>1, <2>1, <2>2 DEF Holds
<1>3. \A off \in D : /\ off \in DOMAIN Copies[t].view
                     /\ Copies[t].view[off] \in Copies[t].reads
  BY <1>2, CopiesFacts, RecordsAtFacts
<1> QED
  BY <1>3, CopiesFacts DEF Abstract!Drop, Abstract!Active, Abstract!OfKeys

LEMMA EditMaps ==
  ASSUME TypeOK, TypeOK', MapsMatchActs, History, SnapshotRead, SnapshotRead',
         FileFits', NEW t \in Committable, EditOf(t)
  PROVE  \/ \E ks \in SUBSET Keys : Abstract!Read(t, ks)
         \/ \E id \in 1 .. MaxOff : Abstract!Delete(t, id)
         \/ \E id \in 1 .. MaxOff, k \in Keys :
              \E old \in {{}} \cup {{o} : o \in 1 .. MaxOff} :
                Abstract!Insert(t, old, id, k)
<1>0. t \in DOMAIN trans /\ ~ trans[t].conflict /\ Abstract!Active(t)
  BY CopiesFacts DEF Committable, Abstract!Active
<1>1. PICK C \in SUBSET Offsets', D \in SUBSET Offsets' :
        Edit(t, C, D) /\ Sizes(C, D)
  BY DEF EditOf
<1>2. PICK view, reads :
        /\ view = [off \in (Sees(t) \ D) \cup C |->
                     IF off \in C THEN file'[off] ELSE Copies[t].view[off]]
        /\ reads = trans'[t].reads
        /\ Copies' = [Copies EXCEPT ![t] = [start |-> Copies[t].start,
                                            view |-> view, reads |-> reads]]
  <2>1. /\ Committable' = Committable
        /\ \A u \in Committable \ {t} : CopyOf(u)' = CopyOf(u)
        /\ CopyOf(t)' = [start |-> Copies[t].start,
                         view |-> RecordsAt(Sees(t))', reads |-> trans'[t].reads]
    BY <1>0, <1>1, EditCopies, CopiesFacts
  <2>2. Copies' = [Copies EXCEPT ![t] = CopyOf(t)']
    BY <2>1, OneCopy
  <2>3. Copies' = [Copies EXCEPT ![t] = [start |-> Copies[t].start,
                          view |-> RecordsAt(Sees(t))', reads |-> trans'[t].reads]]
    BY <2>1, <2>2
  <2>4. RecordsAt(Sees(t))'
          = [off \in (Sees(t) \ D) \cup C |->
               IF off \in C THEN file'[off] ELSE Copies[t].view[off]]
    <3>1. /\ Sees(t)' = (Sees(t) \ D) \cup C
          /\ C \cap Offsets = {}
          /\ \A off \in Offsets : file'[off] = file[off]
      BY <1>0, <1>1, EditView DEF Edit
    <3>2. Sees(t) \subseteq Offsets
      BY DEF Sees, TypeOK
    <3>3. \A off \in Sees(t) : Copies[t].view[off] = file[off]
      BY CopiesFacts, RecordsAtFacts
    <3>4. RecordsAt(Sees(t))' = [off \in (Sees(t) \ D) \cup C |-> file'[off]]
      BY <3>1 DEF RecordsAt
    <3> QED
      BY <3>1, <3>2, <3>3, <3>4
  <2> QED
    BY <2>3, <2>4
<1>3. Table' = Table
  BY <1>0, <1>1, EditCopies
<1>4. /\ C \cup D # {} =>
           reads = trans[t].reads \cup {file'[off] : off \in C}
      /\ trans[t].reads \subseteq reads
      /\ reads \subseteq Keys
      /\ \A off \in C : file'[off] \in Keys
  <2>1. trans'[t] \in TransactionType'
    BY <1>0, <1>1 DEF Edit, TypeOK, TransOK
  <2> QED
    BY <1>0, <1>1, <1>2, <2>1 DEF Edit, TypeOK, TransactionType, Offsets
<1>5. /\ Copies[t].reads = trans[t].reads
      /\ Copies[t].view = [off \in Sees(t) |-> Copies[t].view[off]]
  BY CopiesFacts DEF RecordsAt
<1>6. C \subseteq 1 .. MaxOff /\ D \subseteq 1 .. MaxOff
  BY <1>1 DEF FileFits
<1>7. Abstract!Drop(t, D)
  BY <1>1, EditDrops
<1>8. CASE C = {} /\ D = {}
  <2>1. view = Copies[t].view
    BY <1>2, <1>5, <1>8
  <2>2. Copies' = [Copies EXCEPT ![t].reads = @ \cup reads]
    <3>1. [Copies EXCEPT ![t].reads = reads]
            = [Copies EXCEPT ![t] = [start |-> Copies[t].start,
                                     view |-> Copies[t].view, reads |-> reads]]
      BY ChangedCopy
    <3>2. reads = Copies[t].reads \cup reads
      BY <1>4, <1>5
    <3> QED
      BY <1>2, <2>1, <3>1, <3>2
  <2> QED
    BY <1>0, <1>3, <1>4, <2>2 DEF Abstract!Read
<1>9. ASSUME NEW off, C = {}, D = {off}
      PROVE  \E id \in 1 .. MaxOff : Abstract!Delete(t, id)
  <2>1. view = Abstract!Without(Copies[t].view, {off})
    BY <1>2, <1>5, <1>9 DEF Abstract!Without, Abstract!Restrict
  <2>2. reads = Copies[t].reads
    BY <1>4, <1>5, <1>9
  <2>3. Copies' = [Copies EXCEPT ![t].view = Abstract!Without(@, {off})]
    <3>1. [Copies EXCEPT ![t].view = view]
            = [Copies EXCEPT ![t] = [start |-> Copies[t].start, view |-> view,
                                     reads |-> Copies[t].reads]]
      BY ChangedCopy
    <3> QED
      BY <1>2, <2>1, <2>2, <3>1
  <2> QED
    BY <1>3, <1>6, <1>7, <1>9, <2>3 DEF Abstract!Delete
<1>10. ASSUME NEW id, C = {id}, D = {} \/ \E off : D = {off}
       PROVE  \E k \in Keys : Abstract!Insert(t, D, id, k)
  <2>1. PICK k \in Keys : k = file'[id]
    BY <1>4, <1>10
  <2>2. view = Abstract!Put(Abstract!Without(Copies[t].view, D), {id}, k)
    BY <1>2, <1>5, <1>10, <2>1
       DEF Abstract!Put, Abstract!Without, Abstract!Restrict
  <2>3. reads = Copies[t].reads \cup {k}
    BY <1>4, <1>5, <1>10, <2>1
  <2>4. Copies' = [Copies EXCEPT
          ![t].view = Abstract!Put(Abstract!Without(@, D), {id}, k),
          ![t].reads = @ \cup {k}]
    <3>1. [Copies EXCEPT ![t].view = view, ![t].reads = reads]
            = [Copies EXCEPT
                 ![t].view = Abstract!Put(Abstract!Without(@, D), {id}, k),
                 ![t].reads = @ \cup {k}]
      BY <2>2, <2>3
    <3>2. [Copies EXCEPT ![t].view = view, ![t].reads = reads]
            = [Copies EXCEPT ![t] = [start |-> Copies[t].start, view |-> view,
                                     reads |-> reads]]
      BY ChangedCopy
    <3> QED
      BY <1>2, <3>1, <3>2
  <2>5. id \notin Abstract!UsedIds
    BY <1>1, <1>10, UsedWritten DEF Edit
  <2>6. ~ Abstract!HasKey(Abstract!Without(Copies[t].view, D), k)
    <3>1. \A off \in Sees(t) \ D : file[off] # k
      BY <1>1, <1>10, <2>1 DEF Edit, Duplicate
    <3>2. \A off \in Sees(t) : Copies[t].view[off] = file[off]
      BY CopiesFacts, RecordsAtFacts
    <3> QED
      BY <1>5, <3>1, <3>2
         DEF Abstract!HasKey, Abstract!Without, Abstract!Restrict
  <2> QED
    BY <1>3, <1>7, <2>4, <2>5, <2>6 DEF Abstract!Insert
<1> QED
  BY <1>1, <1>6, <1>8, <1>9, <1>10 DEF Sizes

\* A transaction that cannot commit any more may do what it likes.
LEMMA EditStutters ==
  ASSUME TypeOK, MapsMatchActs, SnapshotRead, SnapshotRead',
         NEW t \in DOMAIN trans \ Committable, EditOf(t)
  PROVE  UNCHANGED Abstract!vars
<1>1. PICK C \in SUBSET Offsets', D \in SUBSET Offsets' : Edit(t, C, D)
  BY DEF EditOf
<1> QED
  BY <1>1, EditCopies, Stutters

-----------------------------------------------------------------------------
(* The steps that start and end a transaction *)

LEMMA BeginMaps ==
  ASSUME TypeOK, MapsMatchActs, History, SnapshotRead, SnapshotRead',
         NEW type \in {READONLY, READWRITE}, Begin(type)
  PROVE  \E t \in 1 .. MaxClock : Abstract!Start(t)
<1>1. PICK t : t = StartTime(type)
  OBVIOUS
<1>2. t \notin DOMAIN trans /\ t \in 1 .. MaxClock
  BY <1>1, TimeFacts, ConstantFacts
     DEF StartTime, Begin, History, HistoryOrdered
<1>3. /\ DOMAIN trans' = DOMAIN trans \cup {t} /\ file' = file
      /\ trans'[t].reads = {} /\ ~ trans'[t].conflict
      /\ \A u \in DOMAIN trans : trans'[u] = trans[u]
  BY <1>1, <1>2 DEF Begin, Put
<1>4. /\ Sees(t)' = Live(FUTURE) /\ Live(trans[t].asof)' = Live(FUTURE)
      /\ Live(FUTURE)' = Live(FUTURE)
      /\ \A u \in DOMAIN trans :
           Sees(u)' = Sees(u) /\ Live(trans[u].asof)' = Live(trans[u].asof)
  BY <1>1, BeginView
<1>5. Table' = Table
  BY <1>3, <1>4, SameTable
<1>6. Committable' = Committable \cup {t}
  BY <1>2, <1>3 DEF Committable
<1>7. \A u \in Committable : CopyOf(u)' = CopyOf(u)
  BY <1>3, <1>4, SameCopy DEF Committable
<1>8. CopyOf(t)' = [start |-> Table, view |-> Table, reads |-> {}]
  <2>1. RecordsAt(Sees(t))' = Table
    BY <1>3, <1>4 DEF RecordsAt, Table
  <2>2. RecordsAt(Live(trans[t].asof))' = Table
    BY <1>3, <1>4 DEF RecordsAt, Table
  <2> QED
    BY <1>3, <2>1, <2>2 DEF CopyOf
<1>9. t \notin Committable
  BY <1>2 DEF Committable
<1>10. Copies' = [u \in Committable \cup {t} |->
                   IF u = t THEN [start |-> Table, view |-> Table, reads |-> {}]
                   ELSE CopyOf(u)]
  BY <1>6, <1>7, <1>8 DEF Copies
<1>11. Copies' = Abstract!Put(Copies, {t},
                   [start |-> Table, view |-> Table, reads |-> {}])
  BY <1>9, <1>10 DEF Abstract!Put, Copies
<1> QED
  BY <1>2, <1>5, <1>9, <1>11, CopiesFacts DEF Abstract!Start, Abstract!Active

\* A write conflict, an end without changes and an abort.
LEMMA EndMaps ==
  ASSUME TypeOK, SnapshotRead, SnapshotRead', NEW t \in DOMAIN trans,
         trans' = Conflicted(t) \/ trans' = Without(trans, {t}),
         UNCHANGED <<file, born, died>>
  PROVE  UNCHANGED Abstract!vars \/ (t \in Committable /\ Abstract!Cancel(t))
<1>1. /\ Live(FUTURE)' = Live(FUTURE)
      /\ \A u \in DOMAIN trans \ {t} :
           /\ u \in DOMAIN trans' /\ trans'[u] = trans[u]
           /\ Sees(u)' = Sees(u)
           /\ Live(trans[u].asof)' = Live(trans[u].asof)
  BY OtherView
<1>2. Table' = Table
  BY <1>1, SameTable
<1>3. /\ DOMAIN trans' \subseteq DOMAIN trans
      /\ t \in DOMAIN trans' => trans'[t].conflict
  <2>1. CASE trans' = Conflicted(t)
    BY <2>1, TransIsRecord DEF Conflicted, TransactionType
  <2>2. CASE trans' = Without(trans, {t})
    BY <2>2, WithoutOne
  <2> QED
    BY <2>1, <2>2
<1>4. Committable' = Committable \ {t}
  BY <1>1, <1>3 DEF Committable
<1>5. \A u \in Committable \ {t} : CopyOf(u)' = CopyOf(u)
  BY <1>1, SameCopy DEF Committable
<1>6. CASE t \in Committable
  BY <1>2, <1>4, <1>5, <1>6, Cancels
<1>7. CASE t \notin Committable
  <2>1. Committable' = Committable /\ \A u \in Committable : CopyOf(u)' = CopyOf(u)
    BY <1>4, <1>5, <1>7
  <2> QED
    BY <1>2, <2>1, Stutters
<1> QED
  BY <1>6, <1>7

\* The changes of t, as SnapshotDb takes them from its copy.
LEMMA CommittedChanges ==
  ASSUME TypeOK, TypeOK', MapsMatchActs, MapsMatchActs', History, SnapshotRead,
         ActsWereRead, NEW t \in DOMAIN trans, CommitUpdate(t)
  PROVE  /\ Abstract!ReadsCurrent(t)
         /\ \A off \in Live(FUTURE) :
              off \in Abstract!Removed(t) <=> off \in trans[t].deletes
         /\ Abstract!Added(t) = trans[t].creates \ trans[t].deletes
<1>1. t \in Committable /\ ValidateReads(t)
  BY DEF CommitUpdate, Committable
<1>2. /\ DOMAIN Copies[t].start = Live(trans[t].asof)
      /\ DOMAIN Copies[t].view = Sees(t)
      /\ \A off \in Live(trans[t].asof) : Copies[t].start[off] = file[off]
      /\ Copies[t].reads = trans[t].reads
      /\ DOMAIN Table = Live(FUTURE)
      /\ \A off \in Live(FUTURE) : Table[off] = file[off]
  BY <1>1, CopiesFacts, RecordsAtFacts DEF Table
<1>3. \A off : file[off] \in trans[t].reads =>
        (off \in Live(trans[t].asof) <=> off \in Live(FUTURE))
  BY <1>1, ReadsAreCurrent
<1>4. Abstract!ReadsCurrent(t)
  BY <1>2, <1>3 DEF Abstract!ReadsCurrent, Abstract!OfKeys
<1>5. Sees(t) = (Live(trans[t].asof) \cup trans[t].creates) \ trans[t].deletes
  BY DEF SnapshotRead
<1>6. \A off \in trans[t].deletes : file[off] \in trans[t].reads
  BY <1>1 DEF ActsWereRead, Committable
<1>7. \A off \in Live(FUTURE) :
        off \in Abstract!Removed(t) <=> off \in trans[t].deletes
  <2>1. trans[t].creates \cap Live(FUTURE) = {}
    BY CommittedRecords
  <2>2. Abstract!Removed(t) = Live(trans[t].asof) \ Sees(t)
    BY <1>2 DEF Abstract!Removed
  <2> QED
    BY <1>3, <1>5, <1>6, <2>1, <2>2
<1>8. Abstract!Added(t) = trans[t].creates \ trans[t].deletes
  <2>1. trans[t].creates \cap DOMAIN born = {}
    BY DEF History, HistoryTies, Pending
  <2>2. Live(trans[t].asof) \subseteq DOMAIN born
    BY DEF Live
  <2>3. Abstract!Added(t) = Sees(t) \ Live(trans[t].asof)
    BY <1>2 DEF Abstract!Added
  <2> QED
    BY <1>5, <2>1, <2>2, <2>3
<1> QED
  BY <1>4, <1>7, <1>8

LEMMA CommitMaps ==
  ASSUME TypeOK, TypeOK', MapsMatchActs, MapsMatchActs', History, SnapshotRead,
         SnapshotRead', ActsWereRead, NEW t \in DOMAIN trans, CommitUpdate(t)
  PROVE  t \in Committable /\ Abstract!Commit(t)
<1>1. t \in Committable
  BY DEF CommitUpdate, Committable
<1>2. trans' = Without(trans, {t}) /\ file' = file
  BY FinalizeDrops DEF CommitUpdate
<1>3. /\ DOMAIN trans' = DOMAIN trans \ {t}
      /\ \A u \in DOMAIN trans \ {t} : trans'[u] = trans[u]
  BY <1>2, WithoutOne
<1>4. Committable' = Committable \ {t}
  BY <1>3 DEF Committable
<1>5. \A u \in Committable \ {t} : CopyOf(u)' = CopyOf(u)
  BY <1>2, <1>3, CommitView, SameCopy DEF Committable
<1>6. Copies' = Abstract!Without(Copies, {t})
  BY <1>4, <1>5 DEF Copies, Abstract!Without, Abstract!Restrict
<1>7. /\ Abstract!ReadsCurrent(t)
      /\ \A off \in Live(FUTURE) :
           off \in Abstract!Removed(t) <=> off \in trans[t].deletes
      /\ Abstract!Added(t) = trans[t].creates \ trans[t].deletes
  BY CommittedChanges
<1>8. Table' = Abstract!Merged(t)
  <2>1. /\ trans[t].creates \cap Live(FUTURE) = {}
        /\ Live(FUTURE)' = (Live(FUTURE) \cup trans[t].creates)
                             \ trans[t].deletes
    BY CommittedRecords
  <2>2. /\ DOMAIN Table = Live(FUTURE)
        /\ \A off \in Live(FUTURE) : Table[off] = file[off]
        /\ DOMAIN Copies[t].view = Sees(t)
        /\ \A off \in Sees(t) : Copies[t].view[off] = file[off]
    BY <1>1, CopiesFacts, RecordsAtFacts DEF Table
  <2>3. Live(FUTURE)' = (DOMAIN Table \ Abstract!Removed(t)) \cup Abstract!Added(t)
    BY <1>7, <2>1, <2>2
  <2>4. \A off \in Abstract!Added(t) : Copies[t].view[off] = file[off]
    BY <2>2 DEF Abstract!Added
  <2>5. Table' = [off \in Live(FUTURE)' |-> file[off]]
    BY <1>2 DEF Table, RecordsAt
  <2> QED
    BY <2>2, <2>3, <2>4, <2>5 DEF Abstract!Merged
<1> QED
  BY <1>1, <1>6, <1>7, <1>8, CopiesFacts DEF Abstract!Commit, Abstract!Active

-----------------------------------------------------------------------------
(* The refinement *)

\* Every step of Tran is a step of SnapshotDb or leaves its variables alone.
LEMMA StepMaps ==
  ASSUME Proved, Proved', FileFits, FileFits', [Next]_vars
  PROVE  [Abstract!Next]_(Abstract!vars)
<1> USE DEF Proved
<1>1. ASSUME NEW type \in {READONLY, READWRITE}, Begin(type)
      PROVE  Abstract!Next
  BY <1>1, BeginMaps DEF Abstract!Next
<1>2. \A t \in DOMAIN trans : t \in 1 .. MaxClock
  BY ConstantFacts DEF TypeOK, TransOK, Times, History, HistoryOrdered
<1>3. ASSUME NEW t \in DOMAIN trans, EditOf(t)
      PROVE  Abstract!Next \/ UNCHANGED Abstract!vars
  <2>1. CASE t \in Committable
    BY <1>2, <1>3, <2>1, EditMaps DEF Abstract!Next
  <2>2. CASE t \notin Committable
    BY <1>3, <2>2, EditStutters
  <2> QED
    BY <2>1, <2>2
<1>4. ASSUME NEW t \in DOMAIN trans, NEW off \in Offsets,
             WriteConflict(t, off)
      PROVE  Abstract!Next \/ UNCHANGED Abstract!vars
  <2>1. trans' = Conflicted(t) /\ UNCHANGED <<file, born, died>>
    BY <1>4, FinalizeDrops DEF WriteConflict, Conflicted
  <2> QED
    BY <1>2, <2>1, EndMaps DEF Abstract!Next
<1>5. ASSUME NEW t \in DOMAIN trans, CommitUnchanged(t) \/ Abort(t)
      PROVE  Abstract!Next \/ UNCHANGED Abstract!vars
  <2>1. trans' = Without(trans, {t}) /\ UNCHANGED <<file, born, died>>
    BY <1>5, FinalizeDrops DEF CommitUnchanged, Abort
  <2> QED
    BY <1>2, <2>1, EndMaps DEF Abstract!Next
<1>6. ASSUME NEW t \in DOMAIN trans, CommitUpdate(t)
      PROVE  Abstract!Next
  BY <1>2, <1>6, CommitMaps DEF Abstract!Next
<1>7. CASE Restart
  <2>1. /\ DOMAIN trans = {} /\ trans' = trans /\ Live(FUTURE)' = Live(FUTURE)
        /\ file' = file
    BY <1>7, RestartView DEF Restart
  <2>2. Committable = {} /\ Committable' = {}
    BY <2>1 DEF Committable
  <2> QED
    BY <2>1, <2>2, SameTable, Stutters
<1>8. CASE UNCHANGED vars
  <2>1. /\ UNCHANGED <<trans, file, index, created, deleted, born, died>>
    BY <1>8 DEF vars
  <2>2. Live(FUTURE)' = Live(FUTURE) /\ Committable' = Committable
    BY <2>1 DEF Live, Committable
  <2>3. \A u \in Committable : CopyOf(u)' = CopyOf(u)
    BY <2>1 DEF CopyOf, RecordsAt, Live, Sees, Visible, CreateVisible,
                DeleteVisible, CreateTime, DeleteTime
  <2> QED
    BY <2>1, <2>2, <2>3, SameTable, Stutters
<1> QED
  BY <1>1, <1>3, <1>4, <1>5, <1>6, <1>7, <1>8, StepKinds

LEMMA InitMaps == Init => Abstract!Init
<1> SUFFICES ASSUME Init PROVE Abstract!Init
  OBVIOUS
<1>1. TypeOK
  BY InitType
<1>2. /\ DOMAIN born = Offsets /\ DOMAIN died = {} /\ DOMAIN trans = {}
      /\ \A off \in Offsets : born[off] = 0
  BY DEF Init, EmptyMap
<1>3. Live(FUTURE) = Offsets
  BY <1>2, ConstantFacts DEF Live
<1>4. Table \in [Offsets -> Keys]
  BY <1>1, <1>3 DEF Table, RecordsAt, TypeOK, Offsets
<1>5. Offsets \in SUBSET (1 .. MaxOff)
  <2>1. PICK n \in MinRecords .. MaxOff : file \in [1 .. n -> Keys]
    BY DEF Init
  <2> QED
    BY <2>1, MinRecordsAssumption, MaxOffAssumption DEF Offsets
<1>6. Abstract!IsInjective(Table)
  <2>1. \A o1, o2 \in Offsets : file[o1] = file[o2] => o1 = o2
    BY DEF Init, IsInjective, Offsets
  <2> QED
    BY <1>3, <2>1 DEF Abstract!IsInjective, Table, RecordsAt
<1>7. Copies = Abstract!EmptyMap
  BY <1>2 DEF Copies, Committable, Abstract!EmptyMap
<1> QED
  BY <1>4, <1>5, <1>6, <1>7 DEF Abstract!Init

LEMMA FileFitsInit == Init => FileFits
BY MinRecordsAssumption, MaxOffAssumption DEF Init, FileFits, Offsets

LEMMA ProvedInvariant == Spec => [](Proved /\ FileFits)
<1>1. TypeOK /\ ActsWereRead /\ [Next]_vars => ActsWereRead'
  BY ActsReadNext
<1>2. TypeOK /\ FileFits /\ [Next]_vars => FileFits'
  BY FileFitsNext
<1>3. TypeOK /\ MapsMatchActs /\ History /\ SnapshotRead /\ ActsWereRead
        <=> Proved
  BY DEF Proved
<1> QED
  BY <1>1, <1>2, <1>3, UniqueInit, FileFitsInit, HistoryInvariant,
     ReadsAreSnapshots, PTL DEF Spec

\* What a client of transaction.cpp can observe of the table is what clients
\* working on copies of it would observe: a commit puts all the changes of a
\* transaction in the table at once, and nothing else changes it.
THEOREM TranImplementsSnapshotDb == Spec => ImplementsSnapshotDb
<1>1. Proved /\ Proved' /\ FileFits /\ FileFits' /\ [Next]_vars
      => [Abstract!Next]_(Abstract!vars)
  BY StepMaps
<1> QED
  BY <1>1, InitMaps, ProvedInvariant, PTL
     DEF Spec, ImplementsSnapshotDb, Abstract!Spec
=============================================================================
