-------------------------------- MODULE Tran --------------------------------
(***************************************************************************)
(* The transactions of one table of a cSuneido database (transaction.cpp,  *)
(* with the record operations of database.cpp that call it).               *)
(*                                                                         *)
(* Concurrency control is multi-version and optimistic.  Every record      *)
(* version has an offset in the database file, which is only appended to.  *)
(* Two maps, created and deleted, say when a version came and went;  a     *)
(* version in neither map is old enough for every active transaction.      *)
(* A transaction reads as of its start, finds write conflicts when it      *)
(* deletes, and finds read conflicts when it commits.  Committed update    *)
(* transactions wait in final until no active transaction overlaps them.   *)
(*                                                                         *)
(* The table has one index, a key.  A record is its key: an update makes a *)
(* new version at a new offset, so what else the record holds is not told  *)
(* apart.  One server thread runs every request to its end, so each        *)
(* request of a client is one step.                                        *)
(***************************************************************************)
EXTENDS Integers, Sequences, FiniteSets, Functions

CONSTANTS
  Keys,         \* the values of the key column, ordered as integers
  UNCOMMITTED,  \* INT_MAX / 2, the offset of an uncommitted time
  MaxClock,     \* bound on the logical clock, far below UNCOMMITTED
  MaxOff,       \* bound on the number of records ever written to the file
  MinRecords    \* bound on the initial table: it has at least so many records

ASSUME KeysAssumption == Keys \subseteq Nat
ASSUME UncommittedAssumption == UNCOMMITTED \in Nat \ {0}
ASSUME MaxClockAssumption == MaxClock \in Nat \ {0} /\ MaxClock < UNCOMMITTED
ASSUME MaxOffAssumption == MaxOff \in Nat
ASSUME MinRecordsAssumption == MinRecords \in Nat

VARIABLES
  clock,     \* the next time stamp; transaction numbers are times too
  trans,     \* the active transactions, by number
  final,     \* committed update transactions some active one may overlap
  created,   \* offset -> commit time, or UNCOMMITTED + tran
  deleted,   \* offset -> the deleting transaction and its time
  index,     \* the offsets that have an entry in the key index
  file,      \* the records written so far: offset -> key
  nrecords,  \* the record count kept in the tables record
  born,      \* history: offset -> when its creation was committed
  died       \* history: offset -> when its deletion was committed

vars == <<clock, trans, final, created, deleted, index, file, nrecords,
          born, died>>

READONLY == 0
READWRITE == 1

FUTURE == 2 * UNCOMMITTED + 1      \* INT_MAX
PAST == - FUTURE - 1               \* INT_MIN

Offsets == DOMAIN file

EmptyMap == [x \in {} |-> x]
Put(f, S, v) == [x \in DOMAIN f \cup S |-> IF x \in S THEN v ELSE f[x]]
Without(f, S) == Restrict(f, DOMAIN f \ S)

-----------------------------------------------------------------------------
(* Visibility *)

CreateTime(off) == IF off \in DOMAIN created THEN created[off] ELSE PAST
DeleteTime(off) == IF off \in DOMAIN deleted THEN deleted[off].time ELSE FUTURE

CreateVisible(t, ct) ==
  IF ct > UNCOMMITTED THEN ct - UNCOMMITTED = t ELSE ct <= trans[t].asof

DeleteVisible(t, dt) ==
  IF dt > UNCOMMITTED THEN dt - UNCOMMITTED # t ELSE dt >= trans[t].asof

Visible(t, off) ==
  CreateVisible(t, CreateTime(off)) /\ DeleteVisible(t, DeleteTime(off))

\* what an iterator of transaction t over the whole index returns
Sees(t) == {off \in index : Visible(t, off)}

\* the committed records at time at, from the history
Live(at) == {off \in DOMAIN born :
               /\ born[off] <= at
               /\ off \in DOMAIN died => died[off] >= at}

\* A row address t can pass to delete or update: t has read its key, and the
\* record is visible, or was visible until t deleted it or met a conflict.
Holds(t, off) ==
  /\ trans[t].conflict \/ file[off] \in trans[t].reads
  /\ \/ off \in Sees(t)
     \/ off \in trans[t].deletes
     \/ trans[t].conflict /\ off \in Live(t)

-----------------------------------------------------------------------------
(* Finalizing *)

\* Mutant: finalize against the youngest active transaction
FinalizableByYoungest(fin, trs) ==
  {f \in fin : DOMAIN trs = {} \/ \E t \in DOMAIN trs : f.asof < trs[t].asof}

\* Mutant: finalize counts only the transactions that will validate
FinalizableForUpdates(fin, trs) ==
  {f \in fin : \A t \in DOMAIN trs :
                 trs[t].type = READWRITE => f.asof < trs[t].asof}

\* The transactions of fin that committed before every one of trs started.
\* With no active transaction the limit is FUTURE, after every commit.
Finalizable(fin, trs) ==
  {f \in fin : \A t \in DOMAIN trs : f.asof < trs[t].asof}

CreatesOf(ts) == UNION {t.creates : t \in ts}
DeletesOf(ts) == UNION {t.deletes : t \in ts}

\* Mutant: the creations of a finalized transaction stay in created
FinalizeDeletesOnly(trs, fin, cr, de, ix) ==
  LET gone == Finalizable(fin, trs)
  IN  /\ trans' = trs
      /\ final' = fin \ gone
      /\ created' = cr
      /\ deleted' = Without(de, DeletesOf(gone))
      /\ index' = ix \ DeletesOf(gone)

\* finalize() on the transactions, maps and index a request leaves behind
Finalize(trs, fin, cr, de, ix) ==
  LET gone == Finalizable(fin, trs)
  IN  /\ trans' = trs
      /\ final' = fin \ gone
      /\ created' = Without(cr, CreatesOf(gone))
      /\ deleted' = Without(de, DeletesOf(gone))
      /\ index' = ix \ DeletesOf(gone)

-----------------------------------------------------------------------------
(* Requests of a transaction *)

StartTime(type) == IF clock % 2 # type THEN clock + 1 ELSE clock

Begin(type) ==
  /\ StartTime(type) < MaxClock
  /\ trans' = Put(trans, {StartTime(type)},
                  [type |-> type, asof |-> StartTime(type), creates |-> {},
                   deletes |-> {}, reads |-> {}, conflict |-> FALSE])
  /\ clock' = StartTime(type) + 1
  /\ UNCHANGED <<final, created, deleted, index, file, nrecords, born, died>>

Updater(t) == trans[t].type = READWRITE

\* An iterator of an update transaction has covered the keys from org to end,
\* going either way.  The ranges are kept as the set of keys in them, which is
\* what validate_reads asks of them.  A read-only transaction records nothing,
\* so its reads change no state, and neither does a second read of a key.  A
\* transaction with a conflict never validates, so what it read is forgotten.
NowRead(t, ks) ==
  IF trans[t].conflict THEN {} ELSE trans[t].reads \cup ks

Read(t, org, end) ==
  /\ Updater(t)
  /\ org <= end
  /\ trans' = [trans EXCEPT
                 ![t].reads = NowRead(t, {k \in Keys : org <= k /\ k <= end})]
  /\ UNCHANGED <<clock, final, created, deleted, index, file, nrecords,
                 born, died>>

\* Index::insert looks the key up in the view of t, which is a read.  The
\* version being replaced is deleted by then, so the view does not have it.
Duplicate(t, k, replaced) ==
  \E off \in Sees(t) \ replaced : file[off] = k

\* Mutant: the record is not in the file when it is indexed
OutputLater(k) ==
  /\ Len(file) < MaxOff
  /\ file' = file

\* output() writes the record before any index is tried
Output(k) ==
  /\ Len(file) < MaxOff
  /\ file' = Append(file, k)
NewOff == Len(file) + 1

\* Mutant: the duplicate check of an insert is not recorded as a read
CreateUnread(t, k, deletes) ==
  /\ trans' = [trans EXCEPT ![t].creates = @ \cup {NewOff},
                            ![t].deletes = @ \cup deletes]
  /\ created' = Put(created, {NewOff}, UNCOMMITTED + t)
  /\ index' = index \cup {NewOff}

\* create_act of the new version, and its index entry
Create(t, k, deletes) ==
  /\ trans' = [trans EXCEPT ![t].creates = @ \cup {NewOff},
                            ![t].deletes = @ \cup deletes,
                            ![t].reads = NowRead(t, {k})]
  /\ created' = Put(created, {NewOff}, UNCOMMITTED + t)
  /\ index' = index \cup {NewOff}

\* the delete_act of a version nobody else has deleted
MarkDeleted(t, off) ==
  /\ off \notin DOMAIN deleted
  /\ deleted' = Put(deleted, {off}, [tran |-> t, time |-> t + UNCOMMITTED])

Add(t, k) ==
  /\ Updater(t)
  /\ Output(k)
  /\ ~ Duplicate(t, k, {})
  /\ Create(t, k, {})
  /\ nrecords' = nrecords + 1
  /\ UNCHANGED <<clock, final, deleted, born, died>>

\* The insert throws "duplicate key"; what was written stays in the file.
\* The client may catch the error and go on with the transaction.
AddDuplicate(t, k) ==
  /\ Updater(t)
  /\ Output(k)
  /\ Duplicate(t, k, {})
  /\ trans' = [trans EXCEPT ![t].reads = NowRead(t, {k})]
  /\ UNCHANGED <<clock, final, created, deleted, index, nrecords, born, died>>

Remove(t, off) ==
  /\ Updater(t)
  /\ Holds(t, off)
  /\ MarkDeleted(t, off)
  /\ trans' = [trans EXCEPT ![t].deletes = @ \cup {off}]
  /\ nrecords' = nrecords - 1
  /\ UNCHANGED <<clock, final, created, index, file, born, died>>

Update(t, off, k) ==
  /\ Updater(t)
  /\ Output(k)
  /\ Holds(t, off)
  /\ MarkDeleted(t, off)
  /\ ~ Duplicate(t, k, {off})
  /\ Create(t, k, {off})
  /\ UNCHANGED <<clock, final, nrecords, born, died>>

\* Mutant: the failing update forgets to take its delete_act back
KeepDelete(t, off) ==
  deleted' = Put(deleted, {off}, [tran |-> t, time |-> t + UNCOMMITTED])

\* update_record takes its delete_act back when the new key is a duplicate
UndoDelete(t, off) == deleted' = Without(Put(deleted, {off},
                        [tran |-> t, time |-> t + UNCOMMITTED]), {off})

UpdateDuplicate(t, off, k) ==
  /\ Updater(t)
  /\ Output(k)
  /\ off \notin DOMAIN deleted
  /\ Holds(t, off)
  /\ Duplicate(t, k, {off})
  /\ UndoDelete(t, off)
  /\ trans' = [trans EXCEPT ![t].reads = NowRead(t, {k})]
  /\ UNCHANGED <<clock, final, created, index, nrecords, born, died>>

\* Mutant: the statement fails but the transaction is not marked
WriteConflictUnmarked(t, off) ==
  /\ Updater(t)
  /\ off \in DOMAIN deleted
  /\ Holds(t, off)
  /\ Finalize([trans EXCEPT ![t].asof = FUTURE],
              final, created, deleted, index)
  /\ UNCHANGED <<clock, file, nrecords, born, died>>

\* A delete or update of a version that is deleted already, by another
\* transaction or by t.  The request fails, and t can only abort from here on,
\* but the client may go on using it.
WriteConflict(t, off) ==
  /\ Updater(t)
  /\ off \in DOMAIN deleted
  /\ Holds(t, off)
  /\ Finalize([trans EXCEPT ![t].conflict = TRUE, ![t].asof = FUTURE,
                              ![t].reads = {}],
              final, created, deleted, index)
  /\ UNCHANGED <<clock, file, nrecords, born, died>>

-----------------------------------------------------------------------------
(* Commit and abort *)

\* Mutant: only the creations of other transactions are validated against
ValidateCreates(t) ==
  \A f \in final : f.asof >= trans[t].asof =>
    \A off \in f.creates : file[off] \notin trans[t].reads

\* no transaction that committed since t started touched a key that t read
ValidateReads(t) ==
  \A f \in final : f.asof >= trans[t].asof =>
    \A off \in f.creates \cup f.deletes : file[off] \notin trans[t].reads

HasActs(t) == Updater(t) /\ trans[t].creates \cup trans[t].deletes # {}

\* Mutant: a commit without changes does not finalize
CommitUnchangedEarlyReturn(t) ==
  /\ ~ trans[t].conflict
  /\ ~ HasActs(t)
  /\ trans' = Without(trans, {t})
  /\ UNCHANGED <<clock, final, created, deleted, index, file, nrecords,
                 born, died>>

CommitUnchanged(t) ==
  /\ ~ trans[t].conflict
  /\ ~ HasActs(t)
  /\ Finalize(Without(trans, {t}), final, created, deleted, index)
  /\ UNCHANGED <<clock, file, nrecords, born, died>>

\* deleted, with the entries of offs given the commit time
DeleteTimes(offs, time) ==
  [off \in DOMAIN deleted |->
     IF off \in offs THEN [deleted[off] EXCEPT !.time = time]
     ELSE deleted[off]]

CommitUpdate(t) ==
  /\ ~ trans[t].conflict
  /\ HasActs(t)
  /\ ValidateReads(t)
  /\ clock < MaxClock
  /\ clock' = clock + 1
  /\ Finalize(Without(trans, {t}),
              final \cup {[asof |-> clock, creates |-> trans[t].creates,
                           deletes |-> trans[t].deletes]},
              Put(created, trans[t].creates, clock),
              DeleteTimes(trans[t].deletes, clock),
              index)
  /\ born' = Put(born, trans[t].creates, clock)
  /\ died' = Put(died, trans[t].deletes, clock)
  /\ UNCHANGED <<file, nrecords>>

\* Mutants: abort does not count deleted records again, or leaves the index
CountWithoutCreates(t) == nrecords - Cardinality(trans[t].creates)
IndexWithAborted(t) == index

\* what abort() leaves of the record count and the index entries of t
CountWithout(t) ==
  nrecords - Cardinality(trans[t].creates) + Cardinality(trans[t].deletes)
IndexWithout(t) == index \ trans[t].creates

Abort(t) ==
  /\ nrecords' = CountWithout(t)
  /\ Finalize(Without(trans, {t}), final, Without(created, trans[t].creates),
              Without(deleted, trans[t].deletes), IndexWithout(t))
  /\ UNCHANGED <<clock, file, born, died>>

CommitFails(t) ==
  /\ trans[t].conflict \/ (HasActs(t) /\ ~ ValidateReads(t))
  /\ Abort(t)

\* Shutdown with no transaction left, and the next start.  What was in memory
\* is gone, the file and its index stay.
Restart ==
  /\ trans = EmptyMap
  /\ clock' = 1
  /\ final' = {}
  /\ created' = EmptyMap
  /\ deleted' = EmptyMap
  /\ born' = [off \in Live(FUTURE) |-> 0]
  /\ died' = EmptyMap
  /\ UNCHANGED <<trans, index, file, nrecords>>

-----------------------------------------------------------------------------
Init ==
  /\ clock = 1
  /\ trans = EmptyMap
  /\ final = {}
  /\ created = EmptyMap
  /\ deleted = EmptyMap
  /\ \E n \in MinRecords .. MaxOff : file \in [1 .. n -> Keys]
  /\ IsInjective(file)
  /\ index = Offsets
  /\ nrecords = Cardinality(Offsets)
  /\ born = [off \in Offsets |-> 0]
  /\ died = EmptyMap

RequestOf(t) ==
  \/ \E org, end \in Keys : Read(t, org, end)
  \/ \E k \in Keys : Add(t, k) \/ AddDuplicate(t, k)
  \/ \E off \in Offsets :
       \/ Remove(t, off)
       \/ WriteConflict(t, off)
       \/ \E k \in Keys : Update(t, off, k) \/ UpdateDuplicate(t, off, k)
  \/ CommitUnchanged(t)
  \/ CommitUpdate(t)
  \/ CommitFails(t)
  \/ Abort(t)

Next ==
  \/ \E type \in {READONLY, READWRITE} : Begin(type)
  \/ \E t \in DOMAIN trans : RequestOf(t)
  \/ Restart

Spec == Init /\ [][Next]_vars

-----------------------------------------------------------------------------
(* Properties *)

Times == 0 .. MaxClock

TransactionType ==
  [type: {READONLY, READWRITE}, asof: Times \cup {FUTURE},
   creates: SUBSET Offsets, deletes: SUBSET Offsets, reads: SUBSET Keys,
   conflict: BOOLEAN]

FinalType ==
  [asof: Times, creates: SUBSET Offsets, deletes: SUBSET Offsets]

TransOK ==
  /\ DOMAIN trans \subseteq Times
  /\ \A t \in DOMAIN trans : trans[t] \in TransactionType
  /\ final \subseteq FinalType

MapsOK ==
  /\ DOMAIN created \subseteq Offsets
  /\ \A off \in DOMAIN created : created[off] \in Int
  /\ DOMAIN deleted \subseteq Offsets
  /\ \A off \in DOMAIN deleted : deleted[off] \in [tran: Times, time: Int]

HistoryOK ==
  /\ DOMAIN born \subseteq Offsets
  /\ \A off \in DOMAIN born : born[off] \in Times
  /\ DOMAIN died \subseteq Offsets
  /\ \A off \in DOMAIN died : died[off] \in Times

\* Every variable has the type the C++ declarations give it, the maps are
\* about records that were written, and transactions are numbered by times.
TypeOK ==
  /\ clock \in Times
  /\ file \in Seq(Keys)
  /\ index \subseteq Offsets
  /\ nrecords \in Int
  /\ TransOK
  /\ MapsOK
  /\ HistoryOK

Active == {trans[t] : t \in DOMAIN trans}

\* the entries that the acts of the transactions trs and fin imply in created
CreatedMatches(trs, fin, cr) ==
  /\ \A off \in DOMAIN cr :
       \/ \E t \in DOMAIN trs : off \in trs[t].creates
       \/ \E f \in fin : off \in f.creates
  /\ \A t \in DOMAIN trs : \A off \in trs[t].creates :
       off \in DOMAIN cr /\ cr[off] = UNCOMMITTED + t
  /\ \A f \in fin : \A off \in f.creates :
       off \in DOMAIN cr /\ cr[off] = f.asof

\* The entries of created are exactly the creations of the transactions that
\* are active or in final, each of one transaction, with the time it implies.
\* So every verify() on created in commit, abort and finalize holds.
CreatedMatchesActs == CreatedMatches(trans, final, created)

DeletedMatches(trs, fin, de) ==
  /\ \A off \in DOMAIN de :
       \/ \E t \in DOMAIN trs : off \in trs[t].deletes
       \/ \E f \in fin : off \in f.deletes
  /\ \A t \in DOMAIN trs : \A off \in trs[t].deletes :
       off \in DOMAIN de /\ de[off] = [tran |-> t, time |-> t + UNCOMMITTED]
  /\ \A f \in fin : \A off \in f.deletes :
       off \in DOMAIN de /\ de[off].time = f.asof

\* The same of deleted: no verify() on it fails, and no deletion is left that
\* would make a record look deleted, or undeletable, for ever.
DeletedMatchesActs == DeletedMatches(trans, final, deleted)

\* A transaction sees the records committed when it started and its own
\* changes, whatever commits, aborts or is finalized meanwhile; one that met a
\* write conflict sees the newest committed records instead.
SnapshotRead ==
  \A t \in DOMAIN trans :
    Sees(t) = (Live(trans[t].asof) \cup trans[t].creates) \ trans[t].deletes

\* A transaction that commits changes could have run alone at that moment:
\* every key range it read holds the same committed records as when it
\* started, and what it deletes is still there.
CommitsChanges(t) ==
  t \in DOMAIN trans \ DOMAIN trans' /\ <<born, died>>' # <<born, died>>

LiveOf(at, ks) == {off \in Live(at) : file[off] \in ks}

CommitIsSerializable ==
  \A t \in DOMAIN trans : CommitsChanges(t) =>
    /\ LiveOf(trans[t].asof, trans[t].reads) = LiveOf(FUTURE, trans[t].reads)
    /\ trans[t].deletes \subseteq Live(FUTURE) \cup trans[t].creates

Serializable == [][CommitIsSerializable]_vars

\* The key is unique: among the committed records, although two transactions
\* that cannot see each other both put the same key in the index, and in the
\* view of every transaction that is still able to commit.
UniqueIn(offs) == \A o1, o2 \in offs : file[o1] = file[o2] => o1 = o2

UniqueKeys ==
  /\ UniqueIn(Live(FUTURE))
  /\ \A t \in DOMAIN trans : ~ trans[t].conflict => UniqueIn(Sees(t))

\* nrecords, changed at once by every request and put back by abort, counts
\* the committed records with the changes of the active transactions applied.
RecordCount ==
  nrecords + Cardinality(DeletesOf(Active))
    = Cardinality(Live(FUTURE)) + Cardinality(CreatesOf(Active))

\* The index has an entry for each committed record, for each new one of an
\* active transaction, and for each deleted one still in final: no entry is
\* lost by an abort and none is left over by a finalization.
IndexEntries ==
  index = Live(FUTURE) \cup CreatesOf(Active) \cup DeletesOf(final)

\* The index and the record of the table are at every moment those that the
\* acts of its transactions imply.
IndexAndCount == RecordCount /\ IndexEntries

\* final holds nothing that no active transaction needs: each started before
\* the commit of it.  With none active final is empty, which the END of every
\* test in transaction.cpp checks.
FinalIsNeeded ==
  \A f \in final : \E t \in DOMAIN trans : trans[t].asof < f.asof

\* final holds all that an active transaction needs: every creation and every
\* deletion committed after its start, with the time of the commit.
FinalHasNeeded ==
  \A t \in DOMAIN trans :
    /\ \A off \in DOMAIN born : born[off] > trans[t].asof =>
         \E f \in final : off \in f.creates /\ f.asof = born[off]
    /\ \A off \in DOMAIN died : died[off] > trans[t].asof =>
         \E f \in final : off \in f.deletes /\ f.asof = died[off]

\* A committed transaction stays in final exactly as long as some active one
\* started before it committed: finalize() is neither late, which would leave
\* its deleted records in the index, nor early, which would take away what
\* visible() and the validation of an overlapping transaction look at.
FinalIsExact == FinalIsNeeded /\ FinalHasNeeded
=============================================================================
