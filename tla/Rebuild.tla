------------------------------- MODULE Rebuild -------------------------------
(***************************************************************************)
(* The database file as the log it is rebuilt from (recover.cpp), with the *)
(* schema requests of database.cpp and the transactions that write it.     *)
(*                                                                         *)
(* The schema is kept in tables of its own: a record in "tables" for every *)
(* table, one in "columns" for every column, one in "indexes" for every    *)
(* index.  Schema requests are not part of a transaction.  They write and  *)
(* remove these records at once, and what they removed is listed in the    *)
(* next commit record, whoever commits.  Records are only ever appended to *)
(* the file, so that the file, read from its begin to its last good        *)
(* commit, tells what the database held.  The indexes are not part of the  *)
(* log: a rebuild makes them anew while it copies the records to a new     *)
(* file.                                                                   *)
(*                                                                         *)
(* A database is a record: log is the blocks of its file, live the schema  *)
(* records that the indexes of the schema tables lead to, rows the data    *)
(* records that the indexes of their table lead to, each with the number   *)
(* of that table, and drops is schema_deletes.  All indexes of a table     *)
(* lead to the same records.  Offsets are positions in log.                *)
(***************************************************************************)
EXTENDS Integers, FiniteSets, Sequences

CONSTANTS
  Names,       \* table names
  Columns,     \* column names; an index is on one column
  Requests,    \* the schema requests that clients make
  MaxLog,      \* bound on the number of blocks in the file
  MaxTables,   \* bound on the number of tables ever made
  MaxRecords,  \* bound on the number of records in the file
  MaxRebuilds  \* bound on the number of rebuilds

ASSUME RebuildBounds ==
  /\ MaxLog \in Nat /\ MaxLog >= 4   \* the first table and its commit
  /\ MaxTables \in Nat \ {0}
  /\ MaxRecords \in Nat
  /\ MaxRebuilds \in Nat

VARIABLES
  db,         \* the database
  nexttable,  \* Dbhdr::next_table, the number for the next table
  fresh,      \* records created by transactions that are active
  going,      \* records deleted by transactions that are active
  sum,        \* whether the running checksum has anything in it
  up,         \* whether the database is open
  rebuilds,   \* the number of rebuilds so far
  saved,      \* history: what the last commit record in the file committed
  plain       \* history: whether every file that was rebuilt was Plain

vars == <<db, nexttable, fresh, going, sum, up, rebuilds, saved, plain>>

TN_VIEWS == 4   \* the last of the system tables, which are not modelled

Put(f, x, v) == [y \in DOMAIN f \cup {x} |-> IF y = x THEN v ELSE f[y]]
Drop(f, x) == [y \in DOMAIN f \ {x} |-> f[y]]

-----------------------------------------------------------------------------
(* Records.  A hidden one is in a block of type MM_OTHER, which no rebuild  *)
(* copies.                                                                  *)

TablesRec(t, name) == [kind |-> "tables", tbl |-> t, name |-> name,
                       nextfield |-> 0, nrows |-> 0, hidden |-> FALSE]
ColumnsRec(t, col, field) ==
  [kind |-> "columns", tbl |-> t, column |-> col, field |-> field]
IndexesRec(t, col) == [kind |-> "indexes", tbl |-> t, column |-> col]
DataRec(t, id) == [kind |-> "data", tbl |-> t, id |-> id]
CommitRec(creates, deletes) ==
  [kind |-> "commit", creates |-> creates, deletes |-> deletes]

NewOff(d) == Len(d.log) + 1
Live(d, kind) == {o \in d.live : d.log[o].kind = kind}
LiveOf(d, kind, t) == {o \in Live(d, kind) : d.log[o].tbl = t}
Tables(d) == {d.log[o].tbl : o \in Live(d, "tables")}
TablesNamed(d, name) ==
  {d.log[o].tbl : o \in {p \in Live(d, "tables") : d.log[p].name = name}}
TableOf(d, t) == CHOOSE o \in Live(d, "tables") : d.log[o].tbl = t
On(d, offs, col) == {o \in offs : d.log[o].column = col}

Output(d, rec) == [d EXCEPT !.log = Append(@, rec)]

\* Mutant: a removed schema record stays in the indexes of its table
RemoveSchemaKeepsEntries(d, offs) == [d EXCEPT !.drops = @ \cup offs]

\* add_any_record to a schema table, and remove_any_record from one
AddSchema(d, rec) ==
  [Output(d, rec) EXCEPT !.live = @ \cup {NewOff(d)}]
RemoveSchema(d, offs) == [d EXCEPT !.live = @ \ offs, !.drops = @ \cup offs]

\* rename_table: a new record takes the place of the one in tables
Renamed(d, t, name, hidden) ==
  LET o == TableOf(d, t)
  IN  AddSchema(RemoveSchema(d, {o}),
                [d.log[o] EXCEPT !.name = name, !.hidden = hidden])

\* The counts of the tables after n[t] more records in each table t.  They
\* are kept in the record of the table, which is updated in place.
Counted(d, n) ==
  [d EXCEPT !.log = [o \in DOMAIN d.log |->
     IF o \in Live(d, "tables")
     THEN [d.log[o] EXCEPT !.nrows = @ + n[d.log[o].tbl]] ELSE d.log[o]]]

OfTable(d, offs, t) == Cardinality({o \in offs : d.log[o].tbl = t})

\* What a database holds, without the changes of active transactions.  The
\* next field is not part of it: it is updated in place, and a crash may leave
\* it higher than it was committed.
Contents(d, uncommitted) ==
  {[name |-> d.log[o].name,
    columns |-> {<<d.log[c].column, d.log[c].field>> :
                   c \in LiveOf(d, "columns", d.log[o].tbl)},
    indexes |-> {d.log[i].column : i \in LiveOf(d, "indexes", d.log[o].tbl)},
    records |-> {d.log[r[2]].id :
                   r \in {q \in d.rows : /\ q[1] = d.log[o].tbl
                                         /\ q[2] \notin uncommitted}}] :
     o \in Live(d, "tables")}

-----------------------------------------------------------------------------
(* Schema requests.  Writing a record of columns or data adds to the        *)
(* running checksum, one of tables or indexes does not.                     *)

Fits(n) == Len(db.log) + n <= MaxLog
Asks(request) == up /\ request \in Requests

\* a create request: add_table, add_column, add_index
CreateTable(name, col) ==
  LET t == nexttable
      table == [TablesRec(t, name) EXCEPT !.nextfield = 1]
  IN  /\ Asks("create")
      /\ Fits(3)
      /\ TN_VIEWS < t /\ t <= TN_VIEWS + MaxTables
      /\ TablesNamed(db, name) = {}
      /\ db' = AddSchema(AddSchema(AddSchema(db, table),
                 ColumnsRec(t, col, 0)), IndexesRec(t, col))
      /\ nexttable' = t + 1
      /\ sum' = TRUE
      /\ UNCHANGED <<fresh, going, up, rebuilds, saved, plain>>

\* The number for the next table is that of a system table: add_any_record
\* writes the record, cannot index it, and lists it as deleted.
CreateTableFails(name) ==
  /\ Asks("create")
  /\ Fits(1)
  /\ nexttable <= TN_VIEWS
  /\ TablesNamed(db, name) = {}
  /\ db' = [Output(db, TablesRec(nexttable, name)) EXCEPT
              !.drops = @ \cup {NewOff(db)}]
  /\ nexttable' = nexttable + 1
  /\ UNCHANGED <<fresh, going, sum, up, rebuilds, saved, plain>>

\* remove_any_table: its indexes, with all they lead to, columns and record
DropTable(t) ==
  LET parts == UNION {LiveOf(db, kind, t) :
                        kind \in {"tables", "columns", "indexes"}}
  IN  /\ Asks("drop")
      /\ db' = [RemoveSchema(db, parts) EXCEPT
                  !.rows = {r \in @ : r[1] # t}]
      /\ UNCHANGED <<nexttable, fresh, going, sum, up, rebuilds, saved, plain>>

RenameTable(t, name) ==
  /\ Asks("rename")
  /\ Fits(1)
  /\ TablesNamed(db, name) = {}
  /\ db' = Renamed(db, t, name, FALSE)
  /\ UNCHANGED <<nexttable, fresh, going, sum, up, rebuilds, saved, plain>>

AddColumn(t, col) ==
  LET o == TableOf(db, t)
      field == db.log[o].nextfield
  IN  /\ Asks("add column")
      /\ Fits(1)
      /\ On(db, LiveOf(db, "columns", t), col) = {}
      /\ db' = [AddSchema(db, ColumnsRec(t, col, field)) EXCEPT
                  !.log[o].nextfield = field + 1]
      /\ sum' = TRUE
      /\ UNCHANGED <<nexttable, fresh, going, up, rebuilds, saved, plain>>

RemoveColumn(t, col) ==
  /\ Asks("remove column")
  /\ On(db, LiveOf(db, "columns", t), col) # {}
  /\ On(db, LiveOf(db, "indexes", t), col) = {}
  /\ db' = RemoveSchema(db, On(db, LiveOf(db, "columns", t), col))
  /\ UNCHANGED <<nexttable, fresh, going, sum, up, rebuilds, saved, plain>>

\* rename_column replaces the record of the column, then that of an index on it
RenameColumn(t, old, new) ==
  LET column == On(db, LiveOf(db, "columns", t), old)
      index == On(db, LiveOf(db, "indexes", t), old)
      Replaced(d, offs) ==
        IF offs = {} THEN d
        ELSE RemoveSchema(AddSchema(d,
               [d.log[CHOOSE o \in offs : TRUE] EXCEPT !.column = new]), offs)
  IN  /\ Asks("rename column")
      /\ Fits(2)
      /\ column # {}
      /\ On(db, LiveOf(db, "columns", t), new) = {}
      /\ db' = Replaced(Replaced(db, column), index)
      /\ sum' = TRUE
      /\ UNCHANGED <<nexttable, fresh, going, up, rebuilds, saved, plain>>

AddIndex(t, col) ==
  /\ Asks("add index")
  /\ Fits(1)
  /\ On(db, LiveOf(db, "columns", t), col) # {}
  /\ On(db, LiveOf(db, "indexes", t), col) = {}
  /\ db' = AddSchema(db, IndexesRec(t, col))
  /\ UNCHANGED <<nexttable, fresh, going, sum, up, rebuilds, saved, plain>>

RemoveIndex(t, col) ==
  LET index == On(db, LiveOf(db, "indexes", t), col)
  IN  /\ Asks("remove index")
      /\ index # {} /\ index # LiveOf(db, "indexes", t)
      /\ db' = RemoveSchema(db, index)
      /\ UNCHANGED <<nexttable, fresh, going, sum, up, rebuilds, saved, plain>>

-----------------------------------------------------------------------------
(* Transactions.  Which transaction a change belongs to matters only when   *)
(* it ends, so it is chosen then.                                           *)

NewId == Cardinality({o \in DOMAIN db.log : db.log[o].kind = "data"}) + 1

AddRecord(t) ==
  LET d == [Output(db, DataRec(t, NewId)) EXCEPT
              !.rows = @ \cup {<<t, NewOff(db)>>}]
  IN  /\ up
      /\ Fits(1)
      /\ NewId <= MaxRecords
      /\ db' = Counted(d, [u \in Tables(d) |-> IF u = t THEN 1 ELSE 0])
      /\ fresh' = fresh \cup {NewOff(db)}
      /\ sum' = TRUE
      /\ UNCHANGED <<nexttable, going, up, rebuilds, saved, plain>>

RemoveRecord(t, o) ==
  /\ up
  /\ <<t, o>> \in db.rows
  /\ o \notin going
  /\ db' = Counted(db, [u \in Tables(db) |-> IF u = t THEN -1 ELSE 0])
  /\ going' = going \cup {o}
  /\ UNCHANGED <<nexttable, fresh, sum, up, rebuilds, saved, plain>>

\* A transaction made the changes creates and deletes: what it created it
\* can also have deleted, and nobody else can.
Transaction(creates, deletes) ==
  /\ up
  /\ creates \cup deletes # {}
  /\ fresh \cap deletes \subseteq creates
  /\ creates \cap going \subseteq deletes

\* write_commit_record
Committed(d, creates, deletes) ==
  [Output(d, CommitRec(creates, deletes \cup d.drops)) EXCEPT !.drops = {}]

Commit(creates, deletes) ==
  LET d == Committed(db, creates, deletes)
  IN  /\ Transaction(creates, deletes)
      /\ Fits(1)
      /\ db' = [d EXCEPT !.rows = {r \in @ : r[2] \notin deletes}]
      /\ fresh' = fresh \ creates
      /\ going' = going \ deletes
      /\ sum' = FALSE
      /\ saved' = Contents(db', fresh')
      /\ UNCHANGED <<nexttable, up, rebuilds, plain>>

Abort(creates, deletes) ==
  LET d == [db EXCEPT !.rows = {r \in @ : r[2] \notin creates}]
  IN  /\ Transaction(creates, deletes)
      /\ db' = Counted(d, [u \in Tables(d) |-> OfTable(db, deletes, u)
                                                 - OfTable(db, creates, u)])
      /\ fresh' = fresh \ creates
      /\ going' = going \ deletes
      /\ UNCHANGED <<nexttable, sum, up, rebuilds, saved, plain>>

\* shutdown(), when the active transactions have been aborted, and a start.
\* Without anything to commit it only writes session records.
Restart ==
  /\ up
  /\ fresh = {} /\ going = {}
  /\ sum \/ db.drops # {}
  /\ Fits(1)
  /\ db' = Committed(db, {}, {})
  /\ sum' = FALSE
  /\ saved' = Contents(db', {})
  /\ UNCHANGED <<nexttable, fresh, going, up, rebuilds, plain>>

-----------------------------------------------------------------------------
(* Rebuild.  The state of rebuild_copy is a record: new is the database it  *)
(* makes, old the blocks of the file it reads, deletes what the good        *)
(* commits of old delete, tr the offsets in new of the blocks of old, name  *)
(* the names of the tables by number, dropped and renamed the records of    *)
(* deleted_tbls and renamed_tbls, top is max_tblnum, and failed and alerts  *)
(* tell whether it threw an exception and whether it ignored something.     *)

Commits(log) == {i \in DOMAIN log : log[i].kind = "commit"}
LastCommit(log) == CHOOSE i \in Commits(log) : \A j \in Commits(log) : j <= i

Failed(r) == [r EXCEPT !.failed = TRUE]

Copied(r, i) == [r EXCEPT !.new = Output(@, r.old[i]),
                          !.tr = Put(@, i, NewOff(r.new))]

\* copied, and entered in the indexes of its schema table
CopiedLive(r, i) == [r EXCEPT !.new = AddSchema(@, r.old[i]),
                              !.tr = Put(@, i, NewOff(r.new))]

\* Mutant: the count of the old file stays in the record
EnterTableKeepsCount(r, o) ==
  LET b == r.new.log[o]
      clash == b.tbl \in Tables(r.new) \/ TablesNamed(r.new, b.name) # {}
  IN  [r EXCEPT !.new.live = IF clash THEN @ ELSE @ \cup {o},
                !.name = Put(@, b.tbl, b.name),
                !.top = IF b.tbl > @ THEN b.tbl ELSE @,
                !.alerts = @ \/ clash]

\* schema() for the record of a table at offset o of the new file
EnterTable(r, o) ==
  LET b == r.new.log[o]
      clash == b.tbl \in Tables(r.new) \/ TablesNamed(r.new, b.name) # {}
  IN  [r EXCEPT !.new.live = IF clash THEN @ ELSE @ \cup {o},
                !.new.log[o].nrows = 0,
                !.name = Put(@, b.tbl, b.name),
                !.top = IF b.tbl > @ THEN b.tbl ELSE @,
                !.alerts = @ \/ clash]

\* The record of a table that was renamed or dropped later: the table has to
\* exist while its indexes are made, if any of them was not dropped with it.
CopyDeadTable(r, i) ==
  [Copied(r, i) EXCEPT !.dropped = Put(@, r.old[i].tbl, NewOff(r.new))]

\* The record of a table that is in use by its name of before: rename it
CopyRename(r, i) ==
  LET b == r.old[i]
      before == r.new.log[r.renamed[b.tbl]].name
      done == [r EXCEPT !.renamed = Drop(@, b.tbl)]
  IN  CASE before = b.name -> done
        [] before # b.name /\ TablesNamed(r.new, before) # {}
                           /\ TablesNamed(r.new, b.name) = {} ->
             [done EXCEPT !.new =
               Renamed(@, CHOOSE t \in TablesNamed(r.new, before) : TRUE,
                       b.name, TRUE)]
        [] OTHER -> Failed(r)

\* Mutant: a table that was dropped is entered all the same
CopyTableDropped(r, i) == EnterTable(Copied(r, i), NewOff(r.new))

CopyTable(r, i) ==
  LET t == r.old[i].tbl
  IN  CASE i \in r.deletes -> CopyDeadTable(r, i)
        [] i \notin r.deletes /\ t \in DOMAIN r.renamed -> CopyRename(r, i)
        [] OTHER -> EnterTable([Copied(r, i) EXCEPT !.dropped = Drop(@, t)],
                               NewOff(r.new))

\* Mutant: a column that was removed is entered all the same
CopyColumnRemoved(r, i) == CopiedLive(r, i)

CopyColumn(r, i) ==
  LET b == r.old[i]
  IN  CASE i \in r.deletes -> Copied(r, i)
        [] i \notin r.deletes
           /\ On(r.new, LiveOf(r.new, "columns", b.tbl), b.column) # {} -> Failed(r)
        [] OTHER -> CopiedLive(r, i)

\* recover_index, for a table and column there are and a new index
Recoverable(d, b) ==
  /\ b.tbl \in Tables(d)
  /\ On(d, LiveOf(d, "columns", b.tbl), b.column) # {}
  /\ On(d, LiveOf(d, "indexes", b.tbl), b.column) = {}

CopyIndex(r, i) ==
  LET b == r.old[i]
      r1 == IF b.tbl \in DOMAIN r.dropped
            THEN [EnterTable(r, r.dropped[b.tbl]) EXCEPT
                    !.renamed = Put(@, b.tbl, r.dropped[b.tbl]),
                    !.dropped = Drop(@, b.tbl)]
            ELSE r
  IN  CASE i \in r.deletes -> Copied(r, i)
        [] i \notin r.deletes /\ Recoverable(r1.new, b) -> CopiedLive(r1, i)
        [] OTHER -> r1

\* Mutant: a record that was deleted later is entered all the same
WantedDeleted(r, creates) ==
  {o \in creates : r.old[o].tbl \in DOMAIN r.name}

\* the created records to enter: not deleted later, and of a table there is
Wanted(r, creates) ==
  {o \in creates \ r.deletes : r.old[o].tbl \in DOMAIN r.name}

\* The records that a commit created are entered in the indexes there are at
\* this point of the table that has, at this point, the name of their table.
CopyCommit(r, i) ==
  LET b == r.old[i]
      Image(offs) == {r.tr[o] : o \in offs}
      d == Output(r.new, CommitRec(Image(b.creates), Image(b.deletes)))
      wanted == Wanted(r, b.creates)
      Target(o) == TablesNamed(r.new, r.name[r.old[o].tbl])
      Into(u) == {o \in wanted : u \in Target(o)}
      Indexed(u) == LiveOf(r.new, "indexes", u) # {}
      entries == UNION {{u} \X Image(Into(u)) :
                          u \in {t \in Tables(r.new) : Indexed(t)}}
  IN  IF ~ (b.creates \cup b.deletes \subseteq DOMAIN r.tr)
      THEN Failed(r)
      ELSE [r EXCEPT
              !.new = Counted([d EXCEPT !.rows = @ \cup entries],
                              [u \in Tables(d) |-> Cardinality(Into(u))]),
              !.tr = Put(@, i, NewOff(r.new)),
              !.alerts = @ \/ \E o \in wanted : Target(o) = {}]

Hidden(b) == b.kind = "tables" /\ b.hidden

CopyBlock(r, i) ==
  LET b == r.old[i]
  IN  CASE r.failed \/ Hidden(b) -> r
        [] ~ r.failed /\ b.kind = "data" -> Copied(r, i)
        [] ~ r.failed /\ b.kind = "tables" /\ ~ b.hidden -> CopyTable(r, i)
        [] ~ r.failed /\ b.kind = "columns" -> CopyColumn(r, i)
        [] ~ r.failed /\ b.kind = "indexes" -> CopyIndex(r, i)
        [] ~ r.failed /\ b.kind = "commit" -> CopyCommit(r, i)

EmptyMap == [x \in {} |-> x]
EmptyDb == [log |-> <<>>, live |-> {}, rows |-> {}, drops |-> {}]

Deleted(log) == UNION {log[i].deletes : i \in Commits(log)}

NothingCopied(log) ==
  [new |-> EmptyDb, old |-> log, tr |-> EmptyMap, name |-> EmptyMap,
   deletes |-> Deleted(log), dropped |-> EmptyMap, renamed |-> EmptyMap,
   top |-> 0, failed |-> FALSE, alerts |-> FALSE]

Replayed(log) ==
  LET r[i \in 0..Len(log)] ==
        IF i = 0 THEN NothingCopied(log) ELSE CopyBlock(r[i - 1], i)
  IN  r[Len(log)]

Offsets == DOMAIN db.log

\* What belongs to the table whose record is at o, until its number is used again
Parts(log, kind, o) ==
  {p \in DOMAIN log :
     /\ o < p /\ log[p].kind = kind /\ log[p].tbl = log[o].tbl
     /\ \A q \in o + 1 .. p : log[q].kind = "tables" => log[q].tbl # log[o].tbl}

\* The record at o was written for a new table: what had its number before was
\* dropped by a commit before.  The record of a renamed table is not.
Made(log, o) ==
  /\ log[o].kind = "tables" /\ log[o].tbl > TN_VIEWS
  /\ \A q \in 1 .. o - 1 :
       log[q].kind = "tables" /\ log[q].tbl = log[o].tbl =>
         \E c \in Commits(log) : c < o /\ q \in log[c].deletes

\* No table in the file has been renamed, and no index removed, or replaced by
\* one on the new name of its column, but with its table.  Of these a rebuild
\* does not know enough.
Plain(log) ==
  \A o \in DOMAIN log :
    log[o].kind = "tables" /\ log[o].tbl > TN_VIEWS =>
      /\ Made(log, o)
      /\ \A p \in Parts(log, "indexes", o) : o \in Deleted(log) <=> p \in Deleted(log)

\* The process ends without a shutdown.  What is after the last good commit
\* in the file is not looked at again.
Crash ==
  /\ up
  /\ up' = FALSE
  /\ db' = [EmptyDb EXCEPT !.log = SubSeq(db.log, 1, LastCommit(db.log))]
  /\ fresh' = {}
  /\ going' = {}
  /\ sum' = FALSE
  /\ UNCHANGED <<nexttable, rebuilds, saved, plain>>

\* The next start rebuilds the file.  Closing the new one commits what the
\* rebuild itself removed.
Rebuild ==
  LET r == Replayed(db.log)
  IN  /\ ~ up
      /\ rebuilds < MaxRebuilds
      /\ ~ r.failed
      /\ db' = IF r.new.drops = {} THEN r.new ELSE Committed(r.new, {}, {})
      /\ nexttable' = r.top + 1
      /\ up' = TRUE
      /\ rebuilds' = rebuilds + 1
      /\ UNCHANGED <<fresh, going, sum, saved>>
      /\ plain' = (plain /\ Plain(db.log))

-----------------------------------------------------------------------------
FirstDb(name, col) ==
  LET t == TN_VIEWS + 1
      d == AddSchema(AddSchema(AddSchema(EmptyDb,
             [TablesRec(t, name) EXCEPT !.nextfield = 1]),
             ColumnsRec(t, col, 0)), IndexesRec(t, col))
  IN  Committed(d, {}, {})

\* a table has been made, and the database shut down and opened again
Init ==
  /\ \E name \in Names, col \in Columns : db = FirstDb(name, col)
  /\ nexttable = TN_VIEWS + 2
  /\ fresh = {}
  /\ going = {}
  /\ sum = FALSE
  /\ up = TRUE
  /\ rebuilds = 0
  /\ saved = Contents(db, {})
  /\ plain = TRUE

SchemaRequest ==
  \/ \E name \in Names :
       \/ \E col \in Columns : CreateTable(name, col)
       \/ CreateTableFails(name)
  \/ \E t \in Tables(db) :
       \/ DropTable(t)
       \/ \E name \in Names : RenameTable(t, name)
       \/ \E col \in Columns :
            \/ AddColumn(t, col)
            \/ RemoveColumn(t, col)
            \/ AddIndex(t, col)
            \/ RemoveIndex(t, col)
            \/ \E new \in Columns : RenameColumn(t, col, new)

DataRequest ==
  \/ \E t \in Tables(db) : AddRecord(t)
  \/ \E r \in db.rows : RemoveRecord(r[1], r[2])
  \/ \E creates \in SUBSET fresh, deletes \in SUBSET going :
       Commit(creates, deletes) \/ Abort(creates, deletes)

Next == SchemaRequest \/ DataRequest \/ Restart \/ Crash \/ Rebuild

Spec == Init /\ [][Next]_vars

-----------------------------------------------------------------------------
(* Properties *)

\* Every offset that is kept anywhere is that of a record of the right kind.
TypeOK ==
  /\ Len(db.log) <= MaxLog + rebuilds
  /\ \A o \in db.live : db.log[o].kind \in {"tables", "columns", "indexes"}
  /\ \A r \in db.rows : r[1] \in Tables(db) /\ db.log[r[2]].kind = "data"
  /\ db.drops \subseteq Offsets \ db.live
  /\ fresh \cup going \subseteq {o \in Offsets : db.log[o].kind = "data"}
  /\ nexttable \in 1 .. TN_VIEWS + MaxTables + 1
  /\ rebuilds \in 0 .. MaxRebuilds
  /\ sum \in BOOLEAN /\ up \in BOOLEAN

\* A rebuild of a file that is Plain, as were those rebuilt before, restores what
\* the last commit record committed: the tables with their names, fields, columns
\* and indexes, and the records in them.
RebuildRestores ==
  [][rebuilds' # rebuilds /\ plain /\ Plain(db.log) => Contents(db', {}) = saved]_vars

\* A crash leaves a file that a rebuild gets through, without ignoring anything,
\* which the tests of recover.cpp take as a failure; again, if it is Plain, as
\* were those rebuilt before.
RebuildIgnoresNothing ==
  ~ up /\ plain /\ Plain(db.log) => ~ Replayed(db.log).failed /\ ~ Replayed(db.log).alerts

\* What the record of a table says of it is true, through requests, crashes and
\* rebuilds of Plain files, that write it anew: the count is that of the records its indexes
\* lead to, counting out those that active transactions removed (check_indexes),
\* no two columns are stored in the same field, and the next field is free.
SchemaRecordsTrue ==
  plain => \A o \in Live(db, "tables") :
    LET t == db.log[o].tbl
        columns == LiveOf(db, "columns", t)
    IN  /\ db.log[o].nrows =
             Cardinality({r \in db.rows : r[1] = t /\ r[2] \notin going})
        /\ \A c1 \in columns :
             /\ db.log[c1].field < db.log[o].nextfield
             /\ \A c2 \in columns \ {c1} : db.log[c2].field # db.log[c1].field

\* The first rebuild of a file that is not Plain still never brings back a record
\* that was deleted, nor one whose transaction had not committed.  A second one
\* may bring back what the first has lost.
RecordsIn(contents) == UNION {c.records : c \in contents}
RebuildInventsNothing ==
  [][rebuilds' # rebuilds /\ plain =>
       RecordsIn(Contents(db', {})) \subseteq RecordsIn(saved)]_vars

-----------------------------------------------------------------------------
(* What the code says of itself and does not do *)

\* recover.cpp:681 "verify(!alerts);", the tests of recover.cpp about a file in
\* which a table has been renamed.
RenamesAreRebuilt == ~ up => ~ Replayed(db.log).failed /\ ~ Replayed(db.log).alerts
=============================================================================
