# A verification project for cSuneido

cSuneido is a language runtime with its own transactional database and a
client-server protocol. This directory holds TLA+ models of its core, the TLC
configurations that check them on small instances, and TLAPS proofs of the
results that matter most for every value of the constants. Paths are relative
to the root of the repository; `file.cpp:n` is a line of `src/file.cpp`.

## The system and its parts

| component | state it keeps | operations | what is hard |
|---|---|---|---|
| Transactions (`transaction.cpp`) | `clock`, `trans`, `final`, `created`, `deleted`, `schema_deletes`, `cksum` | `transaction`, `create_act`, `delete_act`, `undo_delete_act`, `read_act`, `commit`, `abort`, `finalize`, `shutdown` | any interleaving of the requests of several transactions; when a version may be forgotten |
| Records and indexes (`database.cpp`, `index.cpp`) | the records in the file, an index per key, `nrecords` and `totalsize` per table | `add_any_record`, `update_record`, `remove_record`, `Index::insert`, index iterators | an index holds entries of all transactions; a failing statement undoes its half |
| B-tree (`btree.h`) | nodes of slots, linked leaves, `modified` | `insert` with splits, `erase` with unlinking, iterators | iterators live on across splits and erases |
| Database file (`mmfile.cpp`) | blocks in a memory mapped file, its size | `alloc`, `unalloc`, iterators both ways | chunks, filler blocks, a damaged end |
| Recovery (`recover.cpp`) | data, commit and session records with a running checksum | `check_shutdown`, `docheck`, `check_indexes`, `rebuild` | a crash at any point, pages written in any order |
| Schema (`database.cpp`) | `tables`, `columns`, `indexes` records and the `Tables` cache | `add_table`, `add_index`, `remove_table`, `rename_table` ... | not transactional, done while transactions are active |
| Foreign keys, triggers | `fksrc`, `fkdsts` | blocks and cascades inside a statement | a cascade that fails half way |
| Fibers (`fibers.cpp`) | 32 fibers, their status, a round-robin index | `create`, `yield`, `block`, `unblock`, `sleep`, `end` | lost wake-ups, starvation, the limit |
| Sockets (`sockets.cpp`) | an overlapped read and write per connection | `read2`, `recv`, `write`, `close`, completion routines | a completion may come before, while or after a fiber blocks |
| Database server (`dbserver.cpp`, `dbserverdata.cpp`) | connections with their transactions, queries and cursors | 40 commands, destructor, `kill_connections` | a connection lost in the middle of transactions |
| Authorization, timestamps | tokens, nonce; the last timestamp | `auth`, `token`, `timestamp` | use once; strictly increasing |
| Compact, dump, load | a read-only transaction and a second database | `copy_records`, `create_indexes` | yields to other fibers in the middle |
| Queries, language runtime, user interface, vendored code | | | sequential, or input and output |

How they interact. A client's request reaches `DbServer::run` on a fiber of its
own; fibers are cooperative and one thread runs them all, so a database
operation (an insert, a commit, one step of an iterator) runs to its end before
another starts. Fibers yield between the rows of a query, between interpreter
steps and at socket reads, so requests of different transactions interleave
freely. A statement calls `update_record` and its kin, these record acts with
the transaction and enter keys in B-trees; `commit` validates, writes a commit
record to the file and finalizes; `abort` undoes. When the server stops it
aborts what is left and writes a SHUTDOWN record; without one the next start
rebuilds the file from its records. When a connection ends its destructor
aborts the transactions it started.

What makes each part correct:

- Transactions: each sees a snapshot with its own changes; commits are
  serializable; a key is unique among the committed records; no bookkeeping is
  lost or left over.
- Recovery: a rebuilt database is what some prefix of the commits made, never
  half of one.
- B-tree: it is the sorted set of its keys, and an iterator passes every key
  that stays in the tree exactly once.
- Fibers and sockets: a fiber that can run does, the fiber that was unblocked
  last runs next, no live fiber is deleted; a fiber whose input has come, or
  whose connection is gone, runs again.
- Server: what a connection started is ended with it, and its handle and fiber
  are its own.
- Schema and foreign keys: what the records say of a table is true of it, and no
  line is without its parent.

`PROJECT.json` lists the hazards, each at the line where it bites, and the
properties that cover them.

## Modules

| module | what it is |
|---|---|
| `Tran` | the transactions of one table: `transaction.cpp` with the record operations of `database.cpp` and what `index.cpp` reads |
| `SnapshotDb` | what those transactions promise: each works on a copy of the table |
| `TranRefines` | `Tran` implements `SnapshotDb`, by a refinement mapping |
| `TranProofs` | the theorems about `Tran`: its bookkeeping, what transactions see and commit, and that it implements `SnapshotDb` |
| `Rebuild` | the database file as a log: schema requests and commits write it, `rebuild_copy` replays it |
| `RebuildProofs` | the theorems about `Rebuild`: what requests, crashes and the replay leave, block by block, and that a rebuild restores what was committed |
| `Recovery` | the database file across crashes, losses of power and the steps of a rebuild: `recover.cpp`, `mmfile.cpp`, start and shutdown |
| `RecoveryProofs` | the theorems about `Recovery`: what is recovered is whole, and it is what was committed |
| `Fibers` | the cooperative scheduler: `fibers.cpp`, and `Synchronized` |
| `FibersProofs` | the theorems about `Fibers` |
| `AsyncServer` | the life of a client connection: the asynchronous sockets of `sockets.cpp` and the request loop of `dbserver.cpp`, composed with `Fibers` |
| `AsyncServerProofs` | the theorems about `AsyncServer` |
| `SortedIndex` | what an index promises: a sorted set with a cursor that is not disturbed |
| `Btree` | the B-tree of `btree.h` with its iterator, and the refinement mapping to `SortedIndex` |
| `BtreeSplitProofs`, `BtreeProofs` | the theorems about `Btree`: the invariant, searches and splits; then erases, the iterator and the refinement |
| `Fkey` | foreign keys with their cascades and triggers, in concurrent transactions |
| `FkeyProofs` | the theorems about `Fkey` |
| `MCTran`, `MCTranRefines`, `MCRebuild`, `MCRecovery`, `MCFibers`, `MCAsyncServer`, `MCBtree`, `MCFkey` | small instances for TLC |

Two modules compose others: `TranRefines` puts `SnapshotDb` on top of `Tran`, and
`AsyncServer` extends `Fibers`, so that each of its steps that blocks, unblocks,
creates or ends a fiber is a step of the scheduler. `Btree` stands below `Tran`
and `Fkey`, which take an index for what `SortedIndex` says; `Recovery` below
`Rebuild`, which starts from the good part of a file.

### Tran

One table with one index, a key. A record is the value of its key column: two
records with the same key and other fields are told apart by their offset in the
file only, which is all the concurrency control looks at.

| variable | code |
|---|---|
| `clock` | `Database::clock`, from 1 at every start |
| `trans` | `Database::trans`; of a `Transaction` its type, `asof`, the offsets of its CREATE and DELETE acts, the keys its reads cover, and whether `conflict` is set |
| `final` | `Database::final` |
| `created`, `deleted` | the hash maps of the same name |
| `index` | the offsets with an entry in the B-tree of the key |
| `file` | the records `output()` has written, in order |
| `nrecords` | `Tbl::nrecords` |
| `born`, `died` | not in the code: when a version's creation and deletion were committed. They remember what finalization forgets, and only properties (and one guard, below) read them |

| action | code |
|---|---|
| `Begin` | `transaction()`: even numbers are read-only, odd ones update |
| `Read` | an iterator of an update transaction with the range it covered, kept as the set of keys in the range; a transaction with a conflict never validates, so its reads are forgotten |
| `Add`, `AddDuplicate` | `add_any_record`, with and without a duplicate key; the duplicate check is itself a read |
| `Remove`, `Update`, `UpdateDuplicate` | `remove_record`, `update_record`; the duplicate case takes back the delete act |
| `WriteConflict` | the failing branch of `delete_act`, reached by a remove or an update: `conflict` is set, `asof` becomes FUTURE and `finalize()` runs |
| `CommitUnchanged`, `CommitUpdate`, `CommitFails` | the three ways through `commit()`, each with `finalize()` |
| `Abort` | `abort()` with its undo of index entries and record count, and `finalize()` |
| `Restart` | a shutdown without transactions (`shutdown()` aborts the others first, by the same `Abort`) and the next start |

A client names a record by an address it got from a query, so `Remove`,
`Update` and `WriteConflict` take an offset whose key the transaction has read
and that it sees, has deleted itself, or (once in conflict) saw. Only there the
guard `Holds` looks at the history, for a transaction that can do nothing but
abort.

### SnapshotDb and TranRefines

`SnapshotDb` has no times, no offsets and no maps: `Start` copies the table,
statements change the copy and note the keys they looked at, and `Commit` merges
the changes if those keys hold in the table what they held in the copy at the
start. `TranRefines` maps `Tran` to it: the table is the committed records, the
copy is what `visible()` shows. A transaction with a write conflict is already
cancelled in the abstract specification, whatever it still does.

### Rebuild

Schema requests are not transactional: `add_table`, `rename_table` and their kin
write records to `tables`, `columns` and `indexes` and remove others at once,
and what they removed is listed in the next commit record, whoever commits. The
indexes are not in the log. After a crash `rebuild_copy` reads the file once,
from its begin to the last good commit, and makes schema and indexes anew while
it copies. Names, columns and indexes at the time of a commit must be inferred
from what was deleted later; that is what this module is about.

| variable | code |
|---|---|
| `db.log` | the blocks of the file: MM_DATA (schema or data records), MM_COMMIT, and MM_OTHER (`hidden`) |
| `db.live` | the schema records that the indexes of `tables`, `columns` and `indexes` lead to |
| `db.rows` | the entries of the indexes of user tables, as pairs of table number and offset |
| `db.drops` | `schema_deletes` |
| `nexttable` | `Dbhdr::next_table` |
| `fresh`, `going` | the creates and deletes of the active transactions |
| `sum` | whether the running checksum differs from its start value, the condition under which `shutdown` writes a commit record |
| `up`, `rebuilds` | whether the server runs; how often it was rebuilt |
| `saved` | not in the code: what the database held as of the last commit record, with the active transactions left out |
| `plain` | not in the code: whether every file that was rebuilt so far was `Plain` (see Runs) |

| action | code |
|---|---|
| `CreateTable`, `CreateTableFails`, `DropTable`, `RenameTable`, `AddColumn`, `RemoveColumn`, `RenameColumn`, `AddIndex`, `RemoveIndex` | the requests of `database.cpp`; a `create` is `add_table`, `add_column` and `add_index` in one, as the parser of requests calls them |
| `AddRecord`, `RemoveRecord`, `Commit`, `Abort` | what update transactions do to the file and the counts; which transaction an act belongs to matters only when it ends and is chosen then |
| `Restart` | a clean `shutdown`, which commits what no transaction has, and a start |
| `Crash` | the process ends; only the blocks up to the last good commit count from then on |
| `Rebuild` | `rebuild_copy` with `schema` and `recover_index` (operators `CopyBlock` and below), and the shutdown of the new database |

`Replayed` takes the blocks one by one with `CopyBlock`. Its state is a record with the new
database and the maps of `rebuild_copy` (`tr`, `name` for `tblnames`, `dropped`
for `deleted_tbls`, `renamed` for `renamed_tbls`, `top` for `max_tblnum`); an
exception that nobody catches sets `failed`, a caught one `alerts`. An offset
without a translation fails the `verify` in `Translate`; a lookup beyond the end
of its vector reads what happens to be there and is taken to fail too. A table's
`nrows` and `nextfield` are in its record and updated in place, so that a crash
does not take them back; hence `Contents` leaves `nextfield` out.

One index is on one column, all indexes of a table lead to the same records, and
keys are distinct. Views, rule columns, foreign keys, and the nodes of the
B-trees (hidden blocks too) are left out. The bounds stop requests, so that
these runs do not check deadlock.

### Recovery

`Rebuild` is about what the records say; `Recovery` is about which of them
survive. The file is a sequence of blocks with the kinds of their headers. A
block is whole, garbled (its content is wrong) or bad (its header or trailer is
wrong, so that nothing behind it can be read), and it is on disk or not yet.

| variable | code |
|---|---|
| `main`, `tmp` | `suneido.db`, and the file `rebuild_copy` makes |
| `bak` | the commits in `suneido.db.bak`, which no code reads |
| `pc` | whether a database is open, and between which steps of `rebuild()` a process is |
| `opened` | how long the file was when it was opened: what is behind is in chunks that this process has mapped, and flushed by it |
| `fresh` | CREATE acts of the active transactions |
| `sum` | `Database::cksum`, as the set of the blocks it is of |
| `losses` | not in the code: how often the power was lost, a bound |
| `commits`, `log`, `synced`, `damaged` | not in the code: the commits made, those made and not given up, those that were on disk with all of the file, and whether power was lost since the last rebuild |

| action | code |
|---|---|
| `Start` | `Database::Database` of a file whose last block is a SHUTDOWN record: it writes STARTUP and flushes |
| `Output`, `OutputOther` | `output()` of a data record; an index node or another block without a checksum |
| `Commit` | `write_commit_record`: the transaction's creates, and the checksum of everything since the last commit record |
| `Sync` | the flush of the timer, once a minute |
| `Shutdown` | `shutdown()`, with and without a last commit record, and the end of the process |
| `Crash` | the process dies; a block may be half written |
| `PowerLoss` | of what was not flushed any block may be garbled, one may be bad, and the size may be that of an earlier time |
| `Copy`, `RemoveBak`, `MoveMain`, `MoveNew` | the steps of `rebuild()`: copy up to the last good commit, remove the backup, and the two renames |

`Kept` is what `docheck` finds: it reads from the begin, stops at a bad block
and after a commit that is not good, and the last good commit is where a rebuild
cuts the file. `CheckShutdown` looks at the last block and nothing else, which
is why `CheckIsRight` has something to say.

A checksum is the set of its blocks and distinguishes any two sets; collisions
are ignored. Records of `tables` and `indexes` are not in the checksum in the
code (recover.cpp:170), and damage to them is not modelled. An abort writes
nothing. Positions are kept in a copy: where an old index node stood there is a
new one. The new file of an unfinished rebuild has a random name and is lost.
Renames succeed. What is behind a bad block is not read, so one is enough.

### Fibers

| variable | code |
|---|---|
| `cur`, `fi` | the fiber that has the thread; where `yield` goes on looking |
| `status` | `Fiber::status` of each slot, READY, BLOCKED or REUSE |
| `fiber` | the slots with a Windows fiber: an ended one keeps it until `deleteFiber` |
| `asleep` | the slots whose `sleep_until` is in the future |
| `sync` | the slots inside `Synchronized`, where `yieldif` does nothing |
| `leaked` | Windows fibers that `create` made before it found no slot |

`RunNext` and `RunNone` are the two ways through `yield` of the main fiber, with
the round robin and the clean-up of ended slots it passes. `YieldIf`, `Sleep`,
`Block` and `End` are the four ways a background fiber gives the thread back;
`Unblock`, `Create` and the two ways in which `create` throws, `CreateFails` at the
limit and `NoResources`, may happen under any fiber, since completion routines call
them. `FairSpec` assumes that the message loop comes back to
`yield` (weak fairness of `RunNext`), that a fiber gives up the thread again and
again (strong fairness of `GiveUp`, for it cannot do so while it is inside
`Synchronized`, and weak fairness of `LeaveSync`: the destructor of `Synch` leaves
it), and that time passes (`Wake`). The interpreter and the table reads call
`yieldif`, and whatever else takes long blocks or sleeps, so the code justifies
it; that a language program loops for ever inside `Synchronized` is excluded.
Unblocks move `fi` back: `NoStarvation` says what is true, that no fiber starves
once they stop.

### AsyncServer

There is one thread, and the kernel. Completion routines run only when the
thread waits alertably, and `SleepEx` is called by the message loop and by
`read2`, `write`, `close` and `yieldif`; `close` is called by completion routines,
so that routines run inside routines. `frames` is that nesting, `done` the queue
of completions, and a step of a fiber is possible only with no frame open.

Two completion routines can throw: `afterRecv`, when it receives again and
WSARecv fails at once (sockets.cpp:558-559, 579), and `finishAccept`, when `create`
finds no slot or no resources (fibers.cpp:176, 168). Nothing in them catches it,
and the calls it leaves are those of whatever fiber ran the `SleepEx`: another
connection's read or write ends in the exception with its own operation
outstanding, a `close` inside a routine leaves its socket open and its fiber
unwoken, a command is answered with it, KILL swallows it, a destructor terminates
the process, and out of the message loop it ends the process as well. `thrown`
is that, `Down` the end of the process.

| variable | code |
|---|---|
| `gone`, `left`, `asked`, `net` | the clients, and the bytes on their way |
| `os`, `rcv`, `snd`, `done` | the kernel: open handles, how many receives and sends are outstanding on a connection, queued completions |
| `sock`, `required`, `got`, `blocked` | members of `SocketConnectAsync` |
| `phase`, `back`, `slot`, `have` | where the fiber of a connection is in `DbServer::run`, the constructor or the destructor; the read buffer |
| `thrown` | an exception is on its way out of `frames` |
| `struck` | not in the code: the connections an exception has cut a read, write or close of |
| `servers`, `tran` | `dbservers`; the connections with a transaction open |
| `short`, `garbled` | not in the code: reads that returned less than was asked, and requests executed with a part missing |

| action | code |
|---|---|
| `Connect`, `FinishAccept`, `AcceptFails` | the acceptor's thread queues `finishAccept`, which makes a fiber; or the socket is no good, or `create` throws |
| `ClientSends`, `ClientLeaves`, `RecvEnds`, `SendEnds` | clients and kernel, at any time |
| `IoFailed`, `IoFailedClosed`, `AfterSend`, `AfterRecv`, `AfterRecvThrows` | the completion routines; a failure closes the socket, in which other routines may run, and then unblocks; a receive that goes on in vain throws |
| `UnwindClose`, `UnwindIo`, `UnwindCommand`, `UnwindDestructor`, `Stopped` | the exception leaves the innermost call: a `close` in a routine, a read or write, KILL or a command in `yieldif`, the destructor; the process has ended |
| `WriteNow`, `WriteLater`, `WriteThrows`, `Written`, `Ends` | `write` and what follows, for the greeting and for replies; `Ends` when the greeting threw |
| `Read`, `ReadThrows`, `SleepReturns`, `PollBlocks`, `LostConnection`, `GotCommand`, `GotArgument`, `GotLess` | `read2` and `Connection::need`, `read`: a read that completes at once, in the poll, later, or never |
| `Execute`, `ExecuteYields`, `YieldSlept`, `Kill`, `Killed` | a request: it begins or ends a transaction, may yield, or is KILL |
| `Destroy`, `Destroyed` | the destructor, around the `SleepEx` of its `close` |
| `MainYields` | the message loop, and with it `Fibers!RunNext` and `RunNone` |

The kernel gives a closed handle to the next connection (the least two things
that could be confused). A request is one byte for the command and `ArgLen` for
its argument, and arrives in any pieces. `SFairSpec` assumes that the thread goes
on (`ThreadStep`), that a fiber which gets the thread again and again does
something other than yield (`FiberStep`, strong since other steps disable it in
between), and that the kernel hands over what has come, what was lost with the
client, and what failed with a closed handle. Of the clients nothing is assumed:
one that neither sends nor leaves keeps its fiber blocked in a read, and one that
does not take its answer (`ClientIsDeaf`) in a write, each for as long as it likes;
the send of a client that stays ends only if it ends.

### Btree and SortedIndex

Nodes by address, `root`, `levels` (`treelevels`), `nnodes`, and one iterator:
its leaf, its entry and whether `valid` still equals `modified`. `InsertFits`,
`InsertSplits`, `EraseKey` and `EraseLeaf` are the ways through `insert` and
`erase`; a split and the unlinking of a leaf are folded up the path from the leaf
to the root, as the loops of the code are. `InsertFails` is a `verify` of a split
that fails, after which the model stops (see below). `Increment` and `Decrement`
seek again when the iterator is stale; `Locate` and `ToLast` place it. Entries
have sizes (`Size`), nodes a capacity in the same unit.

`Index` is the instance of `SortedIndex`: the entries of the leaves, and the
iterator's key. `ImplementsIndex` says that every step of the tree is a step of a
sorted set or leaves it alone, and that the iterator goes to the next greater or
smaller entry whatever was inserted, erased, split and unlinked in between.

### Fkey

Two tables: parents with the keys `id` and `name`, lines with the key `no` and
the index `pid` that refers to `id`. A statement is one action; inside it a state
(`file`, the transaction, `failed`) is handed from operator to operator in the
order of the code: `Referring` (`fkey_source_block`), `Dereferring`
(`fkey_target_block`), its loops over lines (`OverLines`, a function of the offset
the iterator has come to, with `Passed` for one of its steps), `DeleteAct`,
`Entered` with a duplicate check for each key (`Checked`), `Replaced` with its undo,
and the trigger. What a failure leaves behind is therefore what the
code leaves behind, and the transaction may still commit.

One action is enough for a statement although a trigger runs language code
(usertrigger.cpp:45) that may yield, so that requests of other transactions can
come between two records of a cascade. What the statement reads is the snapshot
of its transaction, which they do not change; a version that they delete first is
a write conflict (`Taken`), after which the transaction cannot commit, whichever of
its records met it; and the reads and acts are compared with theirs at the commit,
not before. A request that comes in the middle is therefore seen as if it had come
before the statement or after it. A yield between the steps of `add_index` is not
covered: it has none.

Transactions are what `Tran` implements, in fewer variables: a `view` of the
versions at the start, `creates`, `deletes`, `reads` as pairs of an index and a
value, and `since`, the acts committed meanwhile. `AddForeignKey` is `add_index` as
`schema_tran`, to which all entries are visible; when `nrecords` is 0 it looks at
none (database.cpp:244), though an abort may bring back lines that a transaction
had removed (`Counted`). The new index then lacks their entries; in the model it
has them, and the ids they refer to are in `loose`. A trigger throws, or rewrites
another line in the same transaction. `loose` is history: the ids for which one of
three known gaps was met (below), so that `ReferencesHold` is about everything
else. It never shrinks: an id stays excused also when the transaction that met the
gap is aborted, or the line is gone. `Entered` looks for all keys of a record
before it enters the first, where the code enters one after the other and takes
them out again when a later one is a duplicate; a record entered by half is
therefore not a state of this module, and what it checks of a failed update is
that the deletion of the old record is undone.

## Runs

| run | instance | what it shows |
|---|---|---|
| `tran` | 2 keys, 3 record versions, clock below 6 | eight properties of `Tran`, below |
| `tran_refines` | 2 keys, 2 versions, clock below 6 | `ImplementsSnapshotDb` |
| `rebuild` | 2 names, 2 columns, 9 blocks, 2 tables, 2 records, 2 rebuilds, every request | a rebuild restores what was committed, ignores nothing and brings nothing back |
| `rebuild_rename` | the same with the requests that matter | a disagreement with the tests, below |
| `recovery` | 8 blocks, one loss of power | six properties of `Recovery`, below |
| `fibers` | a main fiber and three slots | the invariants of the scheduler, and that no fiber starves |
| `server` | 2 connections, 2 background fibers, 2 handles | what a connection owns, and what is left when it ends |
| `server_live` | 2 connections, 1 background fiber | requests are answered, a lost client is noticed |
| `server_lost` | 1 connection | a disagreement with a comment, below |
| `btree` | 6 keys, one of them large, nodes of 2 units | the tree is sound and a sorted set |
| `fkey` | 2 parents, 2 lines, 2 clients, 6 versions, 2 statements | references hold and keys are unique |
| `fkey_trigger` | the same | a disagreement with a comment, below |

The properties of `tran`: `CreatedMatchesActs` and `DeletedMatchesActs` (the two
maps are exactly the acts, so no `verify()` on them fails), `SnapshotRead`,
`Serializable`, `UniqueKeys`, `IndexAndCount` (the index entries are those of
the versions that may be seen, the record count that of the committed records
and the changes under way), `FinalIsExact` (a commit is in `final` if some active
transaction started before it, and only then) and the type invariant `TypeOK`. Each property of this and of the other runs has a mutant, an operator of the model changed
the way a slip in the code would, under which TLC finds it violated.

Bounds. `MaxClock` 6 lets three transactions overlap, two of them updates, with
a commit of one between the start and the commit of another, or one update and
two commits before it; the anomalies of two-transaction conflicts, of a
finalization with an older reader and of a conflict with a transaction already
in `final` all happen within it, as the mutants show. `MaxOff` 3 bounds the
records ever written: two to start with and one update, or one and two new
versions of the same key. `tran` starts with at least one record
(`MinRecords`), which keeps it short; `tran_refines` starts from the empty
table too. Two keys are what a range needs to hold one and miss
the other. Deadlock is checked in these runs.

`MaxLog` 9 leaves five blocks after the first table and its commit: a second
table (3) with a record and its commit, or a dropped and remade table of the
same name, or a column, a record, and two commits. Two rebuilds are what it takes
to see that the file a rebuild leaves is a log as good as the first. Renames and
removed indexes are requests of the run too; where the code does not rebuild them
rightly (below), the properties hold under `Plain` only: no table in the file was
renamed, and no index removed, or replaced because its column was renamed, but
with its table. Columns may be added, removed and renamed, and the numbers of
dropped tables used again. A rebuild of
another file may leave one that is `Plain` and has lost records, so that the files
rebuilt before must have been `Plain` too, which `plain` remembers.
`RebuildInventsNothing` needs no more than that: the file may be any, the ones
rebuilt before it not. With 12 blocks, requests to create, drop and rename only
and three rebuilds, TLC found the trace that made this clear (a table is renamed,
a record committed and lost by a rebuild; a second rebuild skips the hidden record
of the rename, and the record is back), and, with `plain` in the properties, no
other in a search of eleven million states that was not finished; nor one in
twelve million with requests for columns, indexes and renames only.

The properties of `recovery`: what a check keeps is whole (`KeptAreIntact`) and a
prefix of the commits, all of them if no power was lost (`KeptCommits`); if none
was, the check of the last block agrees with a check of everything
(`CheckIsRight`), and at each step of a rebuild the commits are in the database
or its backup (`SomeFileHasThem`); commits that were on disk with the rest of the
file survive a loss of power (`SyncedKept`); and `TypeOK`. `MaxBlocks` 8 leaves
five blocks after the three of a loaded file: the STARTUP of a start, then two
transactions with a record and a commit record each, or with what one of them
created before the commit record of the other. With one loss of power, there
are crashes and rebuilds before and after it, without limit: the copy of a
rebuild has the length of the good part of the file and a SHUTDOWN. Deadlock is
not checked: when the file is full, and when a process dies between the two
renames, no step is left. In the second case it is the code that stops: with no
`suneido.db` a server does not start and a rebuild finds nothing. What is left
then is for an operator to rename, and `SomeFileHasThem` says that it is
enough.

`fibers`: three slots are what it takes for two fibers to unblock each other past
a third, for a sleeping and an ended one beside a ready one, and to meet the limit.
An `Unblock` needs no partner here: any fiber or completion may do it at any time.

`server` and `server_live`: two connections share what they could take from each
other. With two fibers one can kill the other, and a third that connects meets the
limit only when both run; with one fiber (`server_live`) the second connection is
refused, by an exception that may strike the first, or comes when the first has
ended and gets its slot and its handle.
`ArgLen` 2 lets an argument arrive with the command, in two pieces, or in part;
a request comes after the greeting and one more read waits for the next.

`btree`: six entries in leaves of two, and tree nodes of two, make trees of up to
three levels; the large one fills a leaf alone. Deadlock is not checked since
`InsertFails` ends the run of the program. States are compared by the shape of the
tree, not the addresses in it (`VIEW`): what an address is matters nowhere.

`fkey`: an update and a removal that meet, a cascade of two lines with a trigger
on one of them and a failure after it, each need two statements. Beyond the
bounds there are the proofs, whose inductive invariant random simulation with
ten versions and five statements had found no counterexample to.
Deadlock is not checked, since the statements run out.

### What the runs found

Three runs state what the repository says and show a behaviour in which it is
not so; TLC finds it violated, and `PROJECT.json` has it under `findings`.

- `rebuild_rename`. `rename_table` leaves `tblnames` with the old name
  (recover.cpp:388), so records that were committed after a table was renamed
  are looked up by a name that is gone, and ignored (recover.cpp:418-428). The
  test `recover_rename` adds no record after the rename.
- `server_lost`. `read2` polls once before it blocks (sockets.cpp:533). If the
  connection's end arrives in that poll, its completion routine closes the socket
  and unblocks nobody; the fiber then blocks, and nothing is outstanding that
  would ever unblock it. The destructor does not run and the transactions of the
  client stay open. `LossIsNoticed` is what does hold: a loss that comes while the
  fiber is blocked ends it, unless an exception gets in the way.
- `fkey_trigger`. The loop of a cascading delete resets the iterator's `prevsize`,
  since otherwise it does not see lines that a trigger has rewritten
  (database.cpp:736); the loop of a cascading update does not (database.cpp:746).
  A rewritten line keeps the old id, and no parent has it any more.

Seen while modelling, and kept out of the properties above by name:

- Rebuild. The rebuild drops the record with a table's new name and writes its own
  as an MM_OTHER block (recover.cpp:348, 386-388): the next rebuild skips it and the
  table has its old name again, with records that the first has lost; if it is deleted later, the next rebuild has no
  translation for its offset (recover.cpp:434) and fails. Records enter the indexes
  there are when their commit is replayed: if the index was removed later
  (recover.cpp:425) they are counted but in no index, and one made afterwards
  copies nothing (database.cpp:283). An index added just before a clean shutdown,
  when nothing else changed, gets no commit record (transaction.cpp:445). A table
  renamed before a column is added has a `nextfield` that is too low after a
  rebuild. Without user tables `next_table` becomes 1 (recover.cpp:441) and the
  first creations of tables fail (`CreateTableFails`). Two tables that swap names
  make a rebuild throw.
- Recovery. Nothing is flushed at a shutdown: after a loss of power a SHUTDOWN
  record may be on disk and blocks before it not, the next start accepts the file,
  and the rebuild after it gives up what was committed meanwhile (recover.cpp:30).
  The file of a rebuild is not flushed before the backup is removed
  (recover.cpp:327). A check that finds a shutdown but no good commit dereferences
  an iterator with no file behind it (recover.cpp:216).
- Server. A connection whose greeting cannot be written is already in `dbservers`
  (dbserver.cpp:114) and stays there, its socket open: `EndedIsCleanedUp`. The
  postcondition of `need` (connection.cpp:18, 29) does not hold when the
  connection ends in the middle of a read: `NeedDelivers`; what is executed then is
  only ever executed on a closed socket (`GarbledIsLast`). Both definitions are in
  `AsyncServer`. Exceptions out of completion routines: a part of an argument and
  then a reset makes `afterRecv` throw instead of unblocking (sockets.cpp:559, 579).
  Run from the message loop it takes the server down; run in a call of another
  connection it ends that call, and the fiber it should have woken stays blocked for
  good, with its transactions open. At the limit of fibers an accept does the same
  to whoever runs it (fibers.cpp:176): a fiber struck in the poll of `read2` ends with
  its WSARecv outstanding, into a buffer it has left. In the `close` of a destructor
  either terminates the process. The properties of the server leave out
  what an exception has `struck`, and after the end of the process there is nothing
  to expect (`Down`); in `ExecutedIsAnswered` and `LossIsNoticed` TLC finds a violation
  when `Down` is left out, in the second also without `struck`. (In the first `struck`
  takes a second fiber to matter, which is beyond the bounds of `server_live`.) A
  client that stops reading keeps its fiber blocked in a write, and the request
  neither answered nor given up: that is `ClientIsDeaf`, without which
  `ExecutedIsAnswered` is violated.
- B-tree. With entries of very different sizes the half of a split that the new
  entry goes to may have no room for it (btree.h:399, 412): `SplitsFit`. A step back
  of an iterator whose entry was the last one and has been erased, with its leaf
  split or unlinked since, reads the leaf at address NIL (btree.h:266):
  `DecrementIsPrevious`. Both definitions are in `Btree`; `SortedIndex` promises
  nothing of that step.
- Foreign keys. An update of a parent whose lines have been moved and which then
  fails leaves the lines at the new id (`loose` "failure"): the client has to
  abort. `add_index` accepts lines and parents of transactions that have not
  looked at the other table, and never will (`loose` "index", database.cpp:248).
- Transactions. `commit` reads `t->conflict` after `abort` has erased the
  transaction (transaction.cpp:160). `erase_cursor` counts down before it knows the
  cursor (dbserverdata.cpp:98).

No fairness is assumed and no liveness is claimed but of `Fibers` and
`AsyncServer`: a client may keep a transaction open for ever, and the code lets it.

## What is proved

`TranProofs` proves, for any set `Keys` of numbers, any `UNCOMMITTED`, any
`MaxClock` below it and any `MaxOff` and `MinRecords`:

- `TypeCorrect`: `Spec => []TypeOK`. The type invariant is inductive. One lemma
  for each action; the arithmetic is in the times, which stay below `MaxClock`
  because `Begin` and `CommitUpdate` are guarded by it.
- `CreatedIsExact` and `DeletedIsExact`: `Spec => []CreatedMatchesActs` and
  `Spec => []DeletedMatchesActs`. The two are not inductive alone: `commit` gives
  entries a new time, and only if no other transaction has that time do the
  others keep theirs; `finalize` drops the entries of some transactions, and only
  if no other one shares an offset with them is nothing lost. The inductive
  invariant adds `TypeOK` and `TimesOrdered`: numbers of active transactions and
  commit times in `final` lie below `clock` and differ from one another. From
  that, each offset in `created` names one creator: an uncommitted time names the
  transaction, a committed one the commit.

It goes on from there to what a client sees:

- `ReadsAreSnapshots` (`SnapshotRead`), `IndexAndCountAreRight` (`IndexAndCount`) and
  `FinalStaysExact` (`FinalIsExact`). They are about times that `finalize` has
  forgotten, and so the invariant `History` ties the maps to the history: a
  transaction still in `final` did in the history what it says, at its time
  (`Recorded`); whatever the history knows and `final` does not is older than each
  active transaction (`Settled`); what an active transaction did is not in the
  history yet, except that one with a conflict may have deleted what another has
  deleted too (`Pending`); and the index entries are exactly what these imply
  (`Indexed`). The requests that act are seen together as `Edit`: some record is
  added, some deleted, and the lemmas are about that.
- `CommitsAreSerializable` (`Serializable`) and `KeysStayUnique` (`UniqueKeys`). Here
  the invariant is `ActsWereRead`: a transaction that can still commit has read the
  keys of what it creates and deletes, so that of two transactions which enter
  the same key, the one that commits second finds the act of the first in its
  reads.

The last of them is `TranImplementsSnapshotDb`, the refinement that
`tran_refines` checks: the initial states map to initial states, and each request
to one step of `SnapshotDb` or to a stutter, a write conflict to the step that
cancels the transaction. It rests on the invariants above: what `visible()` shows
is the copy made at the start with the transaction's own changes, and what
`validate_reads` finds is that a key changed in the table since.

The assumptions are the five `ASSUME`s of `Tran` on its constants, which TLC
evaluates in every run. `MaxClock < UNCOMMITTED` is the one with content: the
code lets the clock run up to INT_MAX / 2 only in theory, since it restarts with
the server.

`RecoveryProofs` proves, for files of any length and any number of losses of
power:

- `TypeCorrect`: `Spec => []TypeOK`.
- `RecoveredIntact`: `Spec => []KeptAreIntact`. That a checksum is right says
  something of the blocks since the last commit record only, and the records of
  a transaction may lie before it, among those of others. The inductive
  invariant says where they are: what a commit record names was in its checksum
  or in that of an earlier commit record (`CoveredIn`), and what an active
  transaction has created is in the running checksum or in that of a commit
  record since (`FreshCovered`). Since a check stops at the first commit that is
  not good, all the checksums before a good one have been compared, and what it
  created is unharmed (`CoveredIsIntact`). No action changes the kind of a block
  or what a commit names: damage, flushes and copies leave a file covered
  (`CoveredAlike`), and so does a block that is appended (`CoveredAppend`).

And which commits come back:

- `CommitsAreKept` (`KeptCommits`), `OneFileHasThem` (`SomeFileHasThem`),
  `LastBlockTells` (`CheckIsRight`) and `SyncedIsKept` (`SyncedKept`). They need what a
  process leaves that was not interrupted, and what one that was leaves of that.
  The invariant `HInv` says of a file, with what history knows of it (`FileInv`):
  the numbers of its commit records go up from begin to end (`Numbered`); what it
  lost of the commits came behind all it still has (`InOrder`), which is why a
  check keeps a prefix; up to a synced commit every block is on disk and will be
  kept (`OnDisk`); and a file that lost nothing has only good commit records and
  at most its last block half written (`Clean`). Of an open database the running
  checksum is that of the data since the last commit or session record, all of it
  whole (`OpenInv`); of a rebuild the new file is clean from the time it is
  complete, and the old one or the backup has the commits (`RebuildInv`).

The assumptions are the two `ASSUME`s of `Recovery` on its bounds.

`FibersProofs` proves, for any number of slots:

- `TypeCorrect`, `CurrentReady`, `LiveFibersKept`: the invariants of the run. They are
  inductive together, in `IInv`, with `IndexPastCurrent`: the round robin never
  points at the running fiber, or a turn could come to it as the one unblocked
  last.
- `RunnableOnly`: only the main fiber switches to a background fiber, and only to
  one that is neither blocked nor asleep.
- `LastUnblockedNext`: the fiber that was unblocked last runs next. The round
  robin is arithmetic modulo the number of slots; the lemma is that with `fi`
  just before a runnable slot the first turn of the loop is that slot.

The assumption is that there is at least one background slot, and a bound.

`AsyncServerProofs` proves, for any number of connections, handles and fibers and
arguments of any length:

- `ServerTypes` (`STypeOK`), `OwnedByOne` (`ResourcesOwned`), `WakesItsOwn`
  (`BlockedIsWaiting`), `NothingLeftBehind` (`EndedLeavesNothing`) and
  `GarbledHasNoAnswer` (`GarbledIsLast`). All are parts of or follow from an
  inductive invariant in two layers. `Base` (`BaseHolds`) is about every connection,
  whatever exceptions have struck it: the invariant of the scheduler, who owns
  which handle and which slot, which fiber is blocked for which socket, and of the
  stack that its outermost call is the running fiber's own (`FrameOwned`) and the
  others are closes in completion routines (`StackOrdered`). It is inductive by
  itself, since an exception goes to the fiber that has the thread and a blocked
  one stays as it is. `SInv` (`SInvHolds`) adds `ConnFits` for every connection that is not in
  `struck`. Its core is `Awaited`: the fiber of such a connection goes on only when
  nothing is outstanding for it, neither in the kernel nor in the queue nor in a
  completion routine on the stack. A struck connection breaks it, by design of the
  code as it is: its fiber goes on with a receive outstanding. What such a receive
  brings must not touch the others, which is why the two layers are needed. That
  a request executed with a part missing is the last
  one needs the bytes: those taken, on their way, and unsent are together never
  more than one request (`Bytes`, `Counted`), so that a read which returns with
  less had its socket closed (`Returned`).
- `ServerRunsFibers`: each step of the server is a step of `Fibers` or leaves its
  variables alone, so that what `FibersProofs` proves holds in the server.

The assumptions are those of `AsyncServer` and `Fibers` on their constants.

`BtreeSplitProofs` and `BtreeProofs` prove, for any finite set of keys, any sizes of
entries and any capacities of nodes, hence for trees of any number of levels:

- `BtreeInv`: `BSpec => []BInv`, the inductive invariant, and from it `BtreeTyped`
  (`BTypeOK`), `BtreeSound` (`TreeSound`) and `BtreeFreshAtHome` (`FreshAtHome`).
  `TreeSound` walks down the levels of the tree and along the list of leaves, and
  says nothing an induction over steps could use. `BInv` says instead that heights
  and ranges of keys can be given to the nodes such that each node agrees with its
  neighbours: a leaf's entries lie in its range and the leaf linked behind it is
  for the range that follows (`LeafSound`), the children of a tree node are one
  lower and for the ranges between its keys (`KidsSound`), nodes of one height are
  for different keys (`Disjoint`), and the root is for all. A search for a key then
  ends at the one leaf for it (`Leads`). That the list of leaves is the order in
  the tree follows by an induction along the list (`StandsInOrder`).
- A split leaves, for a while, a node whose parent does not know: the parent takes
  it to be for more than it is. `Sound` has the ranges as the parents see them
  (`seen`) next to the true ones; a parent that is told has them agree again, and
  may be split itself. What one round of the loop does is stated for any height
  (`Rises`), and the loop is by induction over the heights on the path (`StepsUp`),
  until there is room or a new root. An erased leaf takes tree nodes with it that
  become empty, and leaves its range to a neighbour: one bound of the ranges
  along a chain of nodes is renamed (`Renamed`, `Gap`), again one height after the
  other (`FallsUp`); then roots with a single child are skipped (`Skipped`).
- `BtreeImplementsIndex`: `BSpec => ImplementsIndex`. Insert and erase change the
  set of entries by their key (`Becomes`), whatever becomes of the nodes; a step of
  the iterator goes to the next greater or smaller entry. When it trusts its leaf
  (`FreshAtHome`) that entry is beside it or in the leaf linked next; otherwise it
  has searched. The one step `SortedIndex` promises nothing of is that of
  `DecrementIsPrevious` below.

The assumptions are the three `ASSUME`s of `Btree`: keys are positive and finitely
many, sizes and capacities positive.

`FkeyProofs` proves, for any number of clients, keys, versions, statements and
lines in a cascade:

- `FkeyTypes` (`TypeOK`), `FkeyKeysUnique` (`KeysUnique`) and `FkeyReferencesHold`
  (`ReferencesHold`). What is committed changes only in `Commit`, so the inductive
  invariant `FInv` is about what a transaction has done when it comes there: it
  sees what was committed when it started and its own acts (`ViewFits`), keys are
  unique in its view, it has read the keys of what it created (`KeysRead`), no
  other transaction has created or deleted the same (`Apart`), and for each id
  without a known gap `Refers`: a line it created with that pid has a parent that
  it read and still sees, or stands for a line it deleted; a parent it deleted has
  been replaced, or has no lines, and it has read that. `MergedUnique` and
  `MergedFirm` then say that a transaction whose reads stand may be merged.
- A statement is many edits. The lemmas follow the code: everything a statement
  does is a version dropped (`DroppedIn`) or put (`PutIn`), with more reads, and
  each operator from `DeleteAct` up to `Dereferring` is shown to be made of these
  (`DeleteActIs`, `EnteredIs`, `ReplacedIs`, `TriggeredIs` ...). Where it fails it has
  changed no version, or those of the passes before. A cascade of any length is by
  its loop invariant `Cascading`: the lines at the offsets passed are gone or
  moved, but for those a trigger has rewritten, which have offsets beyond the
  file as it was; the induction over offsets is by a least counterexample
  (`CascadePasses`). This is where the reset of `prevsize` matters: `LinesRemoved`
  ends with no line left, `LinesMoved` only when no trigger rewrote one.

The assumptions are the three `ASSUME`s of `Fkey`: the empty value is no key, the
bounds are numbers, and the tables there are in the beginning have unique keys.
`ReferencesHold` is about ids outside `loose`; the run `fkey_trigger` shows one of the
three gaps, and the list above says what the other two are.

`RebuildProofs` proves, for any names, columns and requests and for files of any
length:

- `RebuildTypeOK` (`TypeOK`). The inductive invariant is `TInv`: every block of the log
  is of its kind and refers to offsets before it (`DbFits`), records are never
  changed but for `nrows` and `nextfield` (`Grown`), and the lists of the active
  transactions hold data records.
- A replay is a fold over a log of any length, a recursive function. Its invariant
  is `RFits`: the new database fits, `tr` leads to copies of the same kind,
  the tables in `dropped` are not in the schema of the new database and those in
  `renamed` are records of tables. Each of the operators from `EnterTable`
  to `CopyCommit` keeps it (`EnterTableFits` ... `CopyCommitFits`), and `ReplayFits` is the
  induction over the blocks, by a least counterexample.
- `PlainReplay`: what the replay of a log makes of it, if the log is `Plain`, its
  undeleted schema records are consistent with each other (`Consistent`: numbers
  and names of tables, fields of columns and columns of indexes are apart, and each
  part has its table and column before it), and each new table's record is followed
  by its first column and index (`MadeWhole`; together `Restorable`). The invariant is
  `Restores`: up to each block the new file is a copy at the same offsets, the
  schema is the undeleted records so far, the rows are what the commits so far
  created and none deletes, the counts are those of the rows, and the dropped
  tables are of no index to come. It has a lemma for each kind of block
  (`ColumnStep`, `IndexStep`, `DeadTableStep`, `EnterTableStep`, `CommitStep`).
- `RebuildRecordsTrue` (`SchemaRecordsTrue`), `RebuildNothingIgnored`
  (`RebuildIgnoresNothing`) and `RebuildRestored` (`RebuildRestores`), from the
  second invariant, `PInv`. While `plain`, the commits of the file are right
  (`LogRight`: what they leave undeleted is `Consistent`, tables are `MadeWhole`, and
  no record is created twice or before its table's), `saved` is what they say
  (`SavedIs`, which reads the contents off the log alone: `Static`), and an open database
  agrees with its file (`LiveRight`): the schema is the written records without the
  removed ones and those of `drops`, the rows of each table are its records that are
  committed or new and not deleted, its count is that of its rows without `going`, and
  numbers in use are below `nexttable`. A closed file ends with a commit (`Settled`).
  There is a lemma for each action (`CreateTableRight` ... `RebuildRight`). The
  invariant must speak of the log and the live database at once: a crash has only
  the log, and a request or a commit is checked against what is live. A renamed
  table keeps its rows before the record of its new name; `Made` tells such records
  apart, and the files with one are not `Plain`.

The assumption is `RebuildBounds`. The theorems on what is restored are about `Plain`
files, as the properties are; What the runs found shows why.

Model-checked only:

- `NoStarvation`, `ExecutedIsAnswered` and `LossIsNoticed`: liveness under fairness,
  out of the prover's reach.
- `RebuildInventsNothing`, which is about the rebuild of files that are not `Plain`.

## Not modelled, and why

- In modelled parts. `Tran` has one index and one table that stays, so that
  `table_create_time` and the dropped table in `validate_reads`
  (transaction.cpp:271, which goes on with stale column numbers) are left out;
  `refresh()` has no caller; bulk loading (`loading`) runs without other
  transactions. `Rebuild` has no views and no foreign keys; `Recovery` no chunks
  and filler blocks of the mapped file. `AsyncServer` has no queries and cursors of
  a connection, no text protocols (`readline`) and no client sockets;
  its KILL closes one connection of a session name, where the code closes them
  one after another. `Btree` has
  one iterator, and not `first()` (used on trees from which nothing is erased),
  `rangefrac` (an estimate), `increment` (for filters) and the limit of 20 levels.
  `Fkey` has one foreign key, no cascade through a third table, no table that
  refers to itself, and no trigger that fires triggers.
- Authorization, timestamps, the remote client, and the language's bindings to
  the database are sequential and short. Dump runs in a read-only transaction,
  load and compact alone.
- Queries: sequential relational algebra. What a plan computes is data that a
  small instance does not have; the order in which it reads the indexes is what
  `Tran` leaves open.
- Compiler, interpreter, builtin types, record formats, globals and libraries:
  single threaded, with unit tests, and no state shared with the database.
- User interface, Windows bindings: input and output. The editor and the garbage
  collector under `src/` are third-party code, and most of its lines.

## What would be next

1. A proof of `RebuildInventsNothing`, which needs an invariant about renamed tables.
2. `Tran` with several indexes, and with a table that is dropped under it.
3. The cursors of queries that go both ways (`qunion.cpp`, `qtempindex.cpp`).
