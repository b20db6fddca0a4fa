------------------------------ MODULE Recovery ------------------------------
(***************************************************************************)
(* The database file across crashes (recover.cpp, mmfile.cpp, and the      *)
(* start and stop of a database in database.cpp and transaction.cpp).      *)
(*                                                                         *)
(* The file is mapped memory to which blocks are only appended.  A process *)
(* that dies leaves all it wrote, and at most one block half written.  A   *)
(* loss of power leaves any part of what was not flushed.  A commit record *)
(* has a checksum of the data records since the commit record before, of   *)
(* whatever transaction.  The start of a database looks at the last block  *)
(* only: unless it is a session record of a shutdown, the file is checked  *)
(* from the begin and copied up to the last good commit, and the copy is   *)
(* renamed to take the place of the file.                                  *)
(*                                                                         *)
(* A file is a sequence of blocks, and Missing is no file.  A checksum is  *)
(* the set of the blocks it is of.  What the records say, and how a copy   *)
(* makes indexes from them, is in Rebuild.                                 *)
(***************************************************************************)
EXTENDS Integers, Sequences

CONSTANTS
  MaxBlocks,  \* bound on the number of blocks in the file
  MaxLosses   \* bound on the number of times the power is lost

ASSUME BlocksAssumption == MaxBlocks \in Nat /\ MaxBlocks >= 3
ASSUME LossesAssumption == MaxLosses \in Nat

VARIABLES
  main,     \* suneido.db
  bak,      \* the commits that a check would find in suneido.db.bak
  tmp,      \* the new file of the rebuild that is going on
  pc,       \* "open", "closed", or the step that a rebuild has made
  opened,   \* how many blocks there were when the open database was opened
  fresh,    \* data blocks created by transactions that are active
  sum,      \* Database::cksum: the data blocks in the running checksum
  losses,   \* how many times the power has been lost
  commits,  \* history: the number of commit records ever written
  log,      \* history: the commits made; after a loss of power a start and
            \*          a rebuild give up those that are not found
  synced,   \* history: the commits on disk when all of the file last was
  damaged   \* history: the power was lost since the last rebuild

files == <<main, bak, tmp>>
history == <<commits, log, synced, damaged>>
vars == <<files, pc, opened, fresh, sum, losses, history>>

Missing == <<>>

-----------------------------------------------------------------------------
(* Blocks.  A garbled one has a wrong content, which matters in Checked     *)
(* blocks; a bad one also has a wrong header or trailer, so that nothing    *)
(* behind it can be read.                                                   *)

Kinds == {"data", "commit", "startup", "shutdown", "other"}

Checked == {"data", "commit", "shutdown"}

Block(kind) == [kind |-> kind, id |-> 0, creates |-> {}, sum |-> {},
                state |-> "ok", durable |-> FALSE]

CommitBlock(id, creates, covered) ==
  [Block("commit") EXCEPT !.id = id, !.creates = creates, !.sum = covered]

-----------------------------------------------------------------------------
(* docheck() and check_shutdown().                                          *)

\* the data blocks in the checksum when the check comes to block i
Summed(f, i) ==
  {j \in 1 .. i - 1 :
     /\ f[j].kind = "data"
     /\ \A k \in j + 1 .. i - 1 :
          f[k].kind \notin {"commit", "startup", "shutdown"}}

GoodCommit(f, i) ==
  /\ f[i].kind = "commit"
  /\ f[i].state = "ok"
  /\ f[i].sum = Summed(f, i)
  /\ \A j \in Summed(f, i) : f[j].state = "ok"

\* Mutant: a commit with a wrong checksum is passed over
ScannedPastBadCommits(f) ==
  {i \in DOMAIN f : \A j \in 1 .. i : f[j].state # "bad"}

\* Mutant: where the last good commit was is forgotten when the check fails
ScannedAllOrNothing(f) ==
  {i \in DOMAIN f :
     \A j \in DOMAIN f :
       f[j].state # "bad" /\ (f[j].kind = "commit" => GoodCommit(f, j))}

\* The check stops at a bad block, and after a commit that is not good.
Scanned(f) ==
  {i \in DOMAIN f :
     /\ \A j \in 1 .. i : f[j].state # "bad"
     /\ \A j \in 1 .. i - 1 : f[j].kind = "commit" => GoodCommit(f, j)}

Kept(f) == {i \in Scanned(f) : GoodCommit(f, i)}
KeptIds(f) == {f[i].id : i \in Kept(f)}

ShutdownAt(f, i) == f[i].kind = "shutdown" /\ f[i].state = "ok"
CheckShutdown(f) == f # Missing /\ ShutdownAt(f, Len(f))

\* a valid shutdown and a valid commit: not DBR_UNRECOVERABLE
Recoverable(f) == Kept(f) # {} /\ \E i \in Scanned(f) : ShutdownAt(f, i)

-----------------------------------------------------------------------------
(* The database while it is open.                                           *)

AllDurable(f) == \A i \in DOMAIN f : f[i].durable

\* Flushing the views flushes the chunks that this process has mapped.
Flushed(f, from) ==
  [i \in DOMAIN f |-> [f[i] EXCEPT !.durable = @ \/ i > from]]

SyncedBy(f) == IF AllDurable(f) THEN KeptIds(f) ELSE synced

\* Database::Database when check_shutdown() holds, which looks no further
Start ==
  LET f == Flushed(Append(main, Block("startup")), Len(main))
  IN  /\ pc = "closed"
      /\ CheckShutdown(main)
      /\ Len(main) < MaxBlocks
      /\ main' = f
      /\ pc' = "open"
      /\ opened' = Len(main)
      /\ fresh' = {}
      /\ sum' = {}
      /\ synced' = SyncedBy(f)
      /\ log' = IF damaged THEN KeptIds(main) ELSE log
      /\ UNCHANGED <<bak, tmp, losses, commits, damaged>>

\* output() of a record; an insert that fails leaves it to nobody
Output(created) ==
  /\ pc = "open"
  /\ Len(main) < MaxBlocks
  /\ main' = Append(main, Block("data"))
  /\ fresh' = fresh \cup (IF created THEN {Len(main) + 1} ELSE {})
  /\ sum' = sum \cup {Len(main) + 1}
  /\ UNCHANGED <<bak, tmp, pc, opened, losses, history>>

\* a block without a checksum, such as a node of an index
OutputOther ==
  /\ pc = "open"
  /\ Len(main) < MaxBlocks
  /\ main' = Append(main, Block("other"))
  /\ UNCHANGED <<bak, tmp, pc, opened, fresh, sum, losses, history>>

\* Mutant: the commit record covers only what its transaction created
WrittenCoversOwn(f, creates) ==
  Append(f, CommitBlock(commits + 1, creates, creates))

\* write_commit_record
Written(f, creates) == Append(f, CommitBlock(commits + 1, creates, sum))

\* An abort writes nothing: what it created is never committed.
Commit(creates) ==
  /\ pc = "open"
  /\ Len(main) < MaxBlocks
  /\ main' = Written(main, creates)
  /\ fresh' = fresh \ creates
  /\ sum' = {}
  /\ commits' = commits + 1
  /\ log' = log \cup {commits + 1}
  /\ UNCHANGED <<bak, tmp, pc, opened, losses, synced, damaged>>

\* the timer that runs every minute
Sync ==
  /\ pc = "open"
  /\ main' = Flushed(main, opened)
  /\ synced' = SyncedBy(main')
  /\ UNCHANGED <<bak, tmp, pc, opened, fresh, sum, losses,
                 commits, log, damaged>>

\* Mutant: the creates of active transactions outlive the process
ClosedKeepsFresh ==
  /\ pc' = "closed"
  /\ opened' = 0
  /\ UNCHANGED fresh
  /\ sum' = {}
  /\ tmp' = Missing

\* What is left when the process has ended.  The new file of a rebuild that
\* did not come to its end is never found again.
Closed ==
  /\ pc' = "closed"
  /\ opened' = 0
  /\ fresh' = {}
  /\ sum' = {}
  /\ tmp' = Missing

\* shutdown() without and with something in the checksum.  Schema records
\* that were removed are a reason for a commit record too.
Shutdown ==
  /\ pc = "open"
  /\ \/ /\ sum = {}
        /\ Len(main) < MaxBlocks
        /\ main' = Append(main, Block("shutdown"))
        /\ UNCHANGED history
     \/ /\ Len(main) + 1 < MaxBlocks
        /\ main' = Append(Written(main, {}), Block("shutdown"))
        /\ commits' = commits + 1
        /\ log' = log \cup {commits + 1}
        /\ UNCHANGED <<synced, damaged>>
  /\ Closed
  /\ UNCHANGED <<bak, losses>>

-----------------------------------------------------------------------------
(* Failures.                                                                *)

\* The files a process can leave that dies while it writes f.  Of a bad block
\* nothing else is ever known.
Torn(f) ==
  {f, Append(f, [Block("other") EXCEPT !.state = "bad"])}
    \cup {Append(f, [Block(kind) EXCEPT !.state = "garbled"]) :
            kind \in Checked}

\* the process dies, while the database is open or in the middle of a rebuild
Crash ==
  /\ pc # "closed"
  /\ \/ pc = "open" /\ Len(main) < MaxBlocks /\ main' \in Torn(main)
     \/ UNCHANGED main
  /\ Closed
  /\ UNCHANGED <<bak, losses, history>>

\* The first n blocks of f, some of them garbled and some bad
Damaged(f, n, garbled, bad) ==
  [i \in 1 .. n |->
     [f[i] EXCEPT !.durable = TRUE,
                  !.state = IF i \in bad THEN "bad"
                            ELSE IF i \in garbled /\ @ = "ok" THEN "garbled"
                            ELSE @]]

\* The power is lost: of what was not flushed any part may be wrong, and the
\* size in the header may be an earlier one.  What is behind a bad block is not
\* read, so that one bad block is enough.  The backup is not read by any code,
\* and nothing is said of what happens to it.
PowerLoss ==
  LET loose == {i \in DOMAIN main : ~ main[i].durable}
      checked == {i \in loose : main[i].kind \in Checked}
  IN  /\ losses < MaxLosses
      /\ \E n \in 0 .. Len(main) :
           /\ \A i \in DOMAIN main \ loose : i <= n
           /\ \E garbled \in SUBSET (checked \cap 1 .. n) :
                \E bad \in {{}} \cup {{i} : i \in loose \cap 1 .. n} :
                  main' = Damaged(main, n, garbled, bad)
      /\ losses' = losses + 1
      /\ damaged' = TRUE
      /\ Closed
      /\ UNCHANGED <<bak, commits, log, synced>>

-----------------------------------------------------------------------------
(* rebuild(), in the steps between which a process can die.                 *)

\* Mutant: all that can be read is copied
CopiedToTheEnd(f) ==
  LET last == CHOOSE i \in Scanned(f) : \A j \in Scanned(f) : j <= i
  IN  Append([i \in 1 .. last |-> [f[i] EXCEPT !.durable = FALSE]],
             Block("shutdown"))

\* rebuild_copy: all up to the last good commit, with new nodes for the
\* indexes and the checksums made again, and the shutdown of the new database
Copied(f) ==
  LET last == CHOOSE i \in Kept(f) : \A j \in Kept(f) : j <= i
  IN  Append([i \in 1 .. last |->
                [f[i] EXCEPT !.durable = FALSE,
                             !.state = IF f[i].kind = "other"
                                       THEN "ok" ELSE @]],
             Block("shutdown"))

Copy ==
  /\ pc = "closed"
  /\ Recoverable(main)
  /\ tmp' = Copied(main)
  /\ pc' = "copied"
  /\ UNCHANGED <<main, bak, opened, fresh, sum, losses, history>>

RemoveBak ==
  /\ pc = "copied"
  /\ bak' = {}
  /\ pc' = "unbacked"
  /\ UNCHANGED <<main, tmp, opened, fresh, sum, losses, history>>

\* Mutant: the file is removed instead of renamed
MoveMainRemoves ==
  /\ pc = "unbacked"
  /\ main' = Missing
  /\ pc' = "moved"
  /\ UNCHANGED <<bak, tmp, opened, fresh, sum, losses, history>>

MoveMain ==
  /\ pc = "unbacked"
  /\ bak' = KeptIds(main)
  /\ main' = Missing
  /\ pc' = "moved"
  /\ UNCHANGED <<tmp, opened, fresh, sum, losses, history>>

MoveNew ==
  /\ pc = "moved"
  /\ main' = tmp
  /\ tmp' = Missing
  /\ pc' = "closed"
  /\ log' = KeptIds(tmp)
  /\ synced' = {}
  /\ damaged' = FALSE
  /\ UNCHANGED <<bak, opened, fresh, sum, losses, commits>>

-----------------------------------------------------------------------------
\* a database that was loaded and closed, long ago
Loaded == Flushed(<<Block("data"), CommitBlock(1, {1}, {1}),
                    Block("shutdown")>>, 0)

Init ==
  /\ main = Loaded
  /\ bak = {}
  /\ tmp = Missing
  /\ pc = "closed"
  /\ opened = 0
  /\ fresh = {}
  /\ sum = {}
  /\ losses = 0
  /\ commits = 1
  /\ log = {1}
  /\ synced = {1}
  /\ damaged = FALSE

Next ==
  \/ Start
  \/ \E created \in BOOLEAN : Output(created)
  \/ OutputOther
  \/ \E creates \in SUBSET fresh : Commit(creates)
  \/ Sync
  \/ Shutdown
  \/ Crash
  \/ PowerLoss
  \/ Copy \/ RemoveBak \/ MoveMain \/ MoveNew

Spec == Init /\ [][Next]_vars

-----------------------------------------------------------------------------
(* Properties *)

BlockType == [kind : Kinds, id : Nat, creates : SUBSET Nat, sum : SUBSET Nat,
              state : {"ok", "garbled", "bad"}, durable : BOOLEAN]

TypeOK ==
  /\ main \in Seq(BlockType) /\ tmp \in Seq(BlockType)
  /\ bak \subseteq 1 .. commits
  /\ pc \in {"open", "closed", "copied", "unbacked", "moved"}
  /\ opened \in 0 .. MaxBlocks
  /\ fresh \subseteq DOMAIN main
  /\ sum \subseteq DOMAIN main
  /\ losses \in 0 .. MaxLosses
  /\ commits \in Nat
  /\ log \subseteq 1 .. commits
  /\ synced \subseteq 1 .. commits
  /\ damaged \in BOOLEAN

\* Whatever was lost and however the file was damaged: all that a commit
\* created is unharmed if the check finds the commit good, also what was
\* written before the commit records of other transactions.
IntactIn(f) ==
  \A i \in Kept(f) : \A j \in f[i].creates :
    j < i /\ f[j].kind = "data" /\ f[j].state = "ok"

KeptAreIntact == IntactIn(main) /\ IntactIn(tmp)

\* A commit is never kept without those before it, and unless the power was
\* lost all are kept.
KeptCommits ==
  /\ \A c \in KeptIds(main), d \in log : d <= c => d \in KeptIds(main)
  /\ ~ damaged /\ main # Missing => KeptIds(main) = log

\* Wherever a rebuild stops, there is a file to go on with: the database, or
\* its backup, with everything in it.
SomeFileHasThem ==
  ~ damaged => log \subseteq KeptIds(main) \/ log \subseteq bak

\* Unless the power was lost, the file can be recovered, and if its last block
\* says that it was shut down then a check of all of it says so too.
CheckIsRight ==
  ~ damaged /\ main # Missing =>
    /\ Recoverable(main)
    /\ CheckShutdown(main) => Scanned(main) = DOMAIN main

\* Commits that were on disk with all of the file before them are kept when
\* the power is lost.
SyncedKept == main # Missing => synced \subseteq KeptIds(main)
=============================================================================
