-------------------------------- MODULE Fkey --------------------------------
(***************************************************************************)
(* Foreign keys (database.cpp): the lines of one table refer by their pid  *)
(* to the parents of another, which has two keys, id and name.  Statements *)
(* block or cascade inside a transaction, one index and one record after   *)
(* the other, each calling the trigger of its table; a statement that      *)
(* fails leaves what it has done so far, and the client may go on and      *)
(* commit.  Meanwhile other transactions run, and an administrator may add *)
(* the foreign key to tables that are in use.                              *)
(*                                                                         *)
(* Transactions are what Tran implements: each sees the versions committed *)
(* when it started and its own, a deletion conflicts with another of the   *)
(* same version, and a commit with any act on what the transaction read.   *)
(***************************************************************************)
EXTENDS Integers, SequencesExt, FiniteSetsExt

CONSTANTS
  Ids, Names,  \* the values of the parents' keys
  Nos,         \* the values of the lines' key
  EMPTY,       \* the empty pid, which refers to nothing
  Trans,       \* clients; each has one transaction at a time
  Tables,      \* the tables there may be in the beginning: their records
  MaxFile,     \* bound on the number of versions ever written
  MaxDone      \* bound on the number of statements

ASSUME EmptyAssumption == EMPTY \notin Ids \cup Nos
ASSUME BoundsAssumption == MaxFile \in Nat /\ MaxDone \in Nat

VARIABLES
  file,   \* the versions written so far
  db,     \* those that are committed and not deleted
  txn,    \* the transactions in progress, by client
  fkey,   \* whether the foreign key has been added
  mode,   \* of the foreign key: what it cascades
  loose,  \* history: ids the foreign key does not hold for, and why
  done    \* the number of statements so far

vars == <<file, db, txn, fkey, mode, loose, done>>

Parent(id, name) == [tbl |-> "parents", id |-> id, name |-> name]
Line(no, pid) == [tbl |-> "lines", no |-> no, pid |-> pid]
IndexesOf(r) == DOMAIN r \ {"tbl"}
KeysOf(tbl) == IF tbl = "parents" THEN <<"id", "name">> ELSE <<"no">>

Records == [tbl : {"parents"}, id : Ids, name : Names]
             \cup [tbl : {"lines"}, no : Nos, pid : Ids \cup {EMPTY}]

\* No two of the versions offs of f have a key in common.
UniqueIn(f, offs) ==
  \A o, p \in offs : o # p =>
    \A i \in {"id", "name", "no"} :
      i \in IndexesOf(f[o]) \cap IndexesOf(f[p]) => f[o][i] # f[p][i]

ASSUME TablesAssumption ==
  \A f \in Tables : f \in Seq(Records) /\ UniqueIn(f, DOMAIN f)

CASCADE_UPDATES == "updates"
CASCADE_DELETES == "deletes"
Modes == {{}, {CASCADE_UPDATES}, {CASCADE_UPDATES, CASCADE_DELETES}}

\* The entries of an index with value v among the versions offs of f.
Found(f, offs, idx, v) == {o \in offs : idx \in IndexesOf(f[o]) /\ f[o][idx] = v}

-----------------------------------------------------------------------------
(* Inside a statement: s is the file, the transaction t of client c, and    *)
(* whether an exception is on its way.                                      *)

Sees(s, idx, v) == Found(s.file, s.t.view, idx, v)
Reading(s, idx, v) == [s EXCEPT !.t.reads = @ \cup {<<idx, v>>}]
Failing(s) == [s EXCEPT !.failed = TRUE]

\* A version that another transaction has deleted, committed or not.
Taken(c, o, s) ==
  \/ o \notin db \cup s.t.creates
  \/ \E u \in DOMAIN txn \ {c} : o \in txn[u].deletes

DeleteAct(c, s, o) ==
  IF Taken(c, o, s)
  THEN Failing([s EXCEPT !.t.conflict = TRUE])
  ELSE [s EXCEPT !.t.view = @ \ {o}, !.t.deletes = @ \cup {o}]

\* Mutant: only the map forgets the deletion.
UndoDeleteActHalf(s, o) == [s EXCEPT !.t.view = @ \cup {o}]

UndoDeleteAct(s, o) ==
  [s EXCEPT !.t.view = @ \cup {o}, !.t.deletes = @ \ {o}]

\* A key of the new version r is looked for, which reads it.
Checked(s, r, k) ==
  IF s.failed THEN s
  ELSE IF Sees(s, k, r[k]) = {} THEN Reading(s, k, r[k])
  ELSE Failing(Reading(s, k, r[k]))

\* The new version in the indexes, unless one of its keys is a duplicate.
\* A version that is not entered is not written here, nothing refers to it.
Entered(s, r) ==
  LET checked == IF r.tbl = "parents"
                 THEN Checked(Checked(s, r, "id"), r, "name")
                 ELSE Checked(s, r, "no")
      off == Len(s.file) + 1
  IN  IF checked.failed THEN checked
      ELSE [checked EXCEPT !.file = Append(@, r), !.t.view = @ \cup {off},
                           !.t.creates = @ \cup {off}]

\* The record r in place of version o, whose deletion is undone when r is a
\* duplicate.
Replaced(c, s, o, r) ==
  LET deleted == DeleteAct(c, s, o)
      entered == Entered(deleted, r)
  IN  IF deleted.failed THEN deleted
      ELSE IF entered.failed THEN UndoDeleteAct(entered, o)
      ELSE entered

\* What a trigger does when a record with key or id at is changed: throw, or
\* rewrite another line, as lines are renumbered.
Events(ats) == {[at |-> EMPTY, does |-> "nothing", line |-> EMPTY]}
                 \cup [at : ats, does : {"throw"}, line : {EMPTY}]
                 \cup {ev \in [at : ats, does : {"rewrite"}, line : Nos] : ev.at # ev.line}

Triggered(c, s, at, ev) ==
  IF s.failed \/ ev.at # at THEN s
  ELSE IF ev.does = "throw" THEN Failing(s)
  ELSE LET lines == Sees(Reading(s, "no", ev.line), "no", ev.line)
       IN  IF lines = {} THEN s
           ELSE Replaced(c, Reading(s, "no", ev.line), Max(lines), s.file[Max(lines)])

LineRemoved(c, s, o, ev) ==
  Triggered(c, DeleteAct(c, s, o), s.file[o].no, ev)

LineMoved(c, s, o, pid, ev) ==
  Triggered(c, Replaced(c, s, o, Line(s.file[o].no, pid)), s.file[o].no, ev)

\* An iterator over the lines with a pid steps to higher and higher offsets,
\* below size (prevsize), while the lines change under it: each is removed, or
\* moved to the new pid.
Passed(c, a, pid, new, o, ev) ==
  IF a.failed \/ o \notin Sees(a, "pid", pid) THEN a
  ELSE IF new = EMPTY THEN LineRemoved(c, a, o, ev)
  ELSE LineMoved(c, a, o, new, ev)

OverLines(c, s, pid, new, size, ev) ==
  LET after[o \in 0..size] ==
        IF o = 0 THEN s ELSE Passed(c, after[o - 1], pid, new, o, ev)
  IN  after[size]

\* Mutant: prevsize is not reset as lines are removed.
LinesRemovedBelow(c, s, pid, ev) == OverLines(c, s, pid, EMPTY, Len(s.file), ev)

\* Removing lines resets prevsize, so that lines which are rewritten meanwhile
\* come up again; updating them does not.
LinesRemoved(c, s, pid, ev) == OverLines(c, s, pid, EMPTY, MaxFile, ev)
LinesMoved(c, s, pid, new, ev) == OverLines(c, s, pid, new, Len(s.file), ev)

\* fkey_source_block: a line must refer to a parent in view.
Referring(s, pid) ==
  IF ~fkey \/ pid = EMPTY THEN s
  ELSE IF Sees(s, "id", pid) = {} THEN Failing(Reading(s, "id", pid))
  ELSE Reading(s, "id", pid)

\* fkey_target_block: a parent goes, or its id becomes new.
Dereferring(c, s, id, new, ev) ==
  LET read == Reading(s, "pid", id)
  IN  IF ~fkey THEN s
      ELSE IF new = EMPTY /\ CASCADE_DELETES \in mode THEN LinesRemoved(c, read, id, ev)
      ELSE IF new # EMPTY /\ CASCADE_UPDATES \in mode THEN LinesMoved(c, read, id, new, ev)
      ELSE IF Sees(s, "pid", id) # {} THEN Failing(read) ELSE read

-----------------------------------------------------------------------------
(* Statements *)

Active(c) == c \in DOMAIN txn /\ ~txn[c].conflict
CanGo(c) == Active(c) /\ done < MaxDone

Going(c, reads) ==
  [file |-> file, t |-> [txn[c] EXCEPT !.reads = @ \cup reads], failed |-> FALSE]

\* The statement has ended, with or without an exception.
Done(c, s) ==
  /\ Len(s.file) <= MaxFile
  /\ file' = s.file
  /\ txn' = [txn EXCEPT ![c] = s.t]
  /\ done' = done + 1
  /\ UNCHANGED <<db, fkey, mode>>

Add(c, r, ev) ==
  /\ CanGo(c)
  /\ LET checked == IF r.tbl = "lines" THEN Referring(Going(c, {}), r.pid) ELSE Going(c, {})
         entered == IF checked.failed THEN checked ELSE Entered(checked, r)
     IN  Done(c, Triggered(c, entered, r[KeysOf(r.tbl)[1]], ev))
  /\ UNCHANGED loose

RemoveLine(c, o, ev) ==
  /\ CanGo(c) /\ o \in txn[c].view /\ file[o].tbl = "lines"
  /\ Done(c, LineRemoved(c, Going(c, {<<"no", file[o].no>>}), o, ev))
  /\ UNCHANGED loose

UpdateLine(c, o, pid, ev) ==
  /\ CanGo(c) /\ o \in txn[c].view /\ file[o].tbl = "lines"
  /\ LET going == Going(c, {<<"no", file[o].no>>})
         checked == IF pid = file[o].pid THEN going ELSE Referring(going, pid)
     IN  Done(c, IF checked.failed THEN checked ELSE LineMoved(c, checked, o, pid, ev))
  /\ UNCHANGED loose

RemoveParent(c, o, ev) ==
  /\ CanGo(c) /\ o \in txn[c].view /\ file[o].tbl = "parents"
  /\ LET id == file[o].id
         free == Dereferring(c, Going(c, {<<"id", id>>}), id, EMPTY, ev)
     IN  Done(c, IF free.failed THEN free
                 ELSE Triggered(c, DeleteAct(c, free, o), id, ev))
  /\ UNCHANGED loose

\* Lines move to the new id before the parent has it.  If it cannot get it
\* they stay there; and lines that are rewritten meanwhile stay behind.
UpdateParent(c, o, id, name, ev) ==
  /\ CanGo(c) /\ o \in txn[c].view /\ file[o].tbl = "parents"
  /\ LET old == file[o].id
         going == Going(c, {<<"id", old>>})
         moved == IF id = old THEN going ELSE Dereferring(c, going, old, id, ev)
         ended == IF moved.failed THEN moved
                  ELSE Triggered(c, Replaced(c, moved, o, Parent(id, name)), id, ev)
         cascaded == id # old /\ Len(moved.file) > Len(file)
     IN  /\ Done(c, ended)
         /\ loose' = loose \cup
              (IF cascaded /\ ended.failed THEN {<<id, "failure">>} ELSE {}) \cup
              (IF cascaded /\ ev.does = "rewrite" /\ Sees(ended, "pid", old) # {}
               THEN {<<old, "trigger">>} ELSE {})

Statement(c) ==
  \/ \E id \in Ids : \E name \in Names, ev \in Events({id}) :
       Add(c, Parent(id, name), ev)
  \/ \E no \in Nos : \E pid \in Ids \cup {EMPTY}, ev \in Events({no}) :
       Add(c, Line(no, pid), ev)
  \/ \E o \in DOMAIN file, no \in Nos : \E ev \in Events({no}) :
       \/ RemoveLine(c, o, ev)
       \/ \E pid \in Ids \cup {EMPTY} : UpdateLine(c, o, pid, ev)
  \/ \E o \in DOMAIN file, ev \in Events(Ids \cup Nos) :
       \/ RemoveParent(c, o, ev)
       \/ \E id \in Ids, name \in Names : UpdateParent(c, o, id, name, ev)

-----------------------------------------------------------------------------
(* Transactions *)

Begin(c) ==
  /\ c \notin DOMAIN txn
  /\ txn' = [u \in DOMAIN txn \cup {c} |->
               IF u # c THEN txn[u]
               ELSE [view |-> db, creates |-> {}, deletes |-> {}, reads |-> {},
                     since |-> {}, conflict |-> FALSE]]
  /\ UNCHANGED <<file, db, fkey, mode, loose, done>>

\* Mutant: of the acts of others only the deletions are looked at.
ReadsStandDeletes(t) ==
  \A o \in t.since \ db, i \in {"id", "name", "no", "pid"} :
    i \in IndexesOf(file[o]) => <<i, file[o][i]>> \notin t.reads

\* No act committed since the start of t is on anything it read.
ReadsStand(t) ==
  \A o \in t.since, i \in {"id", "name", "no", "pid"} :
    i \in IndexesOf(file[o]) => <<i, file[o][i]>> \notin t.reads

Commit(c) ==
  /\ Active(c)
  /\ LET t == txn[c]
         acts == t.creates \cup t.deletes
         ok == acts = {} \/ ReadsStand(t)
     IN  /\ db' = IF ok THEN (db \cup t.creates) \ t.deletes ELSE db
         /\ txn' = [u \in DOMAIN txn \ {c} |->
                      [txn[u] EXCEPT !.since = IF ok THEN @ \cup acts ELSE @]]
  /\ UNCHANGED <<file, fkey, mode, loose, done>>

Abort(c) ==
  /\ c \in DOMAIN txn
  /\ txn' = [u \in DOMAIN txn \ {c} |-> txn[u]]
  /\ UNCHANGED <<file, db, fkey, mode, loose, done>>

\* The entries of the indexes: also uncommitted versions, and deleted ones
\* that some transaction may still see.
Entries == db \cup UNION {txn[u].creates \cup txn[u].since : u \in DOMAIN txn}

\* The lines that nrecords counts: without those that a transaction has removed.
Counted ==
  LET created == UNION {txn[u].creates : u \in DOMAIN txn}
      deleted == UNION {txn[u].deletes : u \in DOMAIN txn}
  IN  {o \in (db \cup created) \ deleted : file[o].tbl = "lines"}

\* add_index is schema_tran, which sees all entries, and takes any parent for
\* one that will stay.  Transactions that have changed parents or lines have
\* not looked at the other table, and never will.  It does not look at the lines
\* at all when none is counted: the new index is then without those that an
\* abort brings back, which are among the loose here.
AddForeignKey ==
  /\ ~fkey
  /\ LET Ref(o) == IF file[o].tbl = "lines" THEN file[o].pid ELSE file[o].id
         dangling(offs) == {o \in offs : /\ file[o].tbl = "lines" /\ Ref(o) # EMPTY
                                         /\ Found(file, offs, "id", Ref(o)) = {}}
         changing == UNION {txn[u].creates \cup txn[u].deletes : u \in DOMAIN txn}
     IN  /\ Counted # {} => dangling(Entries) = {}
         /\ loose' = loose \cup
              {<<Ref(o), "index">> : o \in {p \in changing : Ref(p) # EMPTY} \cup dangling(db)}
  /\ fkey' = TRUE
  /\ UNCHANGED <<file, db, txn, mode, done>>

-----------------------------------------------------------------------------
Init ==
  /\ file \in Tables
  /\ db = DOMAIN file
  /\ txn = [c \in {} |-> c]
  /\ fkey \in BOOLEAN
  /\ fkey => \A o \in db : file[o].tbl = "lines" /\ file[o].pid # EMPTY =>
                             Found(file, db, "id", file[o].pid) # {}
  /\ mode \in Modes
  /\ loose = {}
  /\ done = 0

Next ==
  \/ \E c \in Trans : Begin(c) \/ Statement(c) \/ Commit(c) \/ Abort(c)
  \/ AddForeignKey

Spec == Init /\ [][Next]_vars

-----------------------------------------------------------------------------
TypeOK ==
  /\ file \in Seq(Records) /\ db \subseteq DOMAIN file
  /\ DOMAIN txn \subseteq Trans
  /\ \A c \in DOMAIN txn :
       /\ txn[c].view \cup txn[c].since \subseteq DOMAIN file
       /\ txn[c].creates \cap db = {}
       /\ txn[c].view \cap txn[c].deletes = {}
       /\ txn[c].conflict \in BOOLEAN
  /\ fkey \in BOOLEAN /\ mode \in Modes
  /\ loose \subseteq Ids \X {"failure", "trigger", "index"}
  /\ done \in 0..MaxDone

Orphans == {o \in db : /\ file[o].tbl = "lines" /\ file[o].pid # EMPTY
                       /\ Found(file, db, "id", file[o].pid) = {}}

\* The committed lines refer to committed parents: whatever blocked, cascaded,
\* failed half way and was committed nevertheless, and whatever transactions
\* that do not see each other do to a parent and to its lines.  What is known
\* to go wrong is an update of an id whose cascade is done and which then fails
\* or during which a trigger rewrites lines, and a foreign key that is added
\* over lines or parents that are still changing.
ReferencesHold ==
  fkey => \A o \in Orphans : \E why \in {"failure", "trigger", "index"} :
            <<file[o].pid, why>> \in loose

\* Both keys of the parents and the key of the lines stay unique, with the
\* deletions of failed updates undone, inside cascades too.
KeysUnique == UniqueIn(file, db)

-----------------------------------------------------------------------------
(* What the code says of itself and does not do *)

\* database.cpp:736 "need to reset prevsize in case trigger updates other lines
\* otherwise iter doesn't 'see' the updated lines": a cascade leaves no line
\* behind that a trigger has rewritten.
CascadesSeeRewrittenLines ==
  fkey => \A o \in Orphans : \E why \in {"failure", "index"} :
            <<file[o].pid, why>> \in loose
=============================================================================
