---------------------------- MODULE RebuildProofs ----------------------------
(***************************************************************************)
(* Proofs about Rebuild, for any names, columns, requests and bounds.      *)
(***************************************************************************)
EXTENDS Rebuild, SequenceTheorems, FiniteSetTheorems, WellFoundedInduction, TLAPS

-----------------------------------------------------------------------------
(* Types *)

Numbers == 1 .. TN_VIEWS + MaxTables

TablesBlock == [kind : {"tables"}, tbl : Numbers, name : Names,
                nextfield : Nat, nrows : Int, hidden : BOOLEAN]
ColumnsBlock == [kind : {"columns"}, tbl : Numbers, column : Columns, field : Nat]
IndexesBlock == [kind : {"indexes"}, tbl : Numbers, column : Columns]
DataBlock == [kind : {"data"}, tbl : Numbers, id : Nat]
CommitBlock == [kind : {"commit"}, creates : SUBSET Nat, deletes : SUBSET Nat]
SchemaBlock == TablesBlock \cup ColumnsBlock \cup IndexesBlock
Block == SchemaBlock \cup DataBlock \cup CommitBlock

SchemaKinds == {"tables", "columns", "indexes"}

Logs == Seq(Block)
Dbs == [log : Logs, live : SUBSET Nat, rows : SUBSET (Nat \X Nat), drops : SUBSET Nat]

OfKind(log, kind) == {o \in DOMAIN log : log[o].kind = kind}

\* A commit record names what is before it.
LogFits(log) ==
  /\ log \in Logs
  /\ \A c \in Commits(log) :
       /\ log[c].creates \subseteq 1 .. c - 1 /\ log[c].creates \subseteq OfKind(log, "data")
       /\ log[c].deletes \subseteq 1 .. c - 1

DbFits(d) ==
  /\ d \in Dbs
  /\ LogFits(d.log)
  /\ \A o \in d.live : o \in DOMAIN d.log /\ d.log[o].kind \in SchemaKinds
  /\ \A r \in d.rows : r[1] \in Tables(d) /\ r[2] \in OfKind(d.log, "data")
  /\ d.drops \subseteq DOMAIN d.log \ d.live

TInv ==
  /\ DbFits(db)
  /\ Len(db.log) <= MaxLog + rebuilds
  /\ Commits(db.log) # {}
  /\ fresh \subseteq OfKind(db.log, "data") /\ going \subseteq OfKind(db.log, "data")
  /\ nexttable \in 1 .. TN_VIEWS + MaxTables + 1
  /\ rebuilds \in 0 .. MaxRebuilds
  /\ sum \in BOOLEAN /\ up \in BOOLEAN /\ plain \in BOOLEAN
  /\ ~ up => fresh = {} /\ going = {}

LEMMA BlockIs ==
  ASSUME NEW b \in Block
  PROVE  /\ b.kind \in {"tables", "columns", "indexes", "data", "commit"}
         /\ b.kind = "tables" => b \in TablesBlock
         /\ b.kind = "columns" => b \in ColumnsBlock
         /\ b.kind = "indexes" => b \in IndexesBlock
         /\ b.kind = "data" => b \in DataBlock
         /\ b.kind = "commit" => b \in CommitBlock
         /\ b.kind \in SchemaKinds => b \in SchemaBlock
BY DEF Block, SchemaBlock, TablesBlock, ColumnsBlock, IndexesBlock, DataBlock, CommitBlock, SchemaKinds

LEMMA TypeGivesTypeOK == TInv => TypeOK
<1> SUFFICES ASSUME TInv PROVE TypeOK
  OBVIOUS
<1>1. /\ fresh \cup going \subseteq {o \in Offsets : db.log[o].kind = "data"}
      /\ nexttable \in 1 .. TN_VIEWS + MaxTables + 1
      /\ rebuilds \in 0 .. MaxRebuilds /\ sum \in BOOLEAN /\ up \in BOOLEAN
      /\ Len(db.log) <= MaxLog + rebuilds
  BY DEF TInv, OfKind, Offsets
<1>2. \A o \in db.live : db.log[o].kind \in {"tables", "columns", "indexes"}
  BY DEF TInv, DbFits, SchemaKinds
<1>3. \A r \in db.rows : r[1] \in Tables(db) /\ db.log[r[2]].kind = "data"
  BY DEF TInv, DbFits, OfKind
<1>4. db.drops \subseteq Offsets \ db.live
  BY DEF TInv, DbFits, Offsets
<1> QED
  BY <1>1, <1>2, <1>3, <1>4 DEF TypeOK

-----------------------------------------------------------------------------
(* Files that grow *)

AlikeBlock(b, c) ==
  /\ c.kind = b.kind
  /\ b.kind # "tables" => c = b
  /\ b.kind = "tables" => /\ c.tbl = b.tbl /\ c.name = b.name /\ c.hidden = b.hidden
                          /\ b.nextfield <= c.nextfield

Grown(log, log2) ==
  /\ log2 \in Logs /\ Len(log) <= Len(log2)
  /\ \A o \in 1 .. Len(log) : AlikeBlock(log[o], log2[o])

\* log2 is log with the block b at its end.
Longer(log, b, log2) ==
  /\ log2 \in Logs /\ Len(log2) = Len(log) + 1
  /\ \A o \in 1 .. Len(log) : log2[o] = log[o]
  /\ log2[Len(log) + 1] = b

LEMMA LogIs ==
  ASSUME NEW log \in Logs
  PROVE  /\ Len(log) \in Nat /\ DOMAIN log = 1 .. Len(log)
         /\ \A o \in 1 .. Len(log) : log[o] \in Block
BY DEF Logs

LEMMA AlikeSelf ==
  ASSUME NEW b \in Block
  PROVE  AlikeBlock(b, b)
BY BlockIs DEF AlikeBlock, TablesBlock

LEMMA AppendIs ==
  ASSUME NEW log \in Logs, NEW b \in Block
  PROVE  Longer(log, b, Append(log, b))
BY DEF Longer, Logs

LEMMA LongerIsGrown ==
  ASSUME NEW log \in Logs, NEW b \in Block, NEW log2, Longer(log, b, log2)
  PROVE  Grown(log, log2)
<1>1. Len(log) \in Nat /\ \A o \in 1 .. Len(log) : log[o] \in Block
  BY LogIs
<1>2. log2 \in Logs /\ Len(log2) = Len(log) + 1 /\ \A o \in 1 .. Len(log) : log2[o] = log[o]
  BY DEF Longer
<1>3. \A o \in 1 .. Len(log) : AlikeBlock(log[o], log2[o])
  BY <1>1, <1>2, AlikeSelf
<1> QED
  BY <1>1, <1>2, <1>3 DEF Grown

LEMMA GrownSelf ==
  ASSUME NEW log \in Logs
  PROVE  Grown(log, log)
<1>1. Len(log) \in Nat /\ \A o \in 1 .. Len(log) : log[o] \in Block
  BY LogIs
<1>3. \A o \in 1 .. Len(log) : AlikeBlock(log[o], log[o])
  BY <1>1, AlikeSelf
<1> QED
  BY <1>1, <1>3 DEF Grown

LEMMA AlikeTransitive ==
  ASSUME NEW a \in Block, NEW b \in Block, NEW c \in Block, AlikeBlock(a, b), AlikeBlock(b, c)
  PROVE  AlikeBlock(a, c)
<1>1. CASE a.kind # "tables"
  BY <1>1 DEF AlikeBlock
<1>2. CASE a.kind = "tables"
  <2>1. a \in TablesBlock /\ b \in TablesBlock /\ c \in TablesBlock
    BY <1>2, BlockIs DEF AlikeBlock
  <2>2. a.nextfield \in Nat /\ b.nextfield \in Nat /\ c.nextfield \in Nat
    BY <2>1 DEF TablesBlock
  <2> QED
    BY <1>2, <2>2 DEF AlikeBlock
<1> QED
  BY <1>1, <1>2

LEMMA GrownTransitive ==
  ASSUME NEW log \in Logs, NEW log2, NEW log3, Grown(log, log2), Grown(log2, log3)
  PROVE  Grown(log, log3)
<1>1. /\ log2 \in Logs /\ log3 \in Logs /\ Len(log) \in Nat /\ Len(log2) \in Nat /\ Len(log3) \in Nat
      /\ Len(log) <= Len(log2) /\ Len(log2) <= Len(log3)
  BY LogIs DEF Grown
<1>2. ASSUME NEW o \in 1 .. Len(log) PROVE AlikeBlock(log[o], log3[o])
  <2>1. o \in 1 .. Len(log2) /\ o \in 1 .. Len(log3)
    BY <1>1
  <2>2. log[o] \in Block /\ log2[o] \in Block /\ log3[o] \in Block
    BY <1>1, <2>1, LogIs
  <2>3. AlikeBlock(log[o], log2[o]) /\ AlikeBlock(log2[o], log3[o])
    BY <2>1 DEF Grown
  <2> QED
    BY <2>2, <2>3, AlikeTransitive
<1> QED
  BY <1>1, <1>2 DEF Grown

\* The kinds of blocks are what they were, and so are the tables they are of.
LEMMA GrownKinds ==
  ASSUME NEW log \in Logs, NEW log2, Grown(log, log2)
  PROVE  /\ 1 .. Len(log) \subseteq 1 .. Len(log2) /\ DOMAIN log \subseteq DOMAIN log2
         /\ \A o \in DOMAIN log : log2[o].kind = log[o].kind
         /\ \A o \in DOMAIN log : log[o].kind # "tables" => log2[o] = log[o]
         /\ \A o \in DOMAIN log : log[o].kind \in SchemaKinds \cup {"data"} => log2[o].tbl = log[o].tbl
         /\ \A kind : OfKind(log, kind) = OfKind(log2, kind) \cap DOMAIN log
<1>1. Len(log) \in Nat /\ Len(log2) \in Nat /\ Len(log) <= Len(log2) /\ log2 \in Logs
  BY LogIs DEF Grown
<1>2. DOMAIN log = 1 .. Len(log) /\ DOMAIN log2 = 1 .. Len(log2)
  BY <1>1, LogIs
<1>3. \A o \in DOMAIN log : AlikeBlock(log[o], log2[o])
  BY <1>2 DEF Grown
<1>4. 1 .. Len(log) \subseteq 1 .. Len(log2)
  BY <1>1
<1>5. \A o \in DOMAIN log : log2[o].kind = log[o].kind
  BY <1>3 DEF AlikeBlock
<1>6. \A o \in DOMAIN log : log[o].kind # "tables" => log2[o] = log[o]
  BY <1>3 DEF AlikeBlock
<1>7. \A o \in DOMAIN log : log[o].kind \in SchemaKinds \cup {"data"} => log2[o].tbl = log[o].tbl
  BY <1>3 DEF AlikeBlock, SchemaKinds
<1>8. \A kind : OfKind(log, kind) = OfKind(log2, kind) \cap DOMAIN log
  BY <1>2, <1>4, <1>5 DEF OfKind
<1> QED
  BY <1>2, <1>4, <1>5, <1>6, <1>7, <1>8

\* What is new in a file that has grown has no commit record in it.
NoCommits(log, log2) == \A o \in DOMAIN log2 \ DOMAIN log : log2[o].kind # "commit"

LEMMA GrownCommits ==
  ASSUME NEW log \in Logs, NEW log2, Grown(log, log2), NoCommits(log, log2)
  PROVE  /\ Commits(log2) = Commits(log)
         /\ \A c \in Commits(log) : log2[c] = log[c]
         /\ Deleted(log2) = Deleted(log)
<1>1. Commits(log2) = Commits(log)
  BY GrownKinds DEF Commits, NoCommits
<1>2. \A c \in Commits(log) : log2[c] = log[c]
  BY GrownKinds DEF Commits
<1> QED
  BY <1>1, <1>2 DEF Deleted

LEMMA GrownFits ==
  ASSUME NEW log, LogFits(log), NEW log2, Grown(log, log2), NoCommits(log, log2)
  PROVE  LogFits(log2)
<1>1. log \in Logs /\ log2 \in Logs
  BY DEF LogFits, Grown
<1>2. Commits(log2) = Commits(log) /\ \A c \in Commits(log) : log2[c] = log[c]
  BY <1>1, GrownCommits
<1>3. OfKind(log, "data") \subseteq OfKind(log2, "data")
  BY <1>1, GrownKinds
<1> QED
  BY <1>1, <1>2, <1>3 DEF LogFits

\* A commit record of what is before it.
LEMMA CommitFits ==
  ASSUME NEW log, LogFits(log), NEW creates, NEW deletes,
         creates \subseteq OfKind(log, "data"), deletes \subseteq DOMAIN log,
         NEW log2, Longer(log, CommitRec(creates, deletes), log2)
  PROVE  LogFits(log2)
<1>1. log \in Logs /\ Len(log) \in Nat /\ DOMAIN log = 1 .. Len(log)
  BY LogIs DEF LogFits
<1>2. CommitRec(creates, deletes) \in Block
  BY <1>1 DEF CommitRec, Block, CommitBlock, OfKind
<1>3. Grown(log, log2)
  BY <1>1, <1>2, LongerIsGrown
<1>4. /\ log2 \in Logs /\ DOMAIN log2 = 1 .. Len(log) + 1
      /\ log2[Len(log) + 1] = CommitRec(creates, deletes)
  BY <1>1, LogIs DEF Longer
<1>5. OfKind(log, "data") \subseteq OfKind(log2, "data")
  BY <1>1, <1>3, GrownKinds
<1>6. creates \subseteq 1 .. Len(log) /\ deletes \subseteq 1 .. Len(log)
  BY <1>1 DEF OfKind
<1> SUFFICES ASSUME NEW c \in Commits(log2)
             PROVE  /\ log2[c].creates \subseteq 1 .. c - 1
                    /\ log2[c].creates \subseteq OfKind(log2, "data")
                    /\ log2[c].deletes \subseteq 1 .. c - 1
  BY <1>4 DEF LogFits
<1>7. CASE c \in 1 .. Len(log)
  <2>1. c \in DOMAIN log /\ log2[c] = log[c] /\ c \in Commits(log)
    BY <1>1, <1>7 DEF Longer, Commits
  <2> QED
    BY <2>1, <1>5 DEF LogFits
<1>8. CASE c = Len(log) + 1
  <2>1. log2[c].creates = creates /\ log2[c].deletes = deletes
    BY <1>4, <1>8 DEF CommitRec
  <2>2. c - 1 = Len(log)
    BY <1>1, <1>8
  <2> QED
    BY <2>1, <2>2, <1>5, <1>6
<1>9. c \in 1 .. Len(log) \/ c = Len(log) + 1
  BY <1>1, <1>4 DEF Commits
<1> QED
  BY <1>7, <1>8, <1>9

-----------------------------------------------------------------------------
(* What requests do to the schema *)

NewIn(d, d2) == DOMAIN d2.log \ DOMAIN d.log

\* d2 is d with schema records at its end, all live but those in gone, which
\* may be of d too.  Records of tables may have been updated in place.
Edited(d, gone, d2) ==
  /\ d2 \in Dbs /\ Grown(d.log, d2.log)
  /\ \A o \in NewIn(d, d2) : d2.log[o].kind \in SchemaKinds
  /\ gone \subseteq d.live \cup NewIn(d, d2)
  /\ d2.live = (d.live \cup NewIn(d, d2)) \ gone
  /\ d2.drops = d.drops \cup gone

LEMMA DbIs ==
  ASSUME NEW d \in Dbs
  PROVE  /\ d.log \in Logs /\ Len(d.log) \in Nat /\ DOMAIN d.log = 1 .. Len(d.log)
         /\ \A o \in 1 .. Len(d.log) : d.log[o] \in Block
         /\ NewOff(d) = Len(d.log) + 1 /\ NewOff(d) \in Nat
BY LogIs DEF Dbs, NewOff

LEMMA LongerDomain ==
  ASSUME NEW log \in Logs, NEW b, NEW log2, Longer(log, b, log2)
  PROVE  /\ DOMAIN log = 1 .. Len(log) /\ DOMAIN log2 = DOMAIN log \cup {Len(log) + 1}
         /\ DOMAIN log2 \ DOMAIN log = {Len(log) + 1} /\ Len(log) + 1 \notin DOMAIN log
<1>1. Len(log) \in Nat /\ DOMAIN log = 1 .. Len(log) /\ log2 \in Logs
  BY LogIs DEF Longer
<1>2. DOMAIN log2 = 1 .. Len(log) + 1
  BY <1>1, LogIs DEF Longer
<1>3. 1 .. Len(log) + 1 = (1 .. Len(log)) \cup {Len(log) + 1} /\ Len(log) + 1 \notin 1 .. Len(log)
  BY <1>1
<1> QED
  BY <1>1, <1>2, <1>3

LEMMA OutputIs ==
  ASSUME NEW d \in Dbs, NEW rec \in Block
  PROVE  /\ Output(d, rec) \in Dbs
         /\ Longer(d.log, rec, Output(d, rec).log)
         /\ Output(d, rec).live = d.live /\ Output(d, rec).rows = d.rows
         /\ Output(d, rec).drops = d.drops
<1>1. d.log \in Logs
  BY DbIs
<1>2. Longer(d.log, rec, Append(d.log, rec)) /\ Append(d.log, rec) \in Logs
  BY <1>1, AppendIs DEF Longer
<1> QED
  BY <1>2 DEF Output, Dbs

LEMMA AddSchemaIs ==
  ASSUME NEW d \in Dbs, NEW rec \in Block
  PROVE  /\ AddSchema(d, rec) \in Dbs
         /\ Longer(d.log, rec, AddSchema(d, rec).log)
         /\ AddSchema(d, rec).live = d.live \cup {Len(d.log) + 1}
         /\ AddSchema(d, rec).rows = d.rows /\ AddSchema(d, rec).drops = d.drops
<1>1. PICK e : e = Output(d, rec)
  OBVIOUS
<1>2. /\ e \in Dbs /\ Longer(d.log, rec, e.log) /\ e.live = d.live
      /\ e.rows = d.rows /\ e.drops = d.drops
  BY <1>1, OutputIs
<1>3. NewOff(d) = Len(d.log) + 1 /\ NewOff(d) \in Nat
  BY DbIs
<1>4. AddSchema(d, rec) = [e EXCEPT !.live = e.live \cup {NewOff(d)}]
  BY <1>1 DEF AddSchema
<1> QED
  BY <1>2, <1>3, <1>4 DEF Dbs

LEMMA RemoveSchemaIs ==
  ASSUME NEW d \in Dbs, NEW offs, offs \subseteq Nat
  PROVE  /\ RemoveSchema(d, offs) \in Dbs
         /\ RemoveSchema(d, offs).log = d.log
         /\ RemoveSchema(d, offs).live = d.live \ offs
         /\ RemoveSchema(d, offs).drops = d.drops \cup offs
         /\ RemoveSchema(d, offs).rows = d.rows
BY DEF RemoveSchema, Dbs

LEMMA AddSchemaEdits ==
  ASSUME NEW d \in Dbs, NEW rec \in SchemaBlock
  PROVE  Edited(d, {}, AddSchema(d, rec))
<1>1. rec \in Block /\ rec.kind \in SchemaKinds
  BY DEF Block, SchemaBlock, TablesBlock, ColumnsBlock, IndexesBlock, SchemaKinds
<1>2. PICK e : e = AddSchema(d, rec)
  OBVIOUS
<1>3. /\ e \in Dbs /\ Longer(d.log, rec, e.log) /\ e.live = d.live \cup {Len(d.log) + 1}
      /\ e.drops = d.drops
  BY <1>1, <1>2, AddSchemaIs
<1>4. d.log \in Logs
  BY DbIs
<1>5. Grown(d.log, e.log)
  BY <1>1, <1>3, <1>4, LongerIsGrown
<1>6. NewIn(d, e) = {Len(d.log) + 1}
  BY <1>3, <1>4, LongerDomain DEF NewIn
<1>7. e.log[Len(d.log) + 1] = rec
  BY <1>3 DEF Longer
<1> QED
  BY <1>1, <1>2, <1>3, <1>5, <1>6, <1>7 DEF Edited

LEMMA RemoveSchemaEdits ==
  ASSUME NEW d \in Dbs, NEW offs, offs \subseteq d.live
  PROVE  Edited(d, offs, RemoveSchema(d, offs))
<1>1. offs \subseteq Nat /\ d.log \in Logs
  BY DEF Dbs
<1>2. PICK e : e = RemoveSchema(d, offs)
  OBVIOUS
<1>3. /\ e \in Dbs /\ e.log = d.log /\ e.live = d.live \ offs /\ e.drops = d.drops \cup offs
  BY <1>1, <1>2, RemoveSchemaIs
<1>4. Grown(d.log, e.log) /\ NewIn(d, e) = {}
  BY <1>1, <1>3, GrownSelf DEF NewIn
<1> QED
  BY <1>2, <1>3, <1>4 DEF Edited

LEMMA EditedTwice ==
  ASSUME NEW d \in Dbs, d.live \subseteq DOMAIN d.log,
         NEW g, NEW e, Edited(d, g, e), NEW h, NEW f, Edited(e, h, f)
  PROVE  /\ Edited(d, g \cup h, f)
         /\ e.live \subseteq DOMAIN e.log /\ e \in Dbs
         /\ NewIn(d, f) = NewIn(d, e) \cup NewIn(e, f)
<1>1. /\ e \in Dbs /\ f \in Dbs /\ d.log \in Logs /\ e.log \in Logs
      /\ Grown(d.log, e.log) /\ Grown(e.log, f.log)
  BY DEF Edited, Dbs
<1>2. Grown(d.log, f.log)
  BY <1>1, GrownTransitive
<1>3. DOMAIN d.log \subseteq DOMAIN e.log /\ DOMAIN e.log \subseteq DOMAIN f.log
  BY <1>1, GrownKinds
<1>4. NewIn(d, f) = NewIn(d, e) \cup NewIn(e, f) /\ NewIn(e, f) \cap DOMAIN e.log = {}
  BY <1>3 DEF NewIn
<1>5. NewIn(d, e) \subseteq DOMAIN e.log
  BY DEF NewIn
<1>6. \A o \in NewIn(d, e) : f.log[o].kind = e.log[o].kind
  BY <1>1, <1>5, GrownKinds
<1>7. \A o \in NewIn(d, f) : f.log[o].kind \in SchemaKinds
  BY <1>4, <1>6 DEF Edited
<1>8. /\ g \subseteq d.live \cup NewIn(d, e) /\ e.live = (d.live \cup NewIn(d, e)) \ g
      /\ h \subseteq e.live \cup NewIn(e, f) /\ f.live = (e.live \cup NewIn(e, f)) \ h
      /\ e.drops = d.drops \cup g /\ f.drops = e.drops \cup h
  BY DEF Edited
<1>9. e.live \subseteq DOMAIN e.log
  BY <1>3, <1>5, <1>8
<1>10. g \cap NewIn(e, f) = {}
  BY <1>3, <1>4, <1>5, <1>8
<1>11. /\ g \cup h \subseteq d.live \cup NewIn(d, f)
       /\ f.live = (d.live \cup NewIn(d, f)) \ (g \cup h) /\ f.drops = d.drops \cup (g \cup h)
  BY <1>4, <1>8, <1>10
<1> QED
  BY <1>1, <1>2, <1>4, <1>7, <1>9, <1>11 DEF Edited

\* The tables that are not removed are still there.
LEMMA EditedTables ==
  ASSUME NEW d, DbFits(d), NEW gone, NEW d2, Edited(d, gone, d2), NEW t \in Tables(d),
         \A o \in gone \cap DOMAIN d.log : d.log[o].kind = "tables" => d.log[o].tbl # t
  PROVE  t \in Tables(d2)
<1>1. PICK o \in d.live : o \in DOMAIN d.log /\ d.log[o].kind = "tables" /\ d.log[o].tbl = t
  BY DEF Tables, Live, DbFits
<1>2. d.log \in Logs /\ Grown(d.log, d2.log)
  BY DEF DbFits, LogFits, Edited
<1>3. d2.log[o].kind = "tables" /\ d2.log[o].tbl = t
  BY <1>1, <1>2, GrownKinds DEF SchemaKinds
<1>4. o \in d2.live
  BY <1>1 DEF Edited
<1> QED
  BY <1>3, <1>4 DEF Tables, Live

LEMMA EditedFits ==
  ASSUME NEW d, DbFits(d), NEW gone, NEW d2, Edited(d, gone, d2),
         d2.rows \subseteq d.rows, \A r \in d2.rows : r[1] \in Tables(d2)
  PROVE  DbFits(d2) /\ NoCommits(d.log, d2.log)
<1>1. d.log \in Logs /\ d \in Dbs /\ d2 \in Dbs /\ Grown(d.log, d2.log) /\ LogFits(d.log)
  BY DEF DbFits, Edited, Dbs
<1>2. NoCommits(d.log, d2.log)
  BY DEF Edited, NoCommits, NewIn, SchemaKinds
<1>3. LogFits(d2.log)
  BY <1>1, <1>2, GrownFits
<1>4. /\ DOMAIN d.log \subseteq DOMAIN d2.log
      /\ \A o \in DOMAIN d.log : d2.log[o].kind = d.log[o].kind
      /\ OfKind(d.log, "data") \subseteq OfKind(d2.log, "data")
  BY <1>1, GrownKinds
<1>5. \A o \in d2.live : o \in DOMAIN d2.log /\ d2.log[o].kind \in SchemaKinds
  BY <1>4 DEF Edited, NewIn, DbFits
<1>6. \A r \in d2.rows : r[2] \in OfKind(d2.log, "data")
  BY <1>4 DEF DbFits
<1>7. gone \subseteq DOMAIN d2.log
  BY <1>4 DEF Edited, NewIn, DbFits
<1>8. d2.drops \subseteq DOMAIN d2.log \ d2.live
  <2>1. d.drops \cap NewIn(d, d2) = {} /\ d.drops \cap d.live = {} /\ d.drops \subseteq DOMAIN d.log
    BY DEF DbFits, NewIn
  <2> QED
    BY <1>4, <1>7, <2>1 DEF Edited
<1> QED
  BY <1>1, <1>2, <1>3, <1>5, <1>6, <1>8 DEF DbFits

-----------------------------------------------------------------------------
(* Requests *)

LEMMA TableOfIs ==
  ASSUME NEW d, DbFits(d), NEW t \in Tables(d), NEW o, o = TableOf(d, t)
  PROVE  /\ o \in d.live /\ o \in DOMAIN d.log /\ d.log[o].kind = "tables" /\ d.log[o].tbl = t
         /\ d.log[o] \in TablesBlock /\ t \in Numbers
<1>1. \E p \in Live(d, "tables") : d.log[p].tbl = t
  BY DEF Tables
<1>2. o \in Live(d, "tables") /\ d.log[o].tbl = t
  BY <1>1 DEF TableOf
<1>3. o \in d.live /\ d.log[o].kind = "tables"
  BY <1>2 DEF Live
<1>4. d \in Dbs /\ o \in DOMAIN d.log
  BY <1>3 DEF DbFits
<1>5. d.log[o] \in Block
  BY <1>4, DbIs
<1>6. d.log[o] \in TablesBlock
  BY <1>3, <1>5, BlockIs
<1> QED
  BY <1>2, <1>3, <1>4, <1>6 DEF TablesBlock

\* log2 is log with the blocks a, b and c at its end.
Longer3(log, a, b, c, log2) ==
  /\ log2 \in Logs /\ Len(log2) = Len(log) + 3
  /\ \A o \in 1 .. Len(log) : log2[o] = log[o]
  /\ log2[Len(log) + 1] = a /\ log2[Len(log) + 2] = b /\ log2[Len(log) + 3] = c

LEMMA AddSchemaThrice ==
  ASSUME NEW d, DbFits(d), NEW a \in SchemaBlock, NEW b \in SchemaBlock, NEW c \in SchemaBlock,
         NEW f, f = AddSchema(AddSchema(AddSchema(d, a), b), c)
  PROVE  /\ Edited(d, {}, f) /\ Longer3(d.log, a, b, c, f.log) /\ f.rows = d.rows
<1>1. d \in Dbs /\ d.live \subseteq DOMAIN d.log /\ Len(d.log) \in Nat
  BY DbIs DEF DbFits
<1>2. a \in Block /\ b \in Block /\ c \in Block
  BY DEF Block
<1>3. PICK e : e = AddSchema(d, a)
  OBVIOUS
<1>4. e \in Dbs /\ Longer(d.log, a, e.log) /\ e.rows = d.rows /\ Edited(d, {}, e)
  BY <1>1, <1>2, <1>3, AddSchemaIs, AddSchemaEdits
<1>5. PICK g : g = AddSchema(e, b)
  OBVIOUS
<1>6. g \in Dbs /\ Longer(e.log, b, g.log) /\ g.rows = e.rows /\ Edited(e, {}, g)
  BY <1>2, <1>4, <1>5, AddSchemaIs, AddSchemaEdits
<1>7. f = AddSchema(g, c)
  BY <1>3, <1>5
<1>8. f \in Dbs /\ Longer(g.log, c, f.log) /\ f.rows = g.rows /\ Edited(g, {}, f)
  BY <1>2, <1>6, <1>7, AddSchemaIs, AddSchemaEdits
<1>9. Edited(d, {}, g) /\ g.live \subseteq DOMAIN g.log
  <2>1. Edited(d, {} \cup {}, g) /\ e.live \subseteq DOMAIN e.log
    BY <1>1, <1>4, <1>6, EditedTwice
  <2>2. {} \cup {} = {}
    OBVIOUS
  <2>3. DOMAIN e.log \subseteq DOMAIN g.log
    BY <1>4, <1>6, GrownKinds DEF Edited, Dbs
  <2> QED
    BY <2>1, <2>2, <2>3, <1>6 DEF Edited, NewIn
<1>10. Edited(d, {}, f)
  <2>1. Edited(d, {} \cup {}, f)
    BY <1>1, <1>8, <1>9, EditedTwice
  <2> QED
    BY <2>1
<1>11. /\ Len(e.log) = Len(d.log) + 1 /\ Len(g.log) = Len(d.log) + 2 /\ Len(f.log) = Len(d.log) + 3
       /\ f.log \in Logs
  BY <1>1, <1>4, <1>6, <1>8 DEF Longer
<1>12. \A o \in 1 .. Len(d.log) : f.log[o] = d.log[o]
  BY <1>1, <1>4, <1>6, <1>8, <1>11 DEF Longer
<1>13. f.log[Len(d.log) + 1] = a
  BY <1>1, <1>4, <1>6, <1>8, <1>11 DEF Longer
<1>14. f.log[Len(d.log) + 2] = b
  BY <1>1, <1>4, <1>6, <1>8, <1>11 DEF Longer
<1>15. f.log[Len(d.log) + 3] = c
  BY <1>1, <1>8, <1>11 DEF Longer
<1> QED
  BY <1>4, <1>6, <1>8, <1>10, <1>11, <1>12, <1>13, <1>14, <1>15 DEF Longer3

\* The record of table t has been replaced by one with another name.
LEMMA RenamedIs ==
  ASSUME NEW d, DbFits(d), NEW t \in Tables(d), NEW name \in Names, NEW hidden \in BOOLEAN,
         NEW f, f = Renamed(d, t, name, hidden), NEW o, o = TableOf(d, t)
  PROVE  /\ Edited(d, {o}, f) /\ f.rows = d.rows /\ DbFits(f)
         /\ Longer(d.log, [d.log[o] EXCEPT !.name = name, !.hidden = hidden], f.log)
         /\ [d.log[o] EXCEPT !.name = name, !.hidden = hidden] \in TablesBlock
         /\ \A u \in Tables(d) : u \in Tables(f)
<1>1. /\ d \in Dbs /\ d.live \subseteq DOMAIN d.log /\ Len(d.log) \in Nat
  BY DbIs DEF DbFits
<1>2. /\ o \in d.live /\ o \in DOMAIN d.log /\ d.log[o].kind = "tables" /\ d.log[o].tbl = t
      /\ d.log[o] \in TablesBlock
  BY TableOfIs
<1>3. PICK rec : rec = [d.log[o] EXCEPT !.name = name, !.hidden = hidden]
  OBVIOUS
<1>4. rec \in TablesBlock /\ rec.tbl = t /\ rec.kind = "tables"
  BY <1>2, <1>3 DEF TablesBlock
<1>5. rec \in SchemaBlock /\ rec \in Block
  BY <1>4 DEF SchemaBlock, Block
<1>6. PICK e : e = RemoveSchema(d, {o})
  OBVIOUS
<1>7. e \in Dbs /\ e.log = d.log /\ e.rows = d.rows /\ Edited(d, {o}, e)
  <2>1. {o} \subseteq Nat /\ {o} \subseteq d.live
    BY <1>1, <1>2 DEF Dbs
  <2> QED
    BY <1>1, <1>6, <2>1, RemoveSchemaIs, RemoveSchemaEdits
<1>8. f = AddSchema(e, rec)
  BY <1>3, <1>6 DEF Renamed
<1>9. Longer(e.log, rec, f.log) /\ f.rows = e.rows /\ Edited(e, {}, f)
  BY <1>5, <1>7, <1>8, AddSchemaIs, AddSchemaEdits
<1>10. Edited(d, {o}, f)
  <2>1. Edited(d, {o} \cup {}, f)
    BY <1>1, <1>7, <1>9, EditedTwice
  <2>2. {o} \cup {} = {o}
    OBVIOUS
  <2> QED
    BY <2>1, <2>2
<1>11. \A u \in Tables(d) : u \in Tables(f)
  <2> SUFFICES ASSUME NEW u \in Tables(d) PROVE u \in Tables(f)
    OBVIOUS
  <2>1. CASE u # t
    BY <1>2, <1>10, <2>1, EditedTables
  <2>2. CASE u = t
    <3>1. Len(d.log) + 1 \in NewIn(d, f) /\ f.log[Len(d.log) + 1] = rec
      BY <1>1, <1>5, <1>7, <1>9, LongerDomain, DbIs DEF NewIn, Longer
    <3>2. Len(d.log) + 1 \in f.live
      BY <3>1, <1>2, <1>10 DEF Edited, NewIn
    <3> QED
      BY <2>2, <3>1, <3>2, <1>4 DEF Tables, Live
  <2> QED
    BY <2>1, <2>2
<1>12. DbFits(f)
  <2>1. f.rows \subseteq d.rows /\ \A r \in f.rows : r[1] \in Tables(f)
    BY <1>7, <1>9, <1>11 DEF DbFits
  <2> QED
    BY <1>10, <2>1, EditedFits
<1> QED
  BY <1>3, <1>4, <1>7, <1>9, <1>10, <1>11, <1>12

\* A request leaves the entries of tables alone.
LEMMA SameRowsFit ==
  ASSUME NEW d, DbFits(d), NEW gone, NEW d2, Edited(d, gone, d2), d2.rows = d.rows,
         \A o \in gone \cap DOMAIN d.log : d.log[o].kind # "tables"
  PROVE  DbFits(d2)
<1>1. \A t \in Tables(d) : t \in Tables(d2)
  BY EditedTables
<1>2. \A r \in d2.rows : r[1] \in Tables(d2)
  BY <1>1 DEF DbFits
<1> QED
  BY <1>2, EditedFits

LEMMA CreateTableIs ==
  ASSUME TInv, NEW name \in Names, NEW col \in Columns, CreateTable(name, col)
  PROVE  /\ Edited(db, {}, db') /\ DbFits(db') /\ db'.rows = db.rows
         /\ Longer3(db.log, [TablesRec(nexttable, name) EXCEPT !.nextfield = 1],
                    ColumnsRec(nexttable, col, 0), IndexesRec(nexttable, col), db'.log)
<1>1. DbFits(db)
  BY DEF TInv
<1>2. PICK a, b, c : /\ a = [TablesRec(nexttable, name) EXCEPT !.nextfield = 1]
                     /\ b = ColumnsRec(nexttable, col, 0) /\ c = IndexesRec(nexttable, col)
  OBVIOUS
<1>3. nexttable \in Numbers
  BY RebuildBounds DEF TInv, CreateTable, Numbers, TN_VIEWS
<1>4. a \in SchemaBlock
  <2>1. PICK b0 : b0 = TablesRec(nexttable, name)
    OBVIOUS
  <2>2. b0 \in TablesBlock
    BY <2>1, <1>3 DEF TablesRec, TablesBlock
  <2>3. a = [b0 EXCEPT !.nextfield = 1]
    BY <2>1, <1>2
  <2>4. a \in TablesBlock
    BY <2>2, <2>3 DEF TablesBlock
  <2> QED
    BY <2>4 DEF SchemaBlock
<1>5. b \in SchemaBlock
  BY <1>2, <1>3 DEF ColumnsRec, SchemaBlock, ColumnsBlock
<1>6. c \in SchemaBlock
  BY <1>2, <1>3 DEF IndexesRec, SchemaBlock, IndexesBlock
<1>7. db' = AddSchema(AddSchema(AddSchema(db, a), b), c)
  BY <1>2 DEF CreateTable
<1>8. Edited(db, {}, db') /\ Longer3(db.log, a, b, c, db'.log) /\ db'.rows = db.rows
  BY <1>1, <1>4, <1>5, <1>6, <1>7, AddSchemaThrice
<1>9. DbFits(db')
  BY <1>1, <1>8, SameRowsFit
<1> QED
  BY <1>2, <1>8, <1>9

LEMMA CreateTableFailsIs ==
  ASSUME TInv, NEW name \in Names, CreateTableFails(name)
  PROVE  /\ Edited(db, {Len(db.log) + 1}, db') /\ DbFits(db') /\ db'.rows = db.rows
         /\ Longer(db.log, TablesRec(nexttable, name), db'.log)
<1>1. /\ DbFits(db) /\ db \in Dbs /\ Len(db.log) \in Nat /\ db.live \subseteq DOMAIN db.log
      /\ NewOff(db) = Len(db.log) + 1 /\ db.log \in Logs
  BY DbIs DEF TInv, DbFits
<1>2. PICK b, e : b = TablesRec(nexttable, name) /\ e = Output(db, b)
  OBVIOUS
<1>3. nexttable \in Numbers
  BY RebuildBounds DEF TInv, CreateTableFails, Numbers, TN_VIEWS
<1>4. b \in TablesBlock /\ b.kind = "tables"
  BY <1>2, <1>3 DEF TablesRec, TablesBlock
<1>5. b \in Block
  BY <1>4 DEF SchemaBlock, Block
<1>6. /\ e \in Dbs /\ Longer(db.log, b, e.log) /\ e.live = db.live /\ e.rows = db.rows
      /\ e.drops = db.drops
  BY <1>1, <1>2, <1>5, OutputIs
<1>7. db' = [e EXCEPT !.drops = e.drops \cup {Len(db.log) + 1}]
  BY <1>1, <1>2 DEF CreateTableFails
<1>8. /\ db' \in Dbs /\ db'.log = e.log /\ db'.live = db.live /\ db'.rows = db.rows
      /\ db'.drops = db.drops \cup {Len(db.log) + 1}
  BY <1>1, <1>6, <1>7 DEF Dbs
<1>9. /\ NewIn(db, db') = {Len(db.log) + 1} /\ Len(db.log) + 1 \notin DOMAIN db.log
      /\ db'.log[Len(db.log) + 1] = b
  BY <1>1, <1>6, <1>8, LongerDomain DEF NewIn, Longer
<1>10. Grown(db.log, db'.log)
  BY <1>1, <1>5, <1>6, <1>8, LongerIsGrown
<1>11. Edited(db, {Len(db.log) + 1}, db')
  BY <1>1, <1>4, <1>8, <1>9, <1>10 DEF Edited, SchemaKinds
<1>12. DbFits(db')
  BY <1>1, <1>8, <1>9, <1>11, SameRowsFit
<1> QED
  BY <1>2, <1>6, <1>8, <1>11, <1>12

PartsOf(d, t) == UNION {LiveOf(d, kind, t) : kind \in SchemaKinds}

LEMMA DropTableIs ==
  ASSUME TInv, NEW t \in Tables(db), DropTable(t)
  PROVE  /\ Edited(db, PartsOf(db, t), db') /\ DbFits(db') /\ db'.log = db.log
         /\ db'.rows = {r \in db.rows : r[1] # t}
<1>1. /\ DbFits(db) /\ db \in Dbs
  BY DEF TInv, DbFits
<1>2. PICK offs, e : offs = PartsOf(db, t) /\ e = RemoveSchema(db, offs)
  OBVIOUS
<1>3. \A o : o \in offs <=> o \in db.live /\ db.log[o].kind \in SchemaKinds /\ db.log[o].tbl = t
  BY <1>2 DEF PartsOf, LiveOf, Live
<1>4. offs \subseteq db.live /\ offs \subseteq Nat
  BY <1>1, <1>3 DEF Dbs
<1>5. /\ e \in Dbs /\ e.log = db.log /\ e.live = db.live \ offs /\ e.drops = db.drops \cup offs
      /\ e.rows = db.rows /\ Edited(db, offs, e)
  BY <1>1, <1>2, <1>4, RemoveSchemaIs, RemoveSchemaEdits
<1>6. db' = [e EXCEPT !.rows = {r \in e.rows : r[1] # t}]
  BY <1>2 DEF DropTable, PartsOf, SchemaKinds
<1>7. /\ db' \in Dbs /\ db'.log = e.log /\ db'.live = e.live /\ db'.drops = e.drops
      /\ db'.rows = {r \in e.rows : r[1] # t}
  BY <1>5, <1>6 DEF Dbs
<1>8. Edited(db, offs, db')
  BY <1>5, <1>7 DEF Edited, NewIn
<1>9. \A u \in Tables(db) : u # t => u \in Tables(db')
  BY <1>1, <1>3, <1>8, EditedTables
<1>10. db'.rows \subseteq db.rows /\ \A r \in db'.rows : r[1] \in Tables(db')
  BY <1>1, <1>5, <1>7, <1>9 DEF DbFits
<1>11. DbFits(db')
  BY <1>1, <1>8, <1>10, EditedFits
<1> QED
  BY <1>2, <1>5, <1>7, <1>8, <1>11

LEMMA RenameTableIs ==
  ASSUME TInv, NEW t \in Tables(db), NEW name \in Names, RenameTable(t, name),
         NEW o, o = TableOf(db, t)
  PROVE  /\ Edited(db, {o}, db') /\ DbFits(db') /\ db'.rows = db.rows
         /\ Longer(db.log, [db.log[o] EXCEPT !.name = name, !.hidden = FALSE], db'.log)
<1>1. DbFits(db) /\ db' = Renamed(db, t, name, FALSE)
  BY DEF TInv, RenameTable
<1> QED
  BY <1>1, RenamedIs

\* o's record says that the next field is the one after f.
Fielded(log, o, f, b, log2) ==
  /\ log2 \in Logs /\ Len(log2) = Len(log) + 1
  /\ \A p \in 1 .. Len(log) : p # o => log2[p] = log[p]
  /\ log2[o] = [log[o] EXCEPT !.nextfield = f + 1]
  /\ log2[Len(log) + 1] = b

LEMMA AddColumnIs ==
  ASSUME TInv, NEW t \in Tables(db), NEW col \in Columns, AddColumn(t, col),
         NEW o, o = TableOf(db, t)
  PROVE  /\ Edited(db, {}, db') /\ DbFits(db') /\ db'.rows = db.rows
         /\ Fielded(db.log, o, db.log[o].nextfield, ColumnsRec(t, col, db.log[o].nextfield), db'.log)
<1>1. /\ DbFits(db) /\ db \in Dbs /\ Len(db.log) \in Nat /\ db.log \in Logs
      /\ DOMAIN db.log = 1 .. Len(db.log)
  BY DbIs DEF TInv, DbFits
<1>2. /\ o \in DOMAIN db.log /\ db.log[o].kind = "tables" /\ db.log[o].tbl = t
      /\ db.log[o] \in TablesBlock /\ t \in Numbers
  BY <1>1, TableOfIs
<1>3. PICK f, b, e : /\ f = db.log[o].nextfield /\ b = ColumnsRec(t, col, f)
                     /\ e = AddSchema(db, b)
  OBVIOUS
<1>4. f \in Nat
  BY <1>2, <1>3 DEF TablesBlock
<1>5. b \in SchemaBlock /\ b \in Block /\ b.kind = "columns"
  BY <1>2, <1>3, <1>4 DEF ColumnsRec, SchemaBlock, ColumnsBlock, Block
<1>6. /\ e \in Dbs /\ Longer(db.log, b, e.log) /\ e.live = db.live \cup {Len(db.log) + 1}
      /\ e.rows = db.rows /\ e.drops = db.drops
  BY <1>1, <1>3, <1>5, AddSchemaIs
<1>7. PICK c : c = [db.log[o] EXCEPT !.nextfield = f + 1]
  OBVIOUS
<1>8. c \in TablesBlock /\ AlikeBlock(db.log[o], c) /\ c \in Block
  BY <1>2, <1>3, <1>4, <1>7 DEF TablesBlock, AlikeBlock, Block, SchemaBlock
<1>9. /\ e.log \in Logs /\ Len(e.log) = Len(db.log) + 1 /\ e.log[o] = db.log[o]
      /\ o \in 1 .. Len(e.log) /\ o # Len(db.log) + 1
      /\ \A p \in 1 .. Len(db.log) : p \in 1 .. Len(e.log)
  BY <1>1, <1>2, <1>6 DEF Longer
<1>10. db' = [e EXCEPT !.log = [e.log EXCEPT ![o] = c]]
  <2>1. db' = [e EXCEPT !.log[o].nextfield = f + 1]
    BY <1>3 DEF AddColumn
  <2>2. [e EXCEPT !.log[o].nextfield = f + 1] =
          [e EXCEPT !.log = [e.log EXCEPT ![o] = [e.log[o] EXCEPT !.nextfield = f + 1]]]
    OBVIOUS
  <2> QED
    BY <2>1, <2>2, <1>7, <1>9
<1>11. PICK log2 : log2 = [e.log EXCEPT ![o] = c]
  OBVIOUS
<1>12. /\ log2 \in Logs /\ Len(log2) = Len(db.log) + 1 /\ log2[o] = c
       /\ \A p \in 1 .. Len(db.log) + 1 : p # o => log2[p] = e.log[p]
  BY <1>8, <1>9, <1>11 DEF Logs
<1>13. /\ db' \in Dbs /\ db'.log = log2 /\ db'.live = db.live \cup {Len(db.log) + 1}
       /\ db'.rows = db.rows /\ db'.drops = db.drops
  BY <1>6, <1>10, <1>11, <1>12 DEF Dbs
<1>14. Fielded(db.log, o, f, b, log2)
  <2>1. \A p \in 1 .. Len(db.log) : p # o => log2[p] = db.log[p]
    BY <1>1, <1>6, <1>12 DEF Longer
  <2>2. log2[Len(db.log) + 1] = b
    BY <1>1, <1>6, <1>9, <1>12 DEF Longer
  <2> QED
    BY <2>1, <2>2, <1>7, <1>12 DEF Fielded
<1>15. \A p \in 1 .. Len(db.log) : AlikeBlock(db.log[p], log2[p])
  <2> SUFFICES ASSUME NEW p \in 1 .. Len(db.log) PROVE AlikeBlock(db.log[p], log2[p])
    OBVIOUS
  <2>1. db.log[p] \in Block
    BY <1>1, LogIs
  <2> QED
    BY <2>1, <1>8, <1>12, <1>14, AlikeSelf DEF Fielded
<1>16. Grown(db.log, log2)
  BY <1>1, <1>12, <1>15 DEF Grown
<1>17. NewIn(db, db') = {Len(db.log) + 1}
  <2>1. DOMAIN log2 = 1 .. Len(db.log) + 1
    BY <1>12, LogIs
  <2> QED
    BY <2>1, <1>1, <1>13 DEF NewIn
<1>18. db'.log[Len(db.log) + 1].kind \in SchemaKinds
  BY <1>5, <1>13, <1>14 DEF Fielded, SchemaKinds
<1>19. Edited(db, {}, db')
  BY <1>13, <1>16, <1>17, <1>18 DEF Edited
<1>20. DbFits(db')
  BY <1>1, <1>13, <1>19, SameRowsFit
<1> QED
  BY <1>3, <1>13, <1>14, <1>19, <1>20

LEMMA RemoveIs ==
  ASSUME NEW d, DbFits(d), NEW offs, offs \subseteq d.live,
         \A o \in offs : d.log[o].kind # "tables", NEW d2, d2 = RemoveSchema(d, offs)
  PROVE  Edited(d, offs, d2) /\ DbFits(d2) /\ d2.log = d.log /\ d2.rows = d.rows
<1>1. d \in Dbs /\ offs \subseteq Nat
  BY DEF DbFits, Dbs
<1>2. d2.log = d.log /\ d2.rows = d.rows /\ Edited(d, offs, d2)
  BY <1>1, RemoveSchemaIs, RemoveSchemaEdits
<1>3. DbFits(d2)
  BY <1>2, SameRowsFit
<1> QED
  BY <1>2, <1>3

LEMMA RemoveColumnIs ==
  ASSUME TInv, NEW t \in Tables(db), NEW col \in Columns, RemoveColumn(t, col),
         NEW offs, offs = On(db, LiveOf(db, "columns", t), col)
  PROVE  Edited(db, offs, db') /\ DbFits(db') /\ db'.log = db.log /\ db'.rows = db.rows
<1>1. DbFits(db) /\ db' = RemoveSchema(db, offs)
  BY DEF TInv, RemoveColumn
<1>2. offs \subseteq db.live /\ \A o \in offs : db.log[o].kind # "tables"
  BY DEF On, LiveOf, Live
<1> QED
  BY <1>1, <1>2, RemoveIs

LEMMA RemoveIndexIs ==
  ASSUME TInv, NEW t \in Tables(db), NEW col \in Columns, RemoveIndex(t, col),
         NEW offs, offs = On(db, LiveOf(db, "indexes", t), col)
  PROVE  Edited(db, offs, db') /\ DbFits(db') /\ db'.log = db.log /\ db'.rows = db.rows
<1>1. DbFits(db) /\ db' = RemoveSchema(db, offs)
  BY DEF TInv, RemoveIndex
<1>2. offs \subseteq db.live /\ \A o \in offs : db.log[o].kind # "tables"
  BY DEF On, LiveOf, Live
<1> QED
  BY <1>1, <1>2, RemoveIs

LEMMA AddIndexIs ==
  ASSUME TInv, NEW t \in Tables(db), NEW col \in Columns, AddIndex(t, col)
  PROVE  /\ Edited(db, {}, db') /\ DbFits(db') /\ db'.rows = db.rows
         /\ Longer(db.log, IndexesRec(t, col), db'.log)
<1>1. DbFits(db) /\ db \in Dbs
  BY DEF TInv, DbFits
<1>2. t \in Numbers
  BY <1>1, TableOfIs
<1>3. PICK b : b = IndexesRec(t, col)
  OBVIOUS
<1>4. b \in SchemaBlock /\ b \in Block
  BY <1>2, <1>3 DEF IndexesRec, SchemaBlock, IndexesBlock, Block
<1>5. db' = AddSchema(db, b)
  BY <1>3 DEF AddIndex
<1>6. Edited(db, {}, db') /\ Longer(db.log, b, db'.log) /\ db'.rows = db.rows
  BY <1>1, <1>4, <1>5, AddSchemaIs, AddSchemaEdits
<1>7. DbFits(db')
  BY <1>1, <1>6, SameRowsFit
<1> QED
  BY <1>3, <1>6, <1>7

\* What rename_column does to the record of the column, and of an index on it.
Replaced(d, offs, new) ==
  IF offs = {} THEN d
  ELSE RemoveSchema(AddSchema(d,
         [d.log[CHOOSE o \in offs : TRUE] EXCEPT !.column = new]), offs)

Recolumned(b, new) == [b EXCEPT !.column = new]

LEMMA ReplacedIs ==
  ASSUME NEW d, DbFits(d), NEW offs, offs \subseteq d.live, offs # {}, NEW new \in Columns,
         \A o \in offs : d.log[o].kind \in {"columns", "indexes"},
         NEW f, f = Replaced(d, offs, new)
  PROVE  /\ Edited(d, offs, f) /\ DbFits(f) /\ f.rows = d.rows
         /\ \E o \in offs : /\ Longer(d.log, Recolumned(d.log[o], new), f.log)
                            /\ Recolumned(d.log[o], new) \in SchemaBlock
<1>1. d \in Dbs /\ d.live \subseteq DOMAIN d.log /\ d.live \subseteq Nat
  BY DEF DbFits, Dbs
<1>2. PICK o \in offs : o = CHOOSE p \in offs : TRUE
  OBVIOUS
<1>3. PICK b, e : b = Recolumned(d.log[o], new) /\ e = AddSchema(d, b)
  OBVIOUS
<1>4. d.log[o] \in Block /\ d.log[o].kind \in {"columns", "indexes"}
  BY <1>1, DbIs
<1>5. d.log[o] \in ColumnsBlock \/ d.log[o] \in IndexesBlock
  BY <1>4, BlockIs
<1>6. b \in ColumnsBlock \/ b \in IndexesBlock
  BY <1>3, <1>5 DEF ColumnsBlock, IndexesBlock, Recolumned
<1>7. b \in SchemaBlock /\ b \in Block
  BY <1>6 DEF SchemaBlock, Block
<1>8. e \in Dbs /\ Longer(d.log, b, e.log) /\ e.rows = d.rows /\ Edited(d, {}, e)
  BY <1>1, <1>3, <1>7, AddSchemaIs, AddSchemaEdits
<1>9. f = RemoveSchema(e, offs)
  BY <1>2, <1>3 DEF Replaced, Recolumned
<1>10. offs \subseteq e.live
  BY <1>8 DEF Edited
<1>11. f.log = e.log /\ f.rows = e.rows /\ Edited(e, offs, f)
  <2>1. offs \subseteq Nat
    BY <1>1
  <2>2. f.log = e.log /\ f.rows = e.rows
    BY <1>8, <1>9 DEF RemoveSchema, Dbs
  <2>3. Edited(e, offs, f)
    BY <1>8, <1>9, <1>10, RemoveSchemaEdits
  <2> QED
    BY <2>2, <2>3
<1>12. Edited(d, offs, f)
  <2>1. Edited(d, {} \cup offs, f)
    BY <1>1, <1>8, <1>11, EditedTwice
  <2>2. {} \cup offs = offs
    OBVIOUS
  <2> QED
    BY <2>1, <2>2
<1>13. DbFits(f)
  <2>1. \A p \in offs \cap DOMAIN d.log : d.log[p].kind # "tables"
    OBVIOUS
  <2>2. f.rows = d.rows
    BY <1>8, <1>11
  <2> QED
    BY <1>12, <2>1, <2>2, SameRowsFit
<1> QED
  BY <1>3, <1>7, <1>8, <1>11, <1>12, <1>13

\* The record of a column, c, has been replaced, and that of an index on it.
Recolumns(log, column, index, new, log2) ==
  \E c \in column :
    /\ Recolumned(log[c], new) \in SchemaBlock
    /\ index = {} => Longer(log, Recolumned(log[c], new), log2)
    /\ index # {} => \E x \in index :
         /\ Recolumned(log[x], new) \in SchemaBlock
         /\ \E log1 \in Logs : /\ Longer(log, Recolumned(log[c], new), log1)
                               /\ Longer(log1, Recolumned(log[x], new), log2)

LEMMA RenameColumnIs ==
  ASSUME TInv, NEW t \in Tables(db), NEW old \in Columns, NEW new \in Columns,
         RenameColumn(t, old, new),
         NEW column, column = On(db, LiveOf(db, "columns", t), old),
         NEW index, index = On(db, LiveOf(db, "indexes", t), old)
  PROVE  /\ Edited(db, column \cup index, db') /\ DbFits(db') /\ db'.rows = db.rows
         /\ column # {} /\ Recolumns(db.log, column, index, new, db'.log)
<1>1. DbFits(db) /\ db \in Dbs /\ db.live \subseteq DOMAIN db.log /\ db.log \in Logs
  BY DEF TInv, DbFits, LogFits
<1>2. /\ column \subseteq db.live /\ \A o \in column : db.log[o].kind = "columns"
      /\ index \subseteq db.live /\ \A o \in index : db.log[o].kind = "indexes"
  BY DEF On, LiveOf, Live
<1>3. column # {}
  BY DEF RenameColumn
<1>4. PICK e : e = Replaced(db, column, new)
  OBVIOUS
<1>5. db' = Replaced(e, index, new)
  <2>1. db' = Replaced(Replaced(db, On(db, LiveOf(db, "columns", t), old), new),
                       On(db, LiveOf(db, "indexes", t), old), new)
    BY DEF RenameColumn, Replaced
  <2> QED
    BY <2>1, <1>4
<1>6. Edited(db, column, e) /\ DbFits(e) /\ e.rows = db.rows
  BY <1>1, <1>2, <1>3, <1>4, ReplacedIs
<1>7. PICK c \in column : /\ Longer(db.log, Recolumned(db.log[c], new), e.log)
                          /\ Recolumned(db.log[c], new) \in SchemaBlock
  BY <1>1, <1>2, <1>3, <1>4, ReplacedIs
<1>8. CASE index = {}
  <2>1. db' = e /\ column \cup index = column
    BY <1>5, <1>8 DEF Replaced
  <2> QED
    BY <2>1, <1>3, <1>6, <1>7, <1>8 DEF Recolumns
<1>9. CASE index # {}
  <2>1. index \cap column = {}
    BY <1>2
  <2>2. index \subseteq e.live
    BY <2>1, <1>2, <1>6 DEF Edited
  <2>3. \A o \in index : e.log[o] = db.log[o]
    <3>1. Grown(db.log, e.log)
      BY <1>6 DEF Edited
    <3> QED
      BY <3>1, <1>1, <1>2, GrownKinds
  <2>4. \A o \in index : e.log[o].kind \in {"columns", "indexes"}
    BY <2>3, <1>2
  <2>5. Edited(e, index, db') /\ DbFits(db') /\ db'.rows = e.rows
    BY <1>5, <1>6, <1>9, <2>2, <2>4, ReplacedIs
  <2>6. PICK x \in index : /\ Longer(e.log, Recolumned(e.log[x], new), db'.log)
                           /\ Recolumned(e.log[x], new) \in SchemaBlock
    BY <1>5, <1>6, <1>9, <2>2, <2>4, ReplacedIs
  <2>7. Edited(db, column \cup index, db')
    BY <1>1, <1>6, <2>5, EditedTwice
  <2>8. e.log \in Logs
    BY <1>6 DEF DbFits, LogFits
  <2>9. Recolumns(db.log, column, index, new, db'.log)
    BY <1>7, <1>9, <2>3, <2>6, <2>8 DEF Recolumns
  <2> QED
    BY <1>3, <1>6, <2>5, <2>7, <2>9
<1> QED
  BY <1>8, <1>9

-----------------------------------------------------------------------------
(* Transactions *)

\* The records of tables may have other counts.
Recounted(log, log2) ==
  /\ log2 \in Logs /\ Len(log2) = Len(log)
  /\ \A o \in 1 .. Len(log) :
       /\ log[o].kind # "tables" => log2[o] = log[o]
       /\ log[o].kind = "tables" => log2[o] = [log[o] EXCEPT !.nrows = log2[o].nrows]

LEMMA CountedIs ==
  ASSUME NEW d, DbFits(d), NEW n, \A t \in Tables(d) : n[t] \in Int
  PROVE  /\ Counted(d, n) \in Dbs
         /\ Recounted(d.log, Counted(d, n).log)
         /\ \A o \in 1 .. Len(d.log) : Counted(d, n).log[o].nrows =
              IF o \in Live(d, "tables") THEN d.log[o].nrows + n[d.log[o].tbl] ELSE d.log[o].nrows
         /\ Counted(d, n).live = d.live /\ Counted(d, n).rows = d.rows
         /\ Counted(d, n).drops = d.drops
<1>1. d \in Dbs /\ d.log \in Logs /\ Len(d.log) \in Nat /\ DOMAIN d.log = 1 .. Len(d.log)
  BY DbIs DEF DbFits
<1>2. PICK S : S = Live(d, "tables")
  OBVIOUS
<1>3. \A o \in S : o \in DOMAIN d.log /\ d.log[o].kind = "tables" /\ d.log[o].tbl \in Tables(d)
  BY <1>2 DEF Live, DbFits, Tables
<1>4. \A o \in S : d.log[o] \in TablesBlock
  BY <1>1, <1>3, LogIs, BlockIs
<1> DEFINE f == [o \in DOMAIN d.log |-> IF o \in S
                   THEN [d.log[o] EXCEPT !.nrows = @ + n[d.log[o].tbl]] ELSE d.log[o]]
<1>5. Counted(d, n) = [d EXCEPT !.log = f]
  BY <1>2 DEF Counted
<1>6. \A o \in 1 .. Len(d.log) : f[o] \in Block
  <2> SUFFICES ASSUME NEW o \in 1 .. Len(d.log) PROVE f[o] \in Block
    OBVIOUS
  <2>1. d.log[o] \in Block
    BY <1>1, LogIs
  <2>2. CASE o \in S
    <3>1. n[d.log[o].tbl] \in Int /\ d.log[o] \in TablesBlock
      BY <2>2, <1>3, <1>4
    <3>2. f[o] = [d.log[o] EXCEPT !.nrows = d.log[o].nrows + n[d.log[o].tbl]]
      BY <2>2, <1>1
    <3>3. d.log[o].nrows + n[d.log[o].tbl] \in Int
      BY <3>1 DEF TablesBlock
    <3>4. f[o] \in TablesBlock
      BY <3>1, <3>2, <3>3 DEF TablesBlock
    <3> QED
      BY <3>4 DEF Block, SchemaBlock
  <2>3. CASE o \notin S
    BY <2>1, <2>3, <1>1
  <2> QED
    BY <2>2, <2>3
<1>7. f \in Logs /\ Len(f) = Len(d.log)
  <2>1. f \in [1 .. Len(d.log) -> Block]
    BY <1>1, <1>6
  <2> HIDE DEF f
  <2> QED
    BY <2>1, <1>1 DEF Logs
<1>8. \A o \in 1 .. Len(d.log) :
        /\ d.log[o].kind # "tables" => f[o] = d.log[o]
        /\ d.log[o].kind = "tables" => f[o] = [d.log[o] EXCEPT !.nrows = f[o].nrows]
        /\ f[o].nrows = IF o \in S THEN d.log[o].nrows + n[d.log[o].tbl] ELSE d.log[o].nrows
  <2> SUFFICES ASSUME NEW o \in 1 .. Len(d.log)
               PROVE  /\ d.log[o].kind # "tables" => f[o] = d.log[o]
                      /\ d.log[o].kind = "tables" => f[o] = [d.log[o] EXCEPT !.nrows = f[o].nrows]
                      /\ f[o].nrows = IF o \in S THEN d.log[o].nrows + n[d.log[o].tbl] ELSE d.log[o].nrows
    OBVIOUS
  <2>1. d.log[o] \in Block /\ (d.log[o].kind = "tables" => d.log[o] \in TablesBlock)
    BY <1>1, LogIs, BlockIs
  <2>2. CASE o \in S
    <3>1. f[o] = [d.log[o] EXCEPT !.nrows = d.log[o].nrows + n[d.log[o].tbl]]
      BY <2>2, <1>1
    <3> QED
      BY <2>2, <3>1, <1>3, <1>4 DEF TablesBlock
  <2>3. CASE o \notin S
    <3>1. f[o] = d.log[o]
      BY <2>3, <1>1
    <3>2. d.log[o].kind = "tables" => f[o] = [d.log[o] EXCEPT !.nrows = f[o].nrows]
      BY <2>1, <3>1 DEF TablesBlock
    <3> QED
      BY <2>3, <3>1, <3>2
  <2> QED
    BY <2>2, <2>3
<1> HIDE DEF f
<1>9. /\ Counted(d, n) \in Dbs /\ Counted(d, n).log = f /\ Counted(d, n).live = d.live
      /\ Counted(d, n).rows = d.rows /\ Counted(d, n).drops = d.drops
  BY <1>1, <1>5, <1>7 DEF Dbs
<1> QED
  BY <1>2, <1>7, <1>8, <1>9 DEF Recounted

LEMMA RecountedIsGrown ==
  ASSUME NEW log \in Logs, NEW log2, Recounted(log, log2)
  PROVE  Grown(log, log2) /\ DOMAIN log2 = DOMAIN log /\ NoCommits(log, log2)
<1>1. Len(log) \in Nat /\ DOMAIN log = 1 .. Len(log) /\ DOMAIN log2 = 1 .. Len(log2)
  BY LogIs DEF Recounted
<1>2. ASSUME NEW o \in 1 .. Len(log)
      PROVE  AlikeBlock(log[o], log2[o])
  <2>1. log[o] \in Block /\ (log[o].kind = "tables" => log[o] \in TablesBlock)
    BY LogIs, BlockIs
  <2>2. CASE log[o].kind # "tables"
    BY <2>1, <2>2, AlikeSelf DEF Recounted
  <2>3. CASE log[o].kind = "tables"
    <3>1. PICK n : n = log2[o].nrows
      OBVIOUS
    <3>2. log2[o] = [log[o] EXCEPT !.nrows = n]
      BY <2>3, <3>1 DEF Recounted
    <3> QED
      BY <2>1, <2>3, <3>2 DEF AlikeBlock, TablesBlock
  <2> QED
    BY <2>2, <2>3
<1> QED
  BY <1>1, <1>2 DEF Grown, Recounted, NoCommits

\* The database after the blocks of d have grown to those of d2, without a
\* commit record, and some entries of d were left out or new ones added.
LEMMA GrownDbFits ==
  ASSUME NEW d, DbFits(d), NEW d2 \in Dbs, Grown(d.log, d2.log), NoCommits(d.log, d2.log),
         d2.live = d.live, d2.drops = d.drops,
         \A r \in d2.rows : r \in d.rows \/ (r[1] \in Tables(d) /\ r[2] \in OfKind(d2.log, "data"))
  PROVE  DbFits(d2) /\ Tables(d2) = Tables(d) /\ Live(d2, "tables") = Live(d, "tables")
<1>1. d.log \in Logs /\ LogFits(d.log)
  BY DEF DbFits, Dbs
<1>2. /\ DOMAIN d.log \subseteq DOMAIN d2.log
      /\ \A o \in DOMAIN d.log : d2.log[o].kind = d.log[o].kind
      /\ \A o \in DOMAIN d.log : d.log[o].kind \in SchemaKinds \cup {"data"} => d2.log[o].tbl = d.log[o].tbl
      /\ OfKind(d.log, "data") \subseteq OfKind(d2.log, "data")
  BY <1>1, GrownKinds
<1>3. LogFits(d2.log)
  BY <1>1, GrownFits
<1>4. Live(d2, "tables") = Live(d, "tables")
  BY <1>2 DEF Live, DbFits
<1>5. \A o \in Live(d, "tables") : d2.log[o].tbl = d.log[o].tbl
  BY <1>2 DEF Live, DbFits, SchemaKinds
<1>6. Tables(d2) = Tables(d)
  BY <1>4, <1>5 DEF Tables
<1>7. \A r \in d2.rows : r[1] \in Tables(d2) /\ r[2] \in OfKind(d2.log, "data")
  BY <1>2, <1>6 DEF DbFits
<1>8. \A o \in d2.live : o \in DOMAIN d2.log /\ d2.log[o].kind \in SchemaKinds
  BY <1>2 DEF DbFits
<1>9. d2.drops \subseteq DOMAIN d2.log \ d2.live
  BY <1>2 DEF DbFits
<1> QED
  BY <1>3, <1>4, <1>6, <1>7, <1>8, <1>9 DEF DbFits

\* The counts of the live tables have changed by n.
CountedBy(d, n, log2) ==
  \A o \in DOMAIN d.log :
    d.log[o].kind = "tables" =>
      log2[o] = [d.log[o] EXCEPT !.nrows =
                   IF o \in d.live THEN d.log[o].nrows + n[d.log[o].tbl] ELSE d.log[o].nrows]

LEMMA CountedFits ==
  ASSUME NEW d, DbFits(d), NEW n, \A t \in Tables(d) : n[t] \in Int, NEW d2, d2 = Counted(d, n)
  PROVE  /\ DbFits(d2) /\ Recounted(d.log, d2.log) /\ CountedBy(d, n, d2.log)
         /\ d2.live = d.live /\ d2.rows = d.rows /\ d2.drops = d.drops
         /\ Grown(d.log, d2.log) /\ NoCommits(d.log, d2.log) /\ Len(d2.log) = Len(d.log)
<1>1. /\ d2 \in Dbs /\ Recounted(d.log, d2.log)
      /\ \A o \in 1 .. Len(d.log) : d2.log[o].nrows =
           IF o \in Live(d, "tables") THEN d.log[o].nrows + n[d.log[o].tbl] ELSE d.log[o].nrows
      /\ d2.live = d.live /\ d2.rows = d.rows /\ d2.drops = d.drops
  BY CountedIs
<1>2. d.log \in Logs /\ DOMAIN d.log = 1 .. Len(d.log)
  BY DbIs DEF DbFits
<1>3. Grown(d.log, d2.log) /\ NoCommits(d.log, d2.log)
  BY <1>1, <1>2, RecountedIsGrown
<1>4. DbFits(d2)
  BY <1>1, <1>3, GrownDbFits
<1>5. CountedBy(d, n, d2.log)
  <2> SUFFICES ASSUME NEW o \in DOMAIN d.log, d.log[o].kind = "tables"
               PROVE  d2.log[o] = [d.log[o] EXCEPT !.nrows =
                        IF o \in d.live THEN d.log[o].nrows + n[d.log[o].tbl] ELSE d.log[o].nrows]
    BY DEF CountedBy
  <2>1. d2.log[o] = [d.log[o] EXCEPT !.nrows = d2.log[o].nrows]
    BY <1>1, <1>2 DEF Recounted
  <2>2. d2.log[o].nrows = IF o \in d.live THEN d.log[o].nrows + n[d.log[o].tbl] ELSE d.log[o].nrows
    BY <1>1, <1>2 DEF Live
  <2> QED
    BY <2>1, <2>2
<1> QED
  BY <1>1, <1>3, <1>4, <1>5 DEF Recounted

LEMMA NewIdIsNat ==
  ASSUME db.log \in Logs
  PROVE  NewId \in Nat
<1>1. DOMAIN db.log = 1 .. Len(db.log) /\ Len(db.log) \in Nat
  BY LogIs
<1>2. IsFiniteSet(1 .. Len(db.log))
  BY <1>1, FS_Interval
<1>3. IsFiniteSet({o \in DOMAIN db.log : db.log[o].kind = "data"})
  BY <1>1, <1>2, FS_Subset
<1> QED
  BY <1>3, FS_CardinalityType DEF NewId

LEMMA AddRecordIs ==
  ASSUME TInv, NEW t \in Tables(db), AddRecord(t)
  PROVE  /\ DbFits(db') /\ Grown(db.log, db'.log) /\ NoCommits(db.log, db'.log)
         /\ db'.live = db.live /\ db'.drops = db.drops
         /\ db'.rows = db.rows \cup {<<t, Len(db.log) + 1>>}
         /\ Len(db'.log) = Len(db.log) + 1 /\ db'.log[Len(db.log) + 1] = DataRec(t, NewId)
         /\ CountedBy(db, [u \in Tables(db) |-> IF u = t THEN 1 ELSE 0], db'.log)
<1>1. /\ DbFits(db) /\ db \in Dbs /\ Len(db.log) \in Nat /\ db.log \in Logs
      /\ DOMAIN db.log = 1 .. Len(db.log) /\ NewOff(db) = Len(db.log) + 1
  BY DbIs DEF TInv, DbFits
<1>2. PICK b, e, d : /\ b = DataRec(t, NewId) /\ e = Output(db, b)
                     /\ d = [e EXCEPT !.rows = e.rows \cup {<<t, Len(db.log) + 1>>}]
  OBVIOUS
<1>3. t \in Numbers
  <2>1. PICK o : o = TableOf(db, t)
    OBVIOUS
  <2> QED
    BY <1>1, <2>1, TableOfIs
<1>4. b \in DataBlock /\ b \in Block /\ b.kind = "data"
  BY <1>1, <1>2, <1>3, NewIdIsNat DEF DataRec, DataBlock, Block
<1>5. /\ e \in Dbs /\ Longer(db.log, b, e.log) /\ e.live = db.live /\ e.rows = db.rows
      /\ e.drops = db.drops
  BY <1>1, <1>2, <1>4, OutputIs
<1>6. <<t, Len(db.log) + 1>> \in Nat \X Nat
  BY <1>1, <1>3 DEF Numbers, TN_VIEWS
<1>7. /\ d \in Dbs /\ d.log = e.log /\ d.live = db.live /\ d.drops = db.drops
      /\ d.rows = db.rows \cup {<<t, Len(db.log) + 1>>}
  BY <1>2, <1>5, <1>6 DEF Dbs
<1>8. /\ Grown(db.log, d.log) /\ Len(d.log) = Len(db.log) + 1 /\ d.log[Len(db.log) + 1] = b
      /\ DOMAIN d.log \ DOMAIN db.log = {Len(db.log) + 1}
      /\ Len(db.log) + 1 \in DOMAIN d.log
  BY <1>1, <1>4, <1>5, <1>7, LongerIsGrown, LongerDomain DEF Longer
<1>9. NoCommits(db.log, d.log)
  BY <1>4, <1>8 DEF NoCommits
<1>10. Len(db.log) + 1 \in OfKind(d.log, "data")
  BY <1>4, <1>8 DEF OfKind
<1>11. DbFits(d) /\ Tables(d) = Tables(db)
  BY <1>1, <1>7, <1>8, <1>9, <1>10, GrownDbFits
<1>12. PICK n : n = [u \in Tables(db) |-> IF u = t THEN 1 ELSE 0]
  OBVIOUS
<1>13. db' = Counted(d, n)
  <2>1. db' = Counted([Output(db, DataRec(t, NewId)) EXCEPT !.rows = @ \cup {<<t, NewOff(db)>>}],
                [u \in Tables([Output(db, DataRec(t, NewId)) EXCEPT
                                 !.rows = @ \cup {<<t, NewOff(db)>>}]) |-> IF u = t THEN 1 ELSE 0])
    BY DEF AddRecord
  <2>2. [Output(db, DataRec(t, NewId)) EXCEPT !.rows = @ \cup {<<t, NewOff(db)>>}] = d
    BY <1>1, <1>2
  <2> QED
    BY <2>1, <2>2, <1>11, <1>12
<1>14. \A u \in Tables(d) : n[u] \in Int
  BY <1>11, <1>12
<1>15. /\ DbFits(db') /\ Recounted(d.log, db'.log) /\ CountedBy(d, n, db'.log)
       /\ db'.live = d.live /\ db'.rows = d.rows /\ db'.drops = d.drops
       /\ Grown(d.log, db'.log) /\ NoCommits(d.log, db'.log) /\ Len(db'.log) = Len(d.log)
  BY <1>11, <1>13, <1>14, CountedFits
<1>16. d.log \in Logs /\ DOMAIN d.log = 1 .. Len(d.log) /\ DOMAIN db'.log = DOMAIN d.log
  BY <1>7, <1>15, LogIs DEF Dbs, Recounted
<1>17. Grown(db.log, db'.log)
  BY <1>1, <1>8, <1>15, GrownTransitive
<1>18. db'.log[Len(db.log) + 1] = b
  BY <1>4, <1>8, <1>15, <1>16 DEF Recounted
<1>19. NoCommits(db.log, db'.log)
  BY <1>4, <1>8, <1>16, <1>18 DEF NoCommits
<1>20. CountedBy(db, n, db'.log)
  <2>1. \A o \in DOMAIN db.log : o \in DOMAIN d.log /\ d.log[o] = db.log[o]
    BY <1>1, <1>5, <1>7, <1>8 DEF Longer, Grown
  <2> QED
    BY <2>1, <1>15, <1>7 DEF CountedBy
<1> QED
  BY <1>2, <1>7, <1>8, <1>12, <1>15, <1>17, <1>18, <1>19, <1>20

LEMMA RemoveRecordIs ==
  ASSUME TInv, NEW t \in Tables(db), NEW o, RemoveRecord(t, o)
  PROVE  /\ DbFits(db') /\ Grown(db.log, db'.log) /\ NoCommits(db.log, db'.log)
         /\ db'.live = db.live /\ db'.drops = db.drops /\ db'.rows = db.rows
         /\ Len(db'.log) = Len(db.log) /\ Recounted(db.log, db'.log)
         /\ CountedBy(db, [u \in Tables(db) |-> IF u = t THEN -1 ELSE 0], db'.log)
<1>1. DbFits(db)
  BY DEF TInv
<1>2. PICK n : n = [u \in Tables(db) |-> IF u = t THEN -1 ELSE 0]
  OBVIOUS
<1>3. \A u \in Tables(db) : n[u] \in Int
  BY <1>2
<1>4. db' = Counted(db, n)
  BY <1>2 DEF RemoveRecord
<1> QED
  BY <1>1, <1>2, <1>3, <1>4, CountedFits

\* A transaction's part of the records that are new or removed.
LEMMA CommittedIs ==
  ASSUME NEW d, DbFits(d), NEW creates, NEW deletes,
         creates \subseteq OfKind(d.log, "data"), deletes \subseteq OfKind(d.log, "data"),
         NEW e, e = Committed(d, creates, deletes)
  PROVE  /\ DbFits(e) /\ Longer(d.log, CommitRec(creates, deletes \cup d.drops), e.log)
         /\ Grown(d.log, e.log) /\ CommitRec(creates, deletes \cup d.drops) \in Block
         /\ e.live = d.live /\ e.rows = d.rows /\ e.drops = {}
<1>1. /\ d \in Dbs /\ Len(d.log) \in Nat /\ d.log \in Logs /\ LogFits(d.log)
      /\ DOMAIN d.log = 1 .. Len(d.log)
  BY DbIs DEF DbFits
<1>2. PICK b, f : b = CommitRec(creates, deletes \cup d.drops) /\ f = Output(d, b)
  OBVIOUS
<1>3. creates \subseteq DOMAIN d.log /\ deletes \cup d.drops \subseteq DOMAIN d.log
  BY DEF OfKind, DbFits
<1>4. b \in CommitBlock /\ b \in Block
  BY <1>1, <1>2, <1>3 DEF CommitRec, CommitBlock, Block
<1>5. /\ f \in Dbs /\ Longer(d.log, b, f.log) /\ f.live = d.live /\ f.rows = d.rows
  BY <1>1, <1>2, <1>4, OutputIs
<1>6. e = [f EXCEPT !.drops = {}]
  BY <1>2 DEF Committed
<1>7. e \in Dbs /\ e.log = f.log /\ e.live = d.live /\ e.rows = d.rows /\ e.drops = {}
  BY <1>5, <1>6 DEF Dbs
<1>8. Grown(d.log, e.log)
  BY <1>1, <1>4, <1>5, <1>7, LongerIsGrown
<1>9. LogFits(e.log)
  BY <1>1, <1>2, <1>3, <1>5, <1>7, CommitFits
<1>10. /\ DOMAIN d.log \subseteq DOMAIN e.log
       /\ \A o \in DOMAIN d.log : e.log[o].kind = d.log[o].kind
       /\ \A o \in DOMAIN d.log : d.log[o].kind \in SchemaKinds \cup {"data"} => e.log[o].tbl = d.log[o].tbl
  BY <1>1, <1>8, GrownKinds
<1>11. \A o \in e.live : o \in DOMAIN e.log /\ e.log[o].kind \in SchemaKinds
  BY <1>7, <1>10 DEF DbFits
<1>12. Tables(e) = Tables(d)
  <2>1. Live(e, "tables") = Live(d, "tables")
    BY <1>7, <1>10 DEF Live, DbFits
  <2>2. \A o \in Live(d, "tables") : e.log[o].tbl = d.log[o].tbl
    BY <1>10 DEF Live, DbFits, SchemaKinds
  <2> QED
    BY <2>1, <2>2 DEF Tables
<1>13. \A r \in e.rows : r[1] \in Tables(e) /\ r[2] \in OfKind(e.log, "data")
  BY <1>7, <1>10, <1>12 DEF DbFits, OfKind
<1>14. e.drops \subseteq DOMAIN e.log \ e.live
  BY <1>7
<1> QED
  BY <1>2, <1>4, <1>5, <1>7, <1>8, <1>9, <1>11, <1>13, <1>14 DEF DbFits

LEMMA CommitIs ==
  ASSUME TInv, NEW creates \in SUBSET fresh, NEW deletes \in SUBSET going, Commit(creates, deletes)
  PROVE  /\ DbFits(db') /\ Grown(db.log, db'.log)
         /\ Longer(db.log, CommitRec(creates, deletes \cup db.drops), db'.log)
         /\ CommitRec(creates, deletes \cup db.drops) \in Block
         /\ db'.live = db.live /\ db'.drops = {}
         /\ db'.rows = {r \in db.rows : r[2] \notin deletes}
<1>1. DbFits(db) /\ creates \subseteq OfKind(db.log, "data") /\ deletes \subseteq OfKind(db.log, "data")
  BY DEF TInv
<1>2. PICK e : e = Committed(db, creates, deletes)
  OBVIOUS
<1>3. /\ DbFits(e) /\ Longer(db.log, CommitRec(creates, deletes \cup db.drops), e.log)
      /\ Grown(db.log, e.log) /\ CommitRec(creates, deletes \cup db.drops) \in Block
      /\ e.live = db.live /\ e.rows = db.rows /\ e.drops = {}
  BY <1>1, <1>2, CommittedIs
<1>4. db' = [e EXCEPT !.rows = {r \in e.rows : r[2] \notin deletes}]
  BY <1>2 DEF Commit
<1>5. /\ db' \in Dbs /\ db'.log = e.log /\ db'.live = e.live /\ db'.drops = e.drops
      /\ db'.rows = {r \in e.rows : r[2] \notin deletes}
  BY <1>3, <1>4 DEF DbFits, Dbs
<1>6. Live(db', "tables") = Live(e, "tables") /\ Tables(db') = Tables(e)
  BY <1>5 DEF Live, Tables
<1>7. DbFits(db')
  BY <1>3, <1>5, <1>6 DEF DbFits
<1> QED
  BY <1>3, <1>5, <1>7

LEMMA OfTableIsNat ==
  ASSUME NEW d, DbFits(d), NEW offs, offs \subseteq OfKind(d.log, "data"), NEW t
  PROVE  OfTable(d, offs, t) \in Nat /\ IsFiniteSet(offs)
<1>1. DOMAIN d.log = 1 .. Len(d.log) /\ Len(d.log) \in Nat
  BY DbIs DEF DbFits
<1>2. IsFiniteSet(1 .. Len(d.log))
  BY <1>1, FS_Interval
<1>3. offs \subseteq 1 .. Len(d.log)
  BY <1>1 DEF OfKind
<1>4. IsFiniteSet(offs) /\ IsFiniteSet({o \in offs : d.log[o].tbl = t})
  BY <1>2, <1>3, FS_Subset
<1> QED
  BY <1>4, FS_CardinalityType DEF OfTable

LEMMA AbortIs ==
  ASSUME TInv, NEW creates \in SUBSET fresh, NEW deletes \in SUBSET going, Abort(creates, deletes)
  PROVE  /\ DbFits(db') /\ Grown(db.log, db'.log) /\ NoCommits(db.log, db'.log)
         /\ Recounted(db.log, db'.log)
         /\ db'.live = db.live /\ db'.drops = db.drops /\ Len(db'.log) = Len(db.log)
         /\ db'.rows = {r \in db.rows : r[2] \notin creates}
         /\ CountedBy(db, [u \in Tables(db) |-> OfTable(db, deletes, u) - OfTable(db, creates, u)], db'.log)
<1>1. DbFits(db) /\ creates \subseteq OfKind(db.log, "data") /\ deletes \subseteq OfKind(db.log, "data")
  BY DEF TInv
<1>2. PICK d : d = [db EXCEPT !.rows = {r \in db.rows : r[2] \notin creates}]
  OBVIOUS
<1>3. /\ d \in Dbs /\ d.log = db.log /\ d.live = db.live /\ d.drops = db.drops
      /\ d.rows = {r \in db.rows : r[2] \notin creates}
  BY <1>1, <1>2 DEF DbFits, Dbs
<1>4. Live(d, "tables") = Live(db, "tables") /\ Tables(d) = Tables(db)
  BY <1>3 DEF Live, Tables
<1>5. DbFits(d)
  BY <1>1, <1>3, <1>4 DEF DbFits
<1>6. PICK n : n = [u \in Tables(db) |-> OfTable(db, deletes, u) - OfTable(db, creates, u)]
  OBVIOUS
<1>7. \A u \in Tables(d) : n[u] \in Int
  <2>1. \A u : OfTable(db, deletes, u) \in Nat /\ OfTable(db, creates, u) \in Nat
    BY <1>1, OfTableIsNat
  <2> QED
    BY <2>1, <1>4, <1>6
<1>8. db' = Counted(d, n)
  <2>1. db' = Counted([db EXCEPT !.rows = {r \in @ : r[2] \notin creates}],
                [u \in Tables([db EXCEPT !.rows = {r \in @ : r[2] \notin creates}]) |->
                   OfTable(db, deletes, u) - OfTable(db, creates, u)])
    BY DEF Abort
  <2>2. [db EXCEPT !.rows = {r \in @ : r[2] \notin creates}] = d
    BY <1>2
  <2> QED
    BY <2>1, <2>2, <1>4, <1>6
<1>9. /\ DbFits(db') /\ Recounted(d.log, db'.log) /\ CountedBy(d, n, db'.log)
      /\ db'.live = d.live /\ db'.rows = d.rows /\ db'.drops = d.drops
      /\ Grown(d.log, db'.log) /\ NoCommits(d.log, db'.log) /\ Len(db'.log) = Len(d.log)
  BY <1>5, <1>7, <1>8, CountedFits
<1>10. CountedBy(db, n, db'.log)
  BY <1>3, <1>9 DEF CountedBy
<1> QED
  BY <1>3, <1>6, <1>9, <1>10

LEMMA RestartIs ==
  ASSUME TInv, Restart
  PROVE  /\ DbFits(db') /\ Grown(db.log, db'.log)
         /\ Longer(db.log, CommitRec({}, db.drops), db'.log) /\ CommitRec({}, db.drops) \in Block
         /\ db'.live = db.live /\ db'.drops = {} /\ db'.rows = db.rows
<1>1. DbFits(db)
  BY DEF TInv
<1>2. db' = Committed(db, {}, {})
  BY DEF Restart
<1>3. PICK none : none = {}
  OBVIOUS
<1>4. none \subseteq OfKind(db.log, "data") /\ none \cup db.drops = db.drops
  BY <1>3
<1>5. PICK d : d = db
  OBVIOUS
<1>6. PICK d2 : d2 = db'
  OBVIOUS
<1>7. PICK drops : drops = none \cup d.drops
  OBVIOUS
<1>8. DbFits(d) /\ d2 = Committed(d, none, none) /\ none \subseteq OfKind(d.log, "data")
  BY <1>1, <1>2, <1>3, <1>4, <1>5, <1>6
<1>9. /\ DbFits(d2) /\ Longer(d.log, CommitRec(none, drops), d2.log)
      /\ Grown(d.log, d2.log) /\ CommitRec(none, drops) \in Block
      /\ d2.live = d.live /\ d2.rows = d.rows /\ d2.drops = {}
  BY <1>7, <1>8, CommittedIs
<1>10. drops = db.drops
  BY <1>4, <1>5, <1>7
<1> QED
  BY <1>3, <1>5, <1>6, <1>9, <1>10

LEMMA LeastOfNaturals ==
  ASSUME NEW T, T \subseteq Nat, T # {}
  PROVE  \E x \in T : \A y \in T : x <= y
<1>1. PICK x \in T : \A y \in T : <<y, x>> \notin OpToRel(<, Nat)
  BY NatLessThanWellFounded, WFMin
<1>2. \A y \in T : ~ y < x
  BY <1>1 DEF OpToRel
<1> QED
  BY <1>2

LEMMA GreatestBelow ==
  ASSUME NEW n \in Nat, NEW T, T \subseteq 1 .. n, T # {}
  PROVE  \E x \in T : \A y \in T : y <= x
<1> DEFINE U == {k \in Nat : \E x \in T : k + x = n}
<1>1. U \subseteq Nat
  OBVIOUS
<1>2. U # {}
  <2>1. PICK x \in T : TRUE
    OBVIOUS
  <2>2. x \in Nat /\ x <= n /\ n - x \in Nat /\ (n - x) + x = n
    BY <2>1
  <2> QED
    BY <2>1, <2>2
<1>3. PICK k \in U : \A l \in U : k <= l
  <2> HIDE DEF U
  <2> QED
    BY <1>1, <1>2, LeastOfNaturals
<1>4. PICK x \in T : k + x = n
  BY <1>3
<1>5. ASSUME NEW y \in T
      PROVE  y <= x
  <2>1. y \in Nat /\ x \in Nat /\ y <= n /\ n - y \in Nat /\ (n - y) + y = n
    BY <1>4
  <2>2. n - y \in U
    BY <2>1
  <2>3. k \in Nat /\ k <= n - y
    BY <1>3, <2>2
  <2> QED
    BY <1>4, <2>1, <2>3
<1> QED
  BY <1>5

LEMMA LastCommitIs ==
  ASSUME NEW log \in Logs, Commits(log) # {}, NEW k, k = LastCommit(log)
  PROVE  k \in Commits(log) /\ \A j \in Commits(log) : j <= k
<1>1. Commits(log) \subseteq 1 .. Len(log) /\ Len(log) \in Nat
  BY LogIs DEF Commits
<1>2. \E i \in Commits(log) : \A j \in Commits(log) : j <= i
  BY <1>1, GreatestBelow
<1> QED
  BY <1>2 DEF LastCommit

\* log2 is log up to its last commit record, k.
CutOff(log, log2) ==
  \E k \in Commits(log) :
    /\ \A j \in Commits(log) : j <= k
    /\ log2 \in Logs /\ Len(log2) = k /\ DOMAIN log2 = 1 .. k
    /\ \A o \in 1 .. k : o \in DOMAIN log /\ log2[o] = log[o]

LEMMA CutOffCommits ==
  ASSUME NEW log \in Logs, NEW log2, CutOff(log, log2)
  PROVE  /\ Commits(log2) = Commits(log) /\ Deleted(log2) = Deleted(log)
         /\ \A c \in Commits(log) : log2[c] = log[c]
<1>1. PICK k \in Commits(log) :
        /\ \A j \in Commits(log) : j <= k
        /\ log2 \in Logs /\ Len(log2) = k /\ DOMAIN log2 = 1 .. k
        /\ \A o \in 1 .. k : o \in DOMAIN log /\ log2[o] = log[o]
  BY DEF CutOff
<1>2. \A c \in Commits(log) : c \in 1 .. k
  BY <1>1, LogIs DEF Commits
<1>3. Commits(log2) = Commits(log)
  BY <1>1, <1>2 DEF Commits
<1>4. \A c \in Commits(log) : log2[c] = log[c]
  BY <1>1, <1>2
<1> QED
  BY <1>3, <1>4 DEF Deleted

LEMMA CrashIs ==
  ASSUME TInv, Crash
  PROVE  /\ DbFits(db') /\ CutOff(db.log, db'.log)
         /\ db'.live = {} /\ db'.rows = {} /\ db'.drops = {}
<1>1. /\ DbFits(db) /\ db \in Dbs /\ Len(db.log) \in Nat /\ db.log \in Logs /\ LogFits(db.log)
      /\ DOMAIN db.log = 1 .. Len(db.log) /\ Commits(db.log) # {}
  BY DbIs DEF TInv, DbFits
<1>2. PICK k, log2 : k = LastCommit(db.log) /\ log2 = SubSeq(db.log, 1, k)
  OBVIOUS
<1>3. k \in Commits(db.log) /\ \A j \in Commits(db.log) : j <= k
  BY <1>1, <1>2, LastCommitIs
<1>4. k \in 1 .. Len(db.log)
  BY <1>1, <1>3 DEF Commits
<1>5. /\ log2 \in Seq(Block) /\ Len(log2) = k
      /\ \A o \in 1 .. k : log2[o] = db.log[o]
  <2>1. db.log \in Seq(Block) /\ 1 \in Int /\ k \in Int /\ 1 <= k + 1
        /\ \A o \in 1 .. k : o \in 1 .. Len(db.log)
    BY <1>1, <1>4 DEF Logs
  <2>2. /\ log2 \in Seq(Block) /\ Len(log2) = k - 1 + 1
        /\ \A o \in 1 .. k - 1 + 1 : log2[o] = db.log[1 + o - 1]
    BY <1>2, <1>4, <2>1, SubSeqProperties
  <2>3. k - 1 + 1 = k /\ \A o \in 1 .. k : 1 + o - 1 = o
    BY <2>1
  <2> QED
    BY <2>2, <2>3
<1>6. log2 \in Logs /\ DOMAIN log2 = 1 .. k
  BY <1>5, LogIs DEF Logs
<1>7. CutOff(db.log, log2)
  <2>1. \A o \in 1 .. k : o \in DOMAIN db.log
    BY <1>1, <1>4
  <2> QED
    BY <1>3, <1>5, <1>6, <2>1 DEF CutOff
<1>8. db' = [EmptyDb EXCEPT !.log = log2]
  BY <1>2 DEF Crash
<1>9. /\ db' \in Dbs /\ db'.log = log2 /\ db'.live = {} /\ db'.rows = {} /\ db'.drops = {}
  BY <1>6, <1>8 DEF EmptyDb, Dbs
<1>10. LogFits(log2)
  <2> SUFFICES ASSUME NEW c \in Commits(log2)
               PROVE  /\ log2[c].creates \subseteq 1 .. c - 1 /\ log2[c].creates \subseteq OfKind(log2, "data")
                      /\ log2[c].deletes \subseteq 1 .. c - 1
    BY <1>6 DEF LogFits
  <2>1. c \in Commits(db.log) /\ log2[c] = db.log[c] /\ c \in 1 .. k
    <3>1. c \in 1 .. k
      BY <1>6 DEF Commits
    <3>2. Commits(log2) = Commits(db.log)
      BY <1>1, <1>7, CutOffCommits
    <3> QED
      BY <1>5, <3>1, <3>2
  <2>2. /\ log2[c].creates \subseteq 1 .. c - 1 /\ log2[c].creates \subseteq OfKind(db.log, "data")
        /\ log2[c].deletes \subseteq 1 .. c - 1
    BY <1>1, <2>1 DEF LogFits
  <2>3. \A o \in 1 .. c - 1 : o \in 1 .. k
    BY <1>4, <2>1
  <2>4. log2[c].creates \subseteq OfKind(log2, "data")
    BY <1>5, <1>6, <2>2, <2>3 DEF OfKind
  <2> QED
    BY <2>2, <2>4
<1> QED
  BY <1>7, <1>9, <1>10 DEF DbFits, Live

-----------------------------------------------------------------------------
(* The first database, and the replay of a file *)

LEMMA EmptyDbFits == DbFits(EmptyDb)
<1>1. EmptyDb.log = <<>> /\ EmptyDb.live = {} /\ EmptyDb.rows = {} /\ EmptyDb.drops = {}
  BY DEF EmptyDb
<1>2. <<>> \in Logs /\ Len(<<>>) = 0 /\ DOMAIN <<>> = {}
  BY DEF Logs
<1>3. EmptyDb \in Dbs
  BY <1>2 DEF EmptyDb, Dbs
<1> QED
  BY <1>1, <1>2, <1>3 DEF DbFits, LogFits, Commits

FirstBlocks(log, name, col) ==
  /\ log \in Logs /\ Len(log) = 4 /\ DOMAIN log = {1, 2, 3, 4}
  /\ log[1] = [TablesRec(5, name) EXCEPT !.nextfield = 1]
  /\ log[2] = ColumnsRec(5, col, 0) /\ log[3] = IndexesRec(5, col)
  /\ log[4] = CommitRec({}, {})

LEMMA FirstDbIs ==
  ASSUME NEW name \in Names, NEW col \in Columns, NEW d, d = FirstDb(name, col)
  PROVE  /\ DbFits(d) /\ FirstBlocks(d.log, name, col)
         /\ d.live = {1, 2, 3} /\ d.rows = {} /\ d.drops = {}
<1>1. PICK a, b, c, e : /\ a = [TablesRec(5, name) EXCEPT !.nextfield = 1]
                        /\ b = ColumnsRec(5, col, 0) /\ c = IndexesRec(5, col)
                        /\ e = AddSchema(AddSchema(AddSchema(EmptyDb, a), b), c)
  OBVIOUS
<1>2. 5 \in Numbers /\ TN_VIEWS + 1 = 5
  BY RebuildBounds DEF Numbers, TN_VIEWS
<1>3. a \in SchemaBlock /\ a.kind = "tables"
  <2>1. a = [kind |-> "tables", tbl |-> 5, name |-> name, nextfield |-> 1, nrows |-> 0, hidden |-> FALSE]
    BY <1>1 DEF TablesRec
  <2> QED
    BY <1>2, <2>1 DEF SchemaBlock, TablesBlock
<1>4. b \in SchemaBlock /\ b.kind = "columns" /\ c \in SchemaBlock /\ c.kind = "indexes"
  BY <1>1, <1>2 DEF ColumnsRec, IndexesRec, SchemaBlock, ColumnsBlock, IndexesBlock
<1>5. EmptyDb.log = <<>> /\ EmptyDb.live = {} /\ EmptyDb.rows = {} /\ EmptyDb.drops = {} /\ Len(<<>>) = 0
  BY DEF EmptyDb
<1>6. Edited(EmptyDb, {}, e) /\ Longer3(EmptyDb.log, a, b, c, e.log) /\ e.rows = EmptyDb.rows
  BY <1>1, <1>3, <1>4, EmptyDbFits, AddSchemaThrice
<1>7. DbFits(e)
  BY <1>5, <1>6, EmptyDbFits, EditedFits
<1>8. /\ e.log \in Logs /\ Len(e.log) = 3 /\ e.log[1] = a /\ e.log[2] = b /\ e.log[3] = c
      /\ e.drops = {} /\ e.rows = {}
  BY <1>5, <1>6 DEF Longer3, Edited
<1>9. DOMAIN e.log = {1, 2, 3} /\ DOMAIN EmptyDb.log = {}
  BY <1>5, <1>8, LogIs
<1>10. e.live = {1, 2, 3}
  BY <1>5, <1>6, <1>9 DEF Edited, NewIn
<1>11. d = Committed(e, {}, {})
  BY <1>1, <1>2 DEF FirstDb
<1>12. /\ DbFits(d) /\ Longer(e.log, CommitRec({}, {} \cup e.drops), d.log)
       /\ d.live = e.live /\ d.rows = e.rows /\ d.drops = {}
  BY <1>7, <1>11, CommittedIs
<1>13. {} \cup e.drops = {}
  BY <1>8
<1>14. FirstBlocks(d.log, name, col)
  <2>1. /\ d.log \in Logs /\ Len(d.log) = 3 + 1
        /\ \A o \in 1 .. 3 : d.log[o] = e.log[o]
        /\ d.log[3 + 1] = CommitRec({}, {})
    BY <1>8, <1>12, <1>13 DEF Longer
  <2>2. DOMAIN d.log = 1 .. 4 /\ 1 .. 4 = {1, 2, 3, 4}
    BY <2>1, LogIs
  <2>3. d.log[1] = a /\ d.log[2] = b /\ d.log[3] = c
    BY <1>8, <2>1
  <2> QED
    BY <1>1, <2>1, <2>2, <2>3 DEF FirstBlocks
<1> QED
  BY <1>8, <1>10, <1>12, <1>14

\* r is the states of a rebuild of log, before it and after each of its blocks.
Replays(log, m, r) ==
  r = [i \in 0 .. m |-> IF i = 0 THEN NothingCopied(log) ELSE CopyBlock(r[i - 1], i)]

Replaying(log, m, r) ==
  r[0] = NothingCopied(log) /\ \A i \in 1 .. m : r[i] = CopyBlock(r[i - 1], i)

LEMMA ReplaysIs ==
  ASSUME NEW log, NEW m \in Nat, NEW r, Replays(log, m, r)
  PROVE  Replaying(log, m, r)
<1>1. \A i \in 0 .. m : r[i] = IF i = 0 THEN NothingCopied(log) ELSE CopyBlock(r[i - 1], i)
  BY DEF Replays
<1>2. 0 \in 0 .. m /\ \A i \in 1 .. m : i \in 0 .. m /\ i # 0
  OBVIOUS
<1> QED
  BY <1>1, <1>2 DEF Replaying

LEMMA ReplaysExist ==
  ASSUME NEW log, NEW n \in Nat
  PROVE  \E r : Replays(log, n, r)
<1> DEFINE T == {m \in Nat : ~ \E r : Replays(log, m, r)}
<1> SUFFICES ASSUME T # {} PROVE FALSE
  OBVIOUS
<1>1. PICK m \in T : \A l \in T : m <= l
  <2>1. T \subseteq Nat
    OBVIOUS
  <2> HIDE DEF T
  <2> QED
    BY <2>1, LeastOfNaturals
<1>2. CASE m = 0
  <2> DEFINE a == [i \in 0 .. 0 |-> NothingCopied(log)]
  <2>1. Replays(log, 0, a)
    BY DEF Replays
  <2> QED
    BY <1>2, <2>1
<1>3. CASE m # 0
  <2>1. m \in Nat /\ m - 1 \in Nat /\ m - 1 < m
    BY <1>3
  <2>2. m - 1 \notin T
    BY <1>1, <2>1
  <2>3. PICK a : Replays(log, m - 1, a)
    BY <2>1, <2>2
  <2> DEFINE b == [i \in 0 .. m |-> IF i = 0 THEN NothingCopied(log) ELSE CopyBlock(a[i - 1], i)]
  <2>4. \A i \in 0 .. m - 1 : b[i] = a[i]
    BY <2>1, <2>3 DEF Replays
  <2>5. \A i \in 0 .. m : i # 0 => i - 1 \in 0 .. m - 1
    BY <2>1
  <2>6. b = [i \in 0 .. m |-> IF i = 0 THEN NothingCopied(log) ELSE CopyBlock(b[i - 1], i)]
    BY <2>4, <2>5
  <2>7. Replays(log, m, b)
    BY <2>6 DEF Replays
  <2> QED
    BY <1>1, <2>7
<1> QED
  BY <1>2, <1>3

LEMMA ReplayedIs ==
  ASSUME NEW log, Len(log) \in Nat
  PROVE  \E r : Replaying(log, Len(log), r) /\ Replayed(log) = r[Len(log)]
<1>1. PICK p : Replays(log, Len(log), p)
  BY ReplaysExist
<1>2. PICK r : r = CHOOSE q : Replays(log, Len(log), q)
  OBVIOUS
<1>3. Replays(log, Len(log), r)
  <2>1. Replays(log, Len(log), CHOOSE q : Replays(log, Len(log), q))
    BY <1>1
  <2> QED
    BY <1>2, <2>1
<1>4. Replayed(log) = (CHOOSE q : Replays(log, Len(log), q))[Len(log)]
  BY DEF Replayed, Replays
<1> QED
  BY <1>2, <1>3, <1>4, ReplaysIs

LEMMA PutIs ==
  ASSUME NEW f, NEW x, NEW v
  PROVE  /\ DOMAIN Put(f, x, v) = DOMAIN f \cup {x} /\ Put(f, x, v)[x] = v
         /\ \A y \in DOMAIN f : y # x => Put(f, x, v)[y] = f[y]
BY DEF Put

LEMMA DropIs ==
  ASSUME NEW f, NEW x
  PROVE  /\ DOMAIN Drop(f, x) = DOMAIN f \ {x}
         /\ \A y \in DOMAIN f \ {x} : Drop(f, x)[y] = f[y]
BY DEF Drop

\* r is a state of a rebuild of log.
State(log, new, tr, name, dropped, renamed, top, failed, alerts) ==
  [new |-> new, old |-> log, tr |-> tr, name |-> name, deletes |-> Deleted(log),
   dropped |-> dropped, renamed |-> renamed, top |-> top, failed |-> failed, alerts |-> alerts]

Shaped(r, log) ==
  \E new, tr, name, dropped, renamed, top, failed, alerts :
    r = State(log, new, tr, name, dropped, renamed, top, failed, alerts)

LEMMA ShapedIs ==
  ASSUME NEW r, NEW log, Shaped(r, log)
  PROVE  r.old = log /\ r.deletes = Deleted(log)
BY DEF Shaped, State

LEMMA FailedIs ==
  ASSUME NEW r, NEW log, Shaped(r, log), NEW q, q = Failed(r)
  PROVE  /\ Shaped(q, log) /\ q.failed = TRUE /\ q.new = r.new /\ q.tr = r.tr /\ q.name = r.name
         /\ q.dropped = r.dropped /\ q.renamed = r.renamed /\ q.top = r.top /\ q.alerts = r.alerts
<1>1. PICK new, tr, name, dropped, renamed, top, failed, alerts :
        r = State(log, new, tr, name, dropped, renamed, top, failed, alerts)
  BY DEF Shaped
<1>2. q = State(log, new, tr, name, dropped, renamed, top, TRUE, alerts)
  BY <1>1 DEF State, Failed
<1>3. Shaped(q, log)
  BY <1>2 DEF Shaped
<1> QED
  BY <1>1, <1>2, <1>3 DEF State

LEMMA CopiedIs ==
  ASSUME NEW r, NEW log, Shaped(r, log), NEW i, NEW q, q = Copied(r, i)
  PROVE  /\ Shaped(q, log) /\ q.new = Output(r.new, log[i])
         /\ q.tr = Put(r.tr, i, NewOff(r.new)) /\ q.failed = r.failed
         /\ q.name = r.name /\ q.dropped = r.dropped /\ q.renamed = r.renamed
         /\ q.top = r.top /\ q.alerts = r.alerts
<1>1. PICK new, tr, name, dropped, renamed, top, failed, alerts :
        r = State(log, new, tr, name, dropped, renamed, top, failed, alerts)
  BY DEF Shaped
<1>2. q = State(log, Output(new, log[i]), Put(tr, i, NewOff(new)), name, dropped, renamed, top,
                failed, alerts)
  BY <1>1 DEF State, Copied
<1>3. Shaped(q, log)
  BY <1>2 DEF Shaped
<1> QED
  BY <1>1, <1>2, <1>3 DEF State

LEMMA CopiedLiveIs ==
  ASSUME NEW r, NEW log, Shaped(r, log), NEW i, NEW q, q = CopiedLive(r, i)
  PROVE  /\ Shaped(q, log) /\ q.new = AddSchema(r.new, log[i])
         /\ q.tr = Put(r.tr, i, NewOff(r.new)) /\ q.failed = r.failed
         /\ q.name = r.name /\ q.dropped = r.dropped /\ q.renamed = r.renamed
         /\ q.top = r.top /\ q.alerts = r.alerts
<1>1. PICK new, tr, name, dropped, renamed, top, failed, alerts :
        r = State(log, new, tr, name, dropped, renamed, top, failed, alerts)
  BY DEF Shaped
<1>2. q = State(log, AddSchema(new, log[i]), Put(tr, i, NewOff(new)), name, dropped, renamed, top,
                failed, alerts)
  BY <1>1 DEF State, CopiedLive
<1>3. Shaped(q, log)
  BY <1>2 DEF Shaped
<1> QED
  BY <1>1, <1>2, <1>3 DEF State

Clash(d, b) == b.tbl \in Tables(d) \/ TablesNamed(d, b.name) # {}

\* q is r after it has entered b, the record of a table at o.
Entered(r, log, o, b, q) ==
  /\ Shaped(q, log) /\ q.tr = r.tr /\ q.name = Put(r.name, b.tbl, b.name)
  /\ q.failed = r.failed /\ q.dropped = r.dropped /\ q.renamed = r.renamed
  /\ q.top = (IF b.tbl > r.top THEN b.tbl ELSE r.top)
  /\ q.alerts = (r.alerts \/ Clash(r.new, b))
  /\ DbFits(q.new) /\ Recounted(r.new.log, q.new.log)
  /\ q.new.live = (IF Clash(r.new, b) THEN r.new.live ELSE r.new.live \cup {o})
  /\ q.new.log = [r.new.log EXCEPT ![o] = [b EXCEPT !.nrows = 0]]
  /\ q.new.rows = r.new.rows /\ q.new.drops = r.new.drops

LEMMA EnterTableIs ==
  ASSUME NEW r, NEW log, Shaped(r, log), DbFits(r.new), NEW o \in DOMAIN r.new.log,
         r.new.log[o].kind = "tables", o \notin r.new.drops, NEW q, q = EnterTable(r, o),
         NEW b, b = r.new.log[o]
  PROVE  Entered(r, log, o, b, q)
<1>1. PICK d, clash : d = r.new /\ clash = Clash(d, b)
  OBVIOUS
<1>2. /\ d \in Dbs /\ d.log \in Logs /\ DOMAIN d.log = 1 .. Len(d.log) /\ Len(d.log) \in Nat
      /\ DbFits(d)
  BY <1>1, DbIs DEF DbFits
<1>3. b \in TablesBlock /\ b.kind = "tables"
  BY <1>1, <1>2, LogIs, BlockIs
<1>4. PICK c, live2, log2, d2 :
        /\ c = [b EXCEPT !.nrows = 0]
        /\ live2 = (IF clash THEN d.live ELSE d.live \cup {o})
        /\ log2 = [d.log EXCEPT ![o] = c]
        /\ d2 = [d EXCEPT !.live = live2, !.log = log2]
  OBVIOUS
<1>5. c \in TablesBlock /\ c \in Block
  BY <1>3, <1>4 DEF TablesBlock, Block, SchemaBlock
<1>6. log2 \in Logs /\ Len(log2) = Len(d.log) /\ log2[o] = c
      /\ \A p \in 1 .. Len(d.log) : p # o => log2[p] = d.log[p]
  BY <1>1, <1>2, <1>4, <1>5 DEF Logs
<1>7. live2 \subseteq Nat
  BY <1>1, <1>2, <1>4 DEF Dbs
<1>8. d2 \in Dbs /\ d2.log = log2 /\ d2.live = live2 /\ d2.rows = d.rows /\ d2.drops = d.drops
  BY <1>2, <1>4, <1>6, <1>7 DEF Dbs
<1>9. Recounted(d.log, log2)
  <2>1. \A p \in 1 .. Len(d.log) : d.log[p] \in Block /\ (d.log[p].kind = "tables" => d.log[p] \in TablesBlock)
    BY <1>2, LogIs, BlockIs
  <2>2. \A p \in 1 .. Len(d.log) : d.log[p].kind = "tables" => [d.log[p] EXCEPT !.nrows = d.log[p].nrows] = d.log[p]
    BY <2>1 DEF TablesBlock
  <2>3. log2[o] = [d.log[o] EXCEPT !.nrows = log2[o].nrows]
    BY <1>1, <1>3, <1>4, <1>6 DEF TablesBlock
  <2> QED
    BY <1>1, <1>3, <1>6, <2>2, <2>3 DEF Recounted
<1>10. DbFits(d2)
  <2>1. PICK e : e = [d EXCEPT !.log = log2]
    OBVIOUS
  <2>2. e \in Dbs /\ e.log = log2 /\ e.live = d.live /\ e.rows = d.rows /\ e.drops = d.drops
    BY <1>2, <1>6, <2>1 DEF Dbs
  <2>3. Grown(d.log, log2) /\ NoCommits(d.log, log2) /\ DOMAIN log2 = DOMAIN d.log
    BY <1>2, <1>9, RecountedIsGrown
  <2>4. DbFits(e) /\ Tables(e) = Tables(d)
    BY <1>2, <2>2, <2>3, GrownDbFits
  <2>5. Tables(e) \subseteq Tables(d2)
    BY <1>4, <1>8, <2>2 DEF Tables, Live
  <2>6. log2[o].kind = "tables"
    BY <1>3, <1>5, <1>6 DEF TablesBlock
  <2>7. \A p \in d2.live : p \in DOMAIN d2.log /\ d2.log[p].kind \in SchemaKinds
    <3>1. \A p \in d.live : p \in DOMAIN log2 /\ log2[p].kind \in SchemaKinds
      BY <2>2, <2>4 DEF DbFits
    <3>2. o \in DOMAIN log2
      BY <1>1, <2>3
    <3> QED
      BY <1>4, <1>8, <2>6, <3>1, <3>2 DEF SchemaKinds
  <2>8. \A p \in d2.rows : p[1] \in Tables(d2) /\ p[2] \in OfKind(d2.log, "data")
    BY <1>8, <2>2, <2>4, <2>5 DEF DbFits
  <2>9. d2.drops \subseteq DOMAIN d2.log \ d2.live
    BY <1>1, <1>4, <1>8, <2>2, <2>4 DEF DbFits
  <2>10. LogFits(d2.log)
    BY <1>8, <2>2, <2>4 DEF DbFits
  <2> QED
    BY <1>8, <2>7, <2>8, <2>9, <2>10 DEF DbFits
<1>11. PICK new, tr, name, dropped, renamed, top, failed, alerts :
        r = State(log, new, tr, name, dropped, renamed, top, failed, alerts)
  BY DEF Shaped
<1>12. q = State(log, d2, tr, Put(name, b.tbl, b.name), dropped, renamed,
                 IF b.tbl > top THEN b.tbl ELSE top, failed, alerts \/ clash)
  <2>1. q = [r EXCEPT !.new.live = live2, !.new.log[o].nrows = 0,
                      !.name = Put(r.name, b.tbl, b.name),
                      !.top = IF b.tbl > r.top THEN b.tbl ELSE r.top,
                      !.alerts = r.alerts \/ clash]
    BY <1>1, <1>4 DEF EnterTable, Clash
  <2>2. d = new
    BY <1>1, <1>11 DEF State
  <2>3. d2 = [new EXCEPT !.live = live2, !.log = [new.log EXCEPT ![o] = [new.log[o] EXCEPT !.nrows = 0]]]
    BY <1>1, <1>4, <2>2
  <2>4. PICK d1, r1, r2 :
          /\ d1 = [new EXCEPT !.live = live2]
          /\ r1 = [r EXCEPT !.new.live = live2]
          /\ r2 = [r1 EXCEPT !.new.log[o].nrows = 0]
    OBVIOUS
  <2>5. r1 = State(log, d1, tr, name, dropped, renamed, top, failed, alerts)
    BY <1>11, <2>4 DEF State
  <2>6. d1 \in Dbs /\ d1.log = new.log
    BY <1>2, <1>7, <1>1, <2>2, <2>4, <1>4, <1>8 DEF Dbs
  <2>7. d2 = [d1 EXCEPT !.log = [d1.log EXCEPT ![o] = [d1.log[o] EXCEPT !.nrows = 0]]]
    BY <1>2, <2>2, <2>3, <2>4, <2>6 DEF Dbs
  <2>8. r2 = State(log, d2, tr, name, dropped, renamed, top, failed, alerts)
    <3>1. r1.new = d1
      BY <2>5 DEF State
    <3>2. r2 = [r1 EXCEPT !.new = [r1.new EXCEPT !.log = [r1.new.log EXCEPT ![o] = [r1.new.log[o] EXCEPT !.nrows = 0]]]]
      BY <2>4
    <3>3. r2 = [r1 EXCEPT !.new = d2]
      BY <2>7, <3>1, <3>2
    <3> QED
      BY <2>5, <3>3 DEF State
  <2>9. q = [r2 EXCEPT !.name = Put(r.name, b.tbl, b.name),
                       !.top = IF b.tbl > r.top THEN b.tbl ELSE r.top,
                       !.alerts = r.alerts \/ clash]
    BY <2>1, <2>4
  <2>10. r.name = name /\ r.top = top /\ r.alerts = alerts
    BY <1>11 DEF State
  <2> QED
    BY <2>8, <2>9, <2>10 DEF State
<1>13. Shaped(q, log)
  BY <1>12 DEF Shaped
<1>14. /\ q.tr = r.tr /\ q.name = Put(r.name, b.tbl, b.name)
       /\ q.failed = r.failed /\ q.dropped = r.dropped /\ q.renamed = r.renamed
       /\ q.top = (IF b.tbl > r.top THEN b.tbl ELSE r.top)
       /\ q.alerts = (r.alerts \/ clash) /\ q.new = d2
  BY <1>11, <1>12 DEF State
<1> QED
  BY <1>1, <1>4, <1>8, <1>9, <1>10, <1>13, <1>14 DEF Entered

TrFits(log, d, tr, i) ==
  \A j \in DOMAIN tr : j \in 1 .. i /\ tr[j] \in DOMAIN d.log /\ d.log[tr[j]].kind = log[j].kind

DroppedFits(d, dropped) ==
  \A t \in DOMAIN dropped :
    /\ dropped[t] \in DOMAIN d.log
    /\ d.log[dropped[t]].kind = "tables" /\ d.log[dropped[t]].tbl = t
    /\ dropped[t] \notin d.live \cup d.drops

\* What holds of the state r after block i of any file.
RCore(r, log, i) ==
  /\ Shaped(r, log)
  /\ DbFits(r.new) /\ Len(r.new.log) <= i
  /\ TrFits(log, r.new, r.tr, i)
  /\ r.top \in 0 .. TN_VIEWS + MaxTables /\ r.failed \in BOOLEAN
  /\ ~ r.failed => \A c \in Commits(log) : c <= i => c \in DOMAIN r.tr

RFits(r, log, i) == RCore(r, log, i) /\ DroppedFits(r.new, r.dropped)

LEMMA TrGrows ==
  ASSUME NEW log, NEW d, d.log \in Logs, NEW d2, Grown(d.log, d2.log),
         NEW tr, NEW i \in Nat, TrFits(log, d, tr, i), NEW k \in Nat, i <= k
  PROVE  TrFits(log, d2, tr, k)
<1>1. DOMAIN d.log \subseteq DOMAIN d2.log /\ \A o \in DOMAIN d.log : d2.log[o].kind = d.log[o].kind
  BY GrownKinds
<1> QED
  BY <1>1 DEF TrFits

LEMMA TrPut ==
  ASSUME NEW log, NEW d, d.log \in Logs, NEW d2, Grown(d.log, d2.log),
         NEW tr, NEW i \in Nat \ {0}, TrFits(log, d, tr, i - 1),
         NEW o \in DOMAIN d2.log, d2.log[o].kind = log[i].kind
  PROVE  TrFits(log, d2, Put(tr, i, o), i)
<1>1. i - 1 \in Nat /\ i - 1 <= i /\ i \in 1 .. i
  OBVIOUS
<1>2. TrFits(log, d2, tr, i)
  BY <1>1, TrGrows
<1>3. /\ DOMAIN Put(tr, i, o) = DOMAIN tr \cup {i} /\ Put(tr, i, o)[i] = o
      /\ \A j \in DOMAIN tr : j # i => Put(tr, i, o)[j] = tr[j]
  BY DEF Put
<1>4. PICK tr2 : tr2 = Put(tr, i, o)
  OBVIOUS
<1>5. ASSUME NEW j \in DOMAIN tr2
      PROVE  j \in 1 .. i /\ tr2[j] \in DOMAIN d2.log /\ d2.log[tr2[j]].kind = log[j].kind
  <2>1. CASE j = i
    BY <1>1, <1>3, <1>4, <2>1
  <2>2. CASE j # i
    <3>1. j \in DOMAIN tr /\ tr2[j] = tr[j]
      BY <1>3, <1>4, <2>2
    <3> QED
      BY <1>2, <3>1 DEF TrFits
  <2> QED
    BY <2>1, <2>2
<1> QED
  BY <1>4, <1>5 DEF TrFits

LEMMA DroppedGrows ==
  ASSUME NEW d, d.log \in Logs, NEW d2, Grown(d.log, d2.log), NEW dropped, DroppedFits(d, dropped),
         \A o \in DOMAIN d.log : o \in d2.live \cup d2.drops => o \in d.live \cup d.drops
  PROVE  DroppedFits(d2, dropped)
<1>1. /\ DOMAIN d.log \subseteq DOMAIN d2.log
      /\ \A o \in DOMAIN d.log : d2.log[o].kind = d.log[o].kind
      /\ \A o \in DOMAIN d.log : d.log[o].kind \in SchemaKinds \cup {"data"} => d2.log[o].tbl = d.log[o].tbl
  BY GrownKinds
<1> QED
  BY <1>1 DEF DroppedFits, SchemaKinds

LEMMA CommitsPut ==
  ASSUME NEW log, NEW tr, NEW i \in Nat \ {0}, NEW o,
         \A c \in Commits(log) : c <= i - 1 => c \in DOMAIN tr, Commits(log) \subseteq Nat
  PROVE  \A c \in Commits(log) : c <= i => c \in DOMAIN Put(tr, i, o)
<1>1. DOMAIN Put(tr, i, o) = DOMAIN tr \cup {i}
  BY PutIs
<1>2. \A c \in Commits(log) : c <= i => c <= i - 1 \/ c = i
  OBVIOUS
<1> QED
  BY <1>1, <1>2

LEMMA BlocksOf ==
  ASSUME NEW log, LogFits(log), NEW i \in DOMAIN log
  PROVE  /\ log[i] \in Block /\ i \in Nat \ {0} /\ i - 1 \in Nat /\ i - 1 <= i
         /\ Commits(log) \subseteq Nat /\ log \in Logs /\ DOMAIN log = 1 .. Len(log)
         /\ (log[i].kind \in SchemaKinds => log[i] \in SchemaBlock)
<1>1. log \in Logs /\ DOMAIN log = 1 .. Len(log) /\ Len(log) \in Nat
  BY LogIs DEF LogFits
<1> QED
  BY <1>1, LogIs, BlockIs DEF Commits

LEMMA CopiedFits ==
  ASSUME NEW log, LogFits(log), NEW i \in DOMAIN log, NEW r, RFits(r, log, i - 1), ~ r.failed,
         log[i].kind # "commit", NEW q, q = Copied(r, i)
  PROVE  /\ RFits(q, log, i) /\ Longer(r.new.log, log[i], q.new.log)
         /\ q.new.live = r.new.live /\ q.new.rows = r.new.rows /\ q.new.drops = r.new.drops
<1>1. /\ log[i] \in Block /\ i \in Nat \ {0} /\ i - 1 \in Nat /\ i - 1 <= i
      /\ Commits(log) \subseteq Nat
  BY BlocksOf
<1>2. Shaped(r, log) /\ DbFits(r.new) /\ Len(r.new.log) <= i - 1
  BY DEF RFits, RCore
<1>3. PICK d, e : d = r.new /\ e = q.new
  OBVIOUS
<1>4. /\ DbFits(d) /\ d \in Dbs /\ d.log \in Logs /\ DOMAIN d.log = 1 .. Len(d.log)
      /\ Len(d.log) \in Nat /\ Len(d.log) <= i - 1 /\ NewOff(d) = Len(d.log) + 1
  BY <1>2, <1>3, DbIs DEF DbFits
<1>5. /\ Shaped(q, log) /\ e = Output(d, log[i]) /\ q.tr = Put(r.tr, i, Len(d.log) + 1)
      /\ q.failed = r.failed /\ q.dropped = r.dropped /\ q.top = r.top
  BY <1>2, <1>3, <1>4, CopiedIs
<1>6. /\ e \in Dbs /\ Longer(d.log, log[i], e.log) /\ e.live = d.live /\ e.rows = d.rows
      /\ e.drops = d.drops
  BY <1>1, <1>4, <1>5, OutputIs
<1>7. /\ Grown(d.log, e.log) /\ Len(e.log) = Len(d.log) + 1 /\ e.log[Len(d.log) + 1] = log[i]
      /\ DOMAIN e.log \ DOMAIN d.log = {Len(d.log) + 1} /\ Len(d.log) + 1 \in DOMAIN e.log
  BY <1>1, <1>4, <1>6, LongerIsGrown, LongerDomain DEF Longer
<1>8. NoCommits(d.log, e.log)
  BY <1>7 DEF NoCommits
<1>9. DbFits(e)
  BY <1>4, <1>6, <1>7, <1>8, GrownDbFits
<1>10. TrFits(log, e, q.tr, i)
  <2>1. TrFits(log, d, r.tr, i - 1)
    BY <1>3 DEF RFits, RCore
  <2> QED
    BY <1>1, <1>4, <1>5, <1>7, <2>1, TrPut
<1>11. DroppedFits(e, q.dropped)
  <2>1. DroppedFits(d, r.dropped)
    BY <1>3 DEF RFits, RCore
  <2> QED
    BY <1>4, <1>5, <1>6, <1>7, <2>1, DroppedGrows
<1>12. \A c \in Commits(log) : c <= i => c \in DOMAIN q.tr
  <2>1. \A c \in Commits(log) : c <= i - 1 => c \in DOMAIN r.tr
    BY DEF RFits, RCore
  <2> QED
    BY <1>1, <1>5, <2>1, CommitsPut
<1>13. q.top \in 0 .. TN_VIEWS + MaxTables /\ q.failed \in BOOLEAN /\ Len(e.log) <= i
  BY <1>1, <1>4, <1>5, <1>7 DEF RFits, RCore
<1> QED
  BY <1>3, <1>5, <1>6, <1>9, <1>10, <1>11, <1>12, <1>13 DEF RFits, RCore

LEMMA CopiedLiveFits ==
  ASSUME NEW log, LogFits(log), NEW i \in DOMAIN log, NEW r, RFits(r, log, i - 1), ~ r.failed,
         log[i].kind \in SchemaKinds, NEW q, q = CopiedLive(r, i)
  PROVE  /\ RFits(q, log, i) /\ Longer(r.new.log, log[i], q.new.log)
         /\ q.new.live = r.new.live \cup {Len(r.new.log) + 1}
         /\ q.new.rows = r.new.rows /\ q.new.drops = r.new.drops
<1>1. /\ log[i] \in Block /\ i \in Nat \ {0} /\ i - 1 \in Nat /\ i - 1 <= i
      /\ Commits(log) \subseteq Nat /\ log[i] \in SchemaBlock
  BY BlocksOf
<1>2. Shaped(r, log) /\ DbFits(r.new) /\ Len(r.new.log) <= i - 1
  BY DEF RFits, RCore
<1>3. PICK d, e : d = r.new /\ e = q.new
  OBVIOUS
<1>4. /\ DbFits(d) /\ d \in Dbs /\ d.log \in Logs /\ DOMAIN d.log = 1 .. Len(d.log)
      /\ Len(d.log) \in Nat /\ Len(d.log) <= i - 1 /\ NewOff(d) = Len(d.log) + 1
  BY <1>2, <1>3, DbIs DEF DbFits
<1>5. /\ Shaped(q, log) /\ e = AddSchema(d, log[i]) /\ q.tr = Put(r.tr, i, Len(d.log) + 1)
      /\ q.failed = r.failed /\ q.dropped = r.dropped /\ q.top = r.top
  BY <1>2, <1>3, <1>4, CopiedLiveIs
<1>6. /\ Longer(d.log, log[i], e.log) /\ e.live = d.live \cup {Len(d.log) + 1} /\ e.rows = d.rows
      /\ e.drops = d.drops
  BY <1>1, <1>4, <1>5, AddSchemaIs
<1>7. /\ Grown(d.log, e.log) /\ Len(e.log) = Len(d.log) + 1 /\ e.log[Len(d.log) + 1] = log[i]
      /\ DOMAIN e.log \ DOMAIN d.log = {Len(d.log) + 1} /\ Len(d.log) + 1 \in DOMAIN e.log
      /\ Len(d.log) + 1 \notin DOMAIN d.log
  BY <1>1, <1>4, <1>6, LongerIsGrown, LongerDomain DEF Longer
<1>8. Edited(d, {}, e)
  BY <1>1, <1>4, <1>5, AddSchemaEdits
<1>9. DbFits(e)
  BY <1>4, <1>6, <1>8, SameRowsFit
<1>10. TrFits(log, e, q.tr, i)
  <2>1. TrFits(log, d, r.tr, i - 1)
    BY <1>3 DEF RFits, RCore
  <2> QED
    BY <1>1, <1>4, <1>5, <1>7, <2>1, TrPut
<1>11. DroppedFits(e, q.dropped)
  <2>1. DroppedFits(d, r.dropped)
    BY <1>3 DEF RFits, RCore
  <2> QED
    BY <1>4, <1>5, <1>6, <1>7, <2>1, DroppedGrows
<1>12. \A c \in Commits(log) : c <= i => c \in DOMAIN q.tr
  <2>1. \A c \in Commits(log) : c <= i - 1 => c \in DOMAIN r.tr
    BY DEF RFits, RCore
  <2> QED
    BY <1>1, <1>5, <2>1, CommitsPut
<1>13. q.top \in 0 .. TN_VIEWS + MaxTables /\ q.failed \in BOOLEAN /\ Len(e.log) <= i
  BY <1>1, <1>4, <1>5, <1>7 DEF RFits, RCore
<1> QED
  BY <1>3, <1>5, <1>6, <1>9, <1>10, <1>11, <1>12, <1>13 DEF RFits, RCore

LEMMA WithDroppedIs ==
  ASSUME NEW r, NEW log, Shaped(r, log), NEW x, NEW q, q = [r EXCEPT !.dropped = x]
  PROVE  /\ Shaped(q, log) /\ q.new = r.new /\ q.tr = r.tr /\ q.failed = r.failed
         /\ q.name = r.name /\ q.dropped = x /\ q.renamed = r.renamed
         /\ q.top = r.top /\ q.alerts = r.alerts
<1>1. PICK new, tr, name, dropped, renamed, top, failed, alerts :
        r = State(log, new, tr, name, dropped, renamed, top, failed, alerts)
  BY DEF Shaped
<1>2. q = State(log, new, tr, name, x, renamed, top, failed, alerts)
  BY <1>1 DEF State
<1>3. Shaped(q, log)
  BY <1>2 DEF Shaped
<1> QED
  BY <1>1, <1>2, <1>3 DEF State

LEMMA WithRenamedIs ==
  ASSUME NEW r, NEW log, Shaped(r, log), NEW x, NEW q, q = [r EXCEPT !.renamed = x]
  PROVE  /\ Shaped(q, log) /\ q.new = r.new /\ q.tr = r.tr /\ q.failed = r.failed
         /\ q.name = r.name /\ q.dropped = r.dropped /\ q.renamed = x
         /\ q.top = r.top /\ q.alerts = r.alerts
<1>1. PICK new, tr, name, dropped, renamed, top, failed, alerts :
        r = State(log, new, tr, name, dropped, renamed, top, failed, alerts)
  BY DEF Shaped
<1>2. q = State(log, new, tr, name, dropped, x, top, failed, alerts)
  BY <1>1 DEF State
<1>3. Shaped(q, log)
  BY <1>2 DEF Shaped
<1> QED
  BY <1>1, <1>2, <1>3 DEF State

LEMMA WithNewIs ==
  ASSUME NEW r, NEW log, Shaped(r, log), NEW x, NEW q, q = [r EXCEPT !.new = x]
  PROVE  /\ Shaped(q, log) /\ q.new = x /\ q.tr = r.tr /\ q.failed = r.failed
         /\ q.name = r.name /\ q.dropped = r.dropped /\ q.renamed = r.renamed
         /\ q.top = r.top /\ q.alerts = r.alerts
<1>1. PICK new, tr, name, dropped, renamed, top, failed, alerts :
        r = State(log, new, tr, name, dropped, renamed, top, failed, alerts)
  BY DEF Shaped
<1>2. q = State(log, x, tr, name, dropped, renamed, top, failed, alerts)
  BY <1>1 DEF State
<1>3. Shaped(q, log)
  BY <1>2 DEF Shaped
<1> QED
  BY <1>1, <1>2, <1>3 DEF State

LEMMA DropDropped ==
  ASSUME NEW d, NEW dropped, DroppedFits(d, dropped), NEW t
  PROVE  DroppedFits(d, Drop(dropped, t))
BY DEF Drop, DroppedFits

LEMMA EnterTableFits ==
  ASSUME NEW log, NEW i, NEW r, RCore(r, log, i), NEW o \in DOMAIN r.new.log,
         r.new.log[o].kind = "tables", o \notin r.new.drops, NEW q, q = EnterTable(r, o)
  PROVE  /\ RCore(q, log, i)
         /\ \A dr : DroppedFits(r.new, dr) /\ (\A t \in DOMAIN dr : dr[t] # o) => DroppedFits(q.new, dr)
<1>1. PICK b, d, e : b = r.new.log[o] /\ d = r.new /\ e = q.new
  OBVIOUS
<1>2. /\ Shaped(q, log) /\ q.tr = r.tr /\ q.failed = r.failed
      /\ q.top = (IF b.tbl > r.top THEN b.tbl ELSE r.top)
      /\ DbFits(e) /\ Recounted(d.log, e.log)
      /\ e.live = (IF Clash(d, b) THEN d.live ELSE d.live \cup {o})
      /\ e.drops = d.drops
  <2>1. Shaped(r, log) /\ DbFits(r.new)
    BY DEF RCore
  <2>2. Entered(r, log, o, b, q)
    BY <1>1, <2>1, EnterTableIs
  <2> QED
    BY <1>1, <2>2 DEF Entered
<1>3. /\ DbFits(d) /\ d.log \in Logs /\ Len(e.log) = Len(d.log)
      /\ Grown(d.log, e.log) /\ DOMAIN e.log = DOMAIN d.log
  BY <1>1, <1>2, RecountedIsGrown DEF RCore, DbFits, Dbs, Recounted
<1>4. b.tbl \in 1 .. TN_VIEWS + MaxTables
  <2>1. b \in TablesBlock
    BY <1>1, <1>3, LogIs, BlockIs
  <2> QED
    BY <2>1 DEF TablesBlock, Numbers
<1>5. q.top \in 0 .. TN_VIEWS + MaxTables
  BY <1>2, <1>4 DEF RCore
<1>6. TrFits(log, e, q.tr, i)
  <2>1. TrFits(log, d, r.tr, i)
    BY <1>1 DEF RCore
  <2>2. \A p \in DOMAIN d.log : e.log[p].kind = d.log[p].kind
    BY <1>3, GrownKinds
  <2> QED
    BY <1>2, <1>3, <2>1, <2>2 DEF TrFits
<1>7. ASSUME NEW dr, DroppedFits(d, dr), \A t \in DOMAIN dr : dr[t] # o
      PROVE  DroppedFits(e, dr)
  <2>1. /\ \A p \in DOMAIN d.log : e.log[p].kind = d.log[p].kind
        /\ \A p \in DOMAIN d.log : d.log[p].kind \in SchemaKinds \cup {"data"} => e.log[p].tbl = d.log[p].tbl
    BY <1>3, GrownKinds
  <2> QED
    BY <1>2, <1>3, <1>7, <2>1 DEF DroppedFits, SchemaKinds
<1>8. RCore(q, log, i)
  BY <1>1, <1>2, <1>3, <1>5, <1>6 DEF RCore
<1> QED
  BY <1>1, <1>7, <1>8

\* The state after the record of a table that was dropped later.
LEMMA CopyDeadTableFits ==
  ASSUME NEW log, LogFits(log), NEW i \in DOMAIN log, NEW r, RFits(r, log, i - 1), ~ r.failed,
         log[i].kind = "tables", NEW q, q = CopyDeadTable(r, i)
  PROVE  RFits(q, log, i)
<1>1. PICK e, d, t : e = Copied(r, i) /\ d = r.new /\ t = log[i].tbl
  OBVIOUS
<1>2. /\ RFits(e, log, i) /\ Longer(d.log, log[i], e.new.log)
      /\ e.new.live = d.live /\ e.new.drops = d.drops
  BY <1>1, CopiedFits
<1>3. /\ Shaped(r, log) /\ DbFits(d) /\ d.log \in Logs /\ NewOff(d) = Len(d.log) + 1
      /\ DOMAIN d.log = 1 .. Len(d.log) /\ Len(d.log) \in Nat
  BY <1>1, DbIs DEF RFits, RCore, DbFits
<1>4. q = [e EXCEPT !.dropped = Put(e.dropped, t, Len(d.log) + 1)]
  BY <1>1, <1>3, ShapedIs DEF CopyDeadTable
<1>5. /\ Shaped(q, log) /\ q.new = e.new /\ q.tr = e.tr /\ q.failed = e.failed /\ q.top = e.top
      /\ q.dropped = Put(e.dropped, t, Len(d.log) + 1)
  BY <1>2, <1>4, WithDroppedIs DEF RFits, RCore
<1>6. Len(d.log) + 1 \in DOMAIN e.new.log /\ e.new.log[Len(d.log) + 1] = log[i]
      /\ Len(d.log) + 1 \notin DOMAIN d.log
  BY <1>2, <1>3, LongerDomain, BlocksOf DEF Longer
<1>7. Len(d.log) + 1 \notin e.new.live \cup e.new.drops
  BY <1>2, <1>3, <1>6 DEF DbFits
<1>8. DroppedFits(q.new, q.dropped)
  <2>1. DroppedFits(e.new, e.dropped)
    BY <1>2 DEF RFits
  <2>2. PICK dr : dr = Put(e.dropped, t, Len(d.log) + 1)
    OBVIOUS
  <2>3. /\ DOMAIN dr = DOMAIN e.dropped \cup {t} /\ dr[t] = Len(d.log) + 1
        /\ \A u \in DOMAIN e.dropped : u # t => dr[u] = e.dropped[u]
    BY <2>2 DEF Put
  <2>4. \A u \in DOMAIN dr : u = t \/ (u \in DOMAIN e.dropped /\ dr[u] = e.dropped[u])
    BY <2>3
  <2>5. DroppedFits(e.new, dr)
    BY <1>1, <1>6, <1>7, <2>1, <2>3, <2>4 DEF DroppedFits
  <2> QED
    BY <1>5, <2>2, <2>5
<1> QED
  BY <1>2, <1>5, <1>8 DEF RFits, RCore

LEMMA EnterNewFits ==
  ASSUME NEW log, LogFits(log), NEW i \in DOMAIN log, NEW r, RFits(r, log, i - 1), ~ r.failed,
         log[i].kind = "tables", NEW t, t = log[i].tbl,
         NEW q, q = EnterTable([Copied(r, i) EXCEPT !.dropped = Drop(@, t)], NewOff(r.new))
  PROVE  RFits(q, log, i)
<1>1. PICK e, d, f : /\ e = Copied(r, i) /\ d = r.new
                     /\ f = [e EXCEPT !.dropped = Drop(e.dropped, t)]
  OBVIOUS
<1>2. /\ RFits(e, log, i) /\ Longer(d.log, log[i], e.new.log)
      /\ e.new.live = d.live /\ e.new.drops = d.drops
  BY <1>1, CopiedFits
<1>3. /\ Shaped(r, log) /\ DbFits(d) /\ d.log \in Logs /\ NewOff(d) = Len(d.log) + 1
      /\ DOMAIN d.log = 1 .. Len(d.log) /\ Len(d.log) \in Nat
  BY <1>1, DbIs DEF RFits, RCore, DbFits
<1>4. /\ Shaped(f, log) /\ f.new = e.new /\ f.tr = e.tr /\ f.failed = e.failed /\ f.top = e.top
      /\ f.dropped = Drop(e.dropped, t)
  BY <1>1, <1>2, WithDroppedIs DEF RFits, RCore
<1>5. PICK o : o = Len(d.log) + 1
  OBVIOUS
<1>6. q = EnterTable(f, o)
  BY <1>1, <1>3, <1>5
<1>7. o \in DOMAIN f.new.log /\ f.new.log[o] = log[i] /\ o \notin DOMAIN d.log
  BY <1>2, <1>3, <1>4, <1>5, LongerDomain, BlocksOf DEF Longer
<1>8. o \notin f.new.drops
  BY <1>2, <1>3, <1>4, <1>7 DEF DbFits
<1>9. RCore(f, log, i)
  BY <1>2, <1>4 DEF RFits, RCore
<1>10. RCore(q, log, i)
       /\ \A dr : DroppedFits(f.new, dr) /\ (\A u \in DOMAIN dr : dr[u] # o) => DroppedFits(q.new, dr)
  BY <1>6, <1>7, <1>8, <1>9, EnterTableFits
<1>11. DroppedFits(f.new, f.dropped)
  BY <1>2, <1>4, DropDropped DEF RFits
<1>12. \A u \in DOMAIN f.dropped : f.dropped[u] # o
  <2>1. \A u \in DOMAIN f.dropped : u # t
    BY <1>4 DEF Drop
  <2>2. \A u \in DOMAIN f.dropped : f.new.log[f.dropped[u]].tbl = u
    BY <1>11 DEF DroppedFits
  <2> QED
    BY <1>7, <2>1, <2>2
<1>13. q.dropped = f.dropped
  <2>1. Shaped(f, log) /\ DbFits(f.new) /\ f.new.log[o].kind = "tables"
    BY <1>4, <1>7, <1>9 DEF RCore
  <2>2. Entered(f, log, o, f.new.log[o], q)
    BY <1>6, <1>7, <1>8, <2>1, EnterTableIs
  <2> QED
    BY <2>2 DEF Entered
<1> QED
  BY <1>10, <1>11, <1>12, <1>13 DEF RFits

LEMMA IdleFits ==
  ASSUME NEW log, LogFits(log), NEW i \in DOMAIN log, NEW r, RFits(r, log, i - 1),
         r.failed \/ log[i].kind # "commit"
  PROVE  RFits(r, log, i)
<1>1. i \in Nat \ {0} /\ i - 1 \in Nat /\ i - 1 <= i /\ Commits(log) \subseteq Nat
  BY BlocksOf
<1>2. DbFits(r.new) /\ r.new.log \in Logs /\ Len(r.new.log) \in Nat
  BY LogIs DEF RFits, RCore, DbFits, Dbs
<1>3. TrFits(log, r.new, r.tr, i)
  <2>1. Grown(r.new.log, r.new.log) /\ TrFits(log, r.new, r.tr, i - 1)
    BY <1>2, GrownSelf DEF RFits, RCore
  <2> QED
    BY <1>1, <1>2, <2>1, TrGrows
<1>4. ~ r.failed => \A c \in Commits(log) : c <= i => c \in DOMAIN r.tr
  <2>1. ~ r.failed => i \notin Commits(log)
    BY DEF Commits
  <2>2. \A c \in Commits(log) : c <= i => c <= i - 1 \/ c = i
    BY <1>1
  <2> QED
    BY <2>1, <2>2 DEF RFits, RCore
<1>5. Len(r.new.log) <= i
  BY <1>1, <1>2 DEF RFits, RCore
<1> QED
  BY <1>3, <1>4, <1>5 DEF RFits, RCore

LEMMA FailedFits ==
  ASSUME NEW log, LogFits(log), NEW i \in DOMAIN log, NEW r, RFits(r, log, i - 1),
         NEW q, q = Failed(r)
  PROVE  RFits(q, log, i)
<1>1. /\ Shaped(q, log) /\ q.failed = TRUE /\ q.new = r.new /\ q.tr = r.tr
      /\ q.dropped = r.dropped /\ q.top = r.top
  BY FailedIs DEF RFits, RCore
<1>2. RFits(q, log, i - 1)
  BY <1>1 DEF RFits, RCore
<1> QED
  BY <1>1, <1>2, IdleFits

LEMMA CopyRenameFits ==
  ASSUME NEW log, LogFits(log), NEW i \in DOMAIN log, NEW r, RFits(r, log, i - 1), ~ r.failed,
         log[i].kind = "tables", NEW q, q = CopyRename(r, i)
  PROVE  RFits(q, log, i)
<1>1. PICK b, before, done, d :
        /\ b = log[i] /\ d = r.new
        /\ before = d.log[r.renamed[b.tbl]].name
        /\ done = [r EXCEPT !.renamed = Drop(r.renamed, b.tbl)]
  OBVIOUS
<1>2. /\ DbFits(d) /\ Shaped(r, log) /\ r.old = log /\ d.log \in Logs
      /\ DOMAIN d.log = 1 .. Len(d.log) /\ Len(d.log) \in Nat /\ Len(d.log) <= i - 1
      /\ TrFits(log, d, r.tr, i - 1) /\ DroppedFits(d, r.dropped)
  BY <1>1, ShapedIs, DbIs DEF RFits, RCore, DbFits
<1>3. /\ Shaped(done, log) /\ done.new = d /\ done.tr = r.tr /\ done.failed = r.failed
      /\ done.dropped = r.dropped /\ done.top = r.top
  BY <1>1, <1>2, WithRenamedIs
<1>4. RFits(done, log, i - 1)
  BY <1>1, <1>3 DEF RFits, RCore
<1>5. RFits(done, log, i)
  BY <1>3, <1>4, IdleFits
<1>6. q = CASE before = b.name -> done
          [] before # b.name /\ TablesNamed(d, before) # {}
                             /\ TablesNamed(d, b.name) = {} ->
               [done EXCEPT !.new =
                 Renamed(done.new, CHOOSE t \in TablesNamed(d, before) : TRUE,
                         b.name, TRUE)]
          [] OTHER -> Failed(r)
  BY <1>1, <1>2 DEF CopyRename
<1>7. CASE before = b.name
  BY <1>5, <1>6, <1>7
<1>8. CASE before # b.name /\ TablesNamed(d, before) # {} /\ TablesNamed(d, b.name) = {}
  <2>1. PICK u, f : /\ u = CHOOSE t \in TablesNamed(d, before) : TRUE
                    /\ f = Renamed(d, u, b.name, TRUE)
    OBVIOUS
  <2>2. u \in TablesNamed(d, before)
    BY <1>8, <2>1
  <2>3. u \in Tables(d)
    BY <2>2 DEF TablesNamed, Tables
  <2>4. b.name \in Names
    BY <1>1, BlocksOf, BlockIs DEF TablesBlock
  <2>5. PICK o : o = TableOf(d, u)
    OBVIOUS
  <2>6. /\ Edited(d, {o}, f) /\ DbFits(f)
        /\ Longer(d.log, [d.log[o] EXCEPT !.name = b.name, !.hidden = TRUE], f.log)
    <3>1. PICK h \in BOOLEAN : h = TRUE
      OBVIOUS
    <3>2. f = Renamed(d, u, b.name, h)
      BY <2>1, <3>1
    <3>3. /\ Edited(d, {o}, f) /\ DbFits(f)
          /\ Longer(d.log, [d.log[o] EXCEPT !.name = b.name, !.hidden = h], f.log)
      BY <1>2, <2>3, <2>4, <2>5, <3>2, RenamedIs
    <3> QED
      BY <3>1, <3>3
  <2>7. o \in d.live
    BY <1>2, <2>3, <2>5, TableOfIs
  <2>8. q = [done EXCEPT !.new = f]
    BY <1>3, <1>6, <1>8, <2>1
  <2>9. /\ Shaped(q, log) /\ q.new = f /\ q.tr = r.tr /\ q.failed = r.failed
        /\ q.dropped = r.dropped /\ q.top = r.top
    BY <1>3, <2>8, WithNewIs
  <2>10. Grown(d.log, f.log) /\ Len(f.log) <= i
    BY <1>2, <2>6, BlocksOf DEF Edited, Longer
  <2>11. TrFits(log, f, q.tr, i)
    BY <1>2, <2>9, <2>10, BlocksOf, TrGrows
  <2>12. DroppedFits(f, q.dropped)
    <3>1. \A p \in DOMAIN d.log : p \in f.live \cup f.drops => p \in d.live \cup d.drops
      BY <2>6, <2>7 DEF Edited, NewIn
    <3> QED
      BY <1>2, <2>9, <2>10, <3>1, DroppedGrows
  <2>13. \A c \in Commits(log) : c <= i => c \in DOMAIN q.tr
    BY <1>3, <1>5, <2>9 DEF RFits, RCore
  <2>14. q.top \in 0 .. TN_VIEWS + MaxTables /\ q.failed \in BOOLEAN
    BY <2>9 DEF RFits, RCore
  <2> QED
    BY <2>6, <2>9, <2>10, <2>11, <2>12, <2>13, <2>14 DEF RFits, RCore
<1>9. CASE ~ (before = b.name) /\ ~ (TablesNamed(d, before) # {} /\ TablesNamed(d, b.name) = {})
  <2>1. q = Failed(r)
    BY <1>6, <1>9
  <2> QED
    BY <2>1, FailedFits
<1> QED
  BY <1>7, <1>8, <1>9

LEMMA CopyTableFits ==
  ASSUME NEW log, LogFits(log), NEW i \in DOMAIN log, NEW r, RFits(r, log, i - 1), ~ r.failed,
         log[i].kind = "tables", NEW q, q = CopyTable(r, i)
  PROVE  RFits(q, log, i)
<1>1. r.old = log
  BY ShapedIs DEF RFits, RCore
<1>2. CASE i \in r.deletes
  <2>1. q = CopyDeadTable(r, i)
    BY <1>2 DEF CopyTable
  <2> QED
    BY <2>1, CopyDeadTableFits
<1>3. CASE i \notin r.deletes /\ log[i].tbl \in DOMAIN r.renamed
  <2>1. q = CopyRename(r, i)
    BY <1>1, <1>3 DEF CopyTable
  <2> QED
    BY <2>1, CopyRenameFits
<1>4. CASE i \notin r.deletes /\ log[i].tbl \notin DOMAIN r.renamed
  <2>1. q = EnterTable([Copied(r, i) EXCEPT !.dropped = Drop(@, log[i].tbl)], NewOff(r.new))
    BY <1>1, <1>4 DEF CopyTable
  <2> QED
    BY <2>1, EnterNewFits
<1> QED
  BY <1>2, <1>3, <1>4

LEMMA CopyColumnFits ==
  ASSUME NEW log, LogFits(log), NEW i \in DOMAIN log, NEW r, RFits(r, log, i - 1), ~ r.failed,
         log[i].kind = "columns", NEW q, q = CopyColumn(r, i)
  PROVE  RFits(q, log, i)
<1>1. q \in {Copied(r, i), Failed(r), CopiedLive(r, i)}
  BY DEF CopyColumn
<1>2. log[i].kind # "commit" /\ log[i].kind \in SchemaKinds
  BY DEF SchemaKinds
<1> QED
  BY <1>1, <1>2, CopiedFits, FailedFits, CopiedLiveFits

\* The record of a dropped table is entered while its indexes are made.
Revived(r, t) ==
  [EnterTable(r, r.dropped[t]) EXCEPT !.renamed = Put(@, t, r.dropped[t]),
                                      !.dropped = Drop(@, t)]

LEMMA ReviveFits ==
  ASSUME NEW log, NEW i, NEW r, RFits(r, log, i), NEW t \in DOMAIN r.dropped,
         NEW q, q = Revived(r, t)
  PROVE  RFits(q, log, i) /\ q.failed = r.failed
<1>1. PICK o, e : o = r.dropped[t] /\ e = EnterTable(r, o)
  OBVIOUS
<1>2. /\ o \in DOMAIN r.new.log /\ r.new.log[o].kind = "tables" /\ r.new.log[o].tbl = t
      /\ o \notin r.new.drops /\ RCore(r, log, i) /\ DroppedFits(r.new, r.dropped)
  BY <1>1 DEF RFits, DroppedFits
<1>3. /\ RCore(e, log, i)
      /\ \A dr : DroppedFits(r.new, dr) /\ (\A u \in DOMAIN dr : dr[u] # o) => DroppedFits(e.new, dr)
  BY <1>1, <1>2, EnterTableFits
<1>4. Entered(r, log, o, r.new.log[o], e)
  <2>1. Shaped(r, log) /\ DbFits(r.new)
    BY <1>2 DEF RCore
  <2> QED
    BY <1>1, <1>2, <2>1, EnterTableIs
<1>5. PICK x, y, f : /\ x = Put(e.renamed, t, o) /\ y = Drop(e.dropped, t)
                     /\ f = [e EXCEPT !.renamed = x]
  OBVIOUS
<1>6. /\ Shaped(f, log) /\ f.new = e.new /\ f.tr = e.tr /\ f.failed = e.failed
      /\ f.dropped = e.dropped /\ f.top = e.top
  <2>1. Shaped(e, log)
    BY <1>3 DEF RCore
  <2> QED
    BY <1>5, <2>1, WithRenamedIs
<1>7. q = [f EXCEPT !.dropped = y]
  BY <1>1, <1>5, <1>6 DEF Revived
<1>8. /\ Shaped(q, log) /\ q.new = f.new /\ q.tr = f.tr /\ q.failed = f.failed
      /\ q.dropped = Drop(f.dropped, t) /\ q.top = f.top
  <2>1. /\ Shaped(q, log) /\ q.new = f.new /\ q.tr = f.tr /\ q.failed = f.failed
        /\ q.dropped = y /\ q.top = f.top
    <3>1. PICK g : g = [f EXCEPT !.dropped = y]
      OBVIOUS
    <3>2. Shaped(f, log)
      BY <1>6
    <3>3. /\ Shaped(g, log) /\ g.new = f.new /\ g.tr = f.tr /\ g.failed = f.failed
          /\ g.dropped = y /\ g.top = f.top
      BY <3>1, <3>2, WithDroppedIs
    <3> QED
      BY <1>7, <3>1, <3>3
  <2> QED
    BY <2>1, <1>5, <1>6
<1>9. RCore(q, log, i)
  BY <1>3, <1>6, <1>8 DEF RCore
<1>10. DroppedFits(e.new, Drop(r.dropped, t))
  <2>1. DroppedFits(r.new, Drop(r.dropped, t))
    BY <1>2, DropDropped
  <2>2. PICK dr : dr = Drop(r.dropped, t)
    OBVIOUS
  <2>3. \A u \in DOMAIN dr : u # t /\ dr[u] = r.dropped[u] /\ u \in DOMAIN r.dropped
    BY <2>2 DEF Drop
  <2>4. \A u \in DOMAIN dr : dr[u] # o
    BY <1>2, <2>3 DEF DroppedFits
  <2> QED
    BY <1>3, <2>1, <2>2, <2>4
<1>11. e.dropped = r.dropped /\ e.failed = r.failed
  BY <1>4 DEF Entered
<1> QED
  BY <1>6, <1>8, <1>9, <1>10, <1>11 DEF RFits

LEMMA CopyIndexFits ==
  ASSUME NEW log, LogFits(log), NEW i \in DOMAIN log, NEW r, RFits(r, log, i - 1), ~ r.failed,
         log[i].kind = "indexes", NEW q, q = CopyIndex(r, i)
  PROVE  RFits(q, log, i)
<1>1. r.old = log
  BY ShapedIs DEF RFits, RCore
<1>2. PICK t, r1 : /\ t = log[i].tbl
                   /\ r1 = IF t \in DOMAIN r.dropped
                           THEN Revived(r, t) ELSE r
  OBVIOUS
<1>3. q \in {Copied(r, i), CopiedLive(r1, i), r1}
  BY <1>1, <1>2 DEF CopyIndex, Revived
<1>4. RFits(r1, log, i - 1) /\ r1.failed = r.failed
  <2>1. CASE t \in DOMAIN r.dropped
    <3>1. r1 = Revived(r, t)
      BY <1>2, <2>1
    <3>2. PICK k : k = i - 1
      OBVIOUS
    <3>3. RFits(r, log, k)
      BY <3>2
    <3>4. RFits(r1, log, k) /\ r1.failed = r.failed
      BY <2>1, <3>1, <3>3, ReviveFits
    <3> QED
      BY <3>2, <3>4
  <2>2. CASE t \notin DOMAIN r.dropped
    BY <1>2, <2>2
  <2> QED
    BY <2>1, <2>2
<1>5. log[i].kind # "commit" /\ log[i].kind \in SchemaKinds
  BY DEF SchemaKinds
<1> QED
  BY <1>3, <1>4, <1>5, CopiedFits, CopiedLiveFits, IdleFits

ImageOf(tr, offs) == {tr[o] : o \in offs}
Target(r, o) == TablesNamed(r.new, r.name[r.old[o].tbl])
Into(r, creates, u) == {o \in Wanted(r, creates) : u \in Target(r, o)}
Entries(r, creates) ==
  UNION {{u} \X ImageOf(r.tr, Into(r, creates, u)) :
           u \in {t \in Tables(r.new) : LiveOf(r.new, "indexes", t) # {}}}

\* q is r after it has copied the commit record i of log, and entered what that created.
CommitCopied(r, log, i, q) ==
  /\ q.new.live = r.new.live /\ q.new.drops = r.new.drops
  /\ q.new.rows = r.new.rows \cup Entries(r, log[i].creates)
  /\ Grown(r.new.log, q.new.log) /\ Len(q.new.log) = Len(r.new.log) + 1
  /\ q.new.log[Len(r.new.log) + 1] =
       CommitRec(ImageOf(r.tr, log[i].creates), ImageOf(r.tr, log[i].deletes))
  /\ CountedBy(r.new, [u \in Tables(r.new) |-> Cardinality(Into(r, log[i].creates, u))], q.new.log)
  /\ q.tr = Put(r.tr, i, Len(r.new.log) + 1) /\ q.name = r.name /\ q.failed = r.failed
  /\ q.dropped = r.dropped /\ q.renamed = r.renamed /\ q.top = r.top
  /\ q.alerts = (r.alerts \/ \E o \in Wanted(r, log[i].creates) : Target(r, o) = {})

\* q is r with the new database d, in which the tables' counts have grown by n.
CommitDone(r, log, i, d, n, q) ==
  /\ Shaped(q, log) /\ q.new = Counted(d, n) /\ q.tr = Put(r.tr, i, NewOff(r.new))
  /\ q.failed = r.failed /\ q.name = r.name /\ q.dropped = r.dropped /\ q.renamed = r.renamed
  /\ q.top = r.top
  /\ q.alerts = (r.alerts \/ \E o \in Wanted(r, log[i].creates) : Target(r, o) = {})

LEMMA CopyCommitDoes ==
  ASSUME NEW log, NEW i, NEW r, Shaped(r, log), NEW q, q = CopyCommit(r, i),
         log[i].creates \cup log[i].deletes \subseteq DOMAIN r.tr,
         NEW e, e = Output(r.new, CommitRec(ImageOf(r.tr, log[i].creates), ImageOf(r.tr, log[i].deletes))),
         NEW d, d = [e EXCEPT !.rows = e.rows \cup Entries(r, log[i].creates)],
         NEW n, n = [u \in Tables(e) |-> Cardinality(Into(r, log[i].creates, u))]
  PROVE  CommitDone(r, log, i, d, n, q)
<1>1. PICK new, tr, name, dropped, renamed, top, failed, alerts :
        r = State(log, new, tr, name, dropped, renamed, top, failed, alerts)
  BY DEF Shaped
<1>2. r.old = log
  BY <1>1 DEF State
<1>3. PICK al : al = (r.alerts \/ \E o \in Wanted(r, log[i].creates) : Target(r, o) = {})
  OBVIOUS
<1>4. q = [r EXCEPT !.new = Counted(d, n), !.tr = Put(r.tr, i, NewOff(r.new)), !.alerts = al]
  BY <1>2, <1>3 DEF CopyCommit, ImageOf, Target, Into, Entries
<1>5. q = State(log, Counted(d, n), Put(tr, i, NewOff(new)), name, dropped, renamed, top, failed, al)
  <2>1. PICK x, y : x = Counted(d, n) /\ y = Put(tr, i, NewOff(new))
    OBVIOUS
  <2>2. r.tr = tr /\ r.new = new
    BY <1>1 DEF State
  <2>3. q = [r EXCEPT !.new = x, !.tr = y, !.alerts = al]
    BY <1>4, <2>1, <2>2
  <2>4. q = State(log, x, y, name, dropped, renamed, top, failed, al)
    BY <1>1, <2>3 DEF State
  <2> QED
    BY <2>1, <2>4
<1>6. Shaped(q, log)
  BY <1>5 DEF Shaped
<1> QED
  BY <1>1, <1>3, <1>5, <1>6 DEF State, CommitDone

\* A commit record has been added, and entries of tables there are.
LEMMA CommitDbFits ==
  ASSUME NEW d, DbFits(d), NEW X, X \subseteq OfKind(d.log, "data"), NEW Y, Y \subseteq DOMAIN d.log,
         NEW e \in Dbs, Longer(d.log, CommitRec(X, Y), e.log), e.live = d.live, e.drops = d.drops,
         \A r \in e.rows : r \in d.rows \/ (r[1] \in Tables(d) /\ r[2] \in OfKind(d.log, "data"))
  PROVE  /\ DbFits(e) /\ Grown(d.log, e.log) /\ Tables(e) = Tables(d)
         /\ Live(e, "tables") = Live(d, "tables")
<1>1. /\ d.log \in Logs /\ LogFits(d.log) /\ DOMAIN d.log = 1 .. Len(d.log) /\ Len(d.log) \in Nat
  BY DbIs DEF DbFits
<1>2. CommitRec(X, Y) \in Block
  <2>1. X \subseteq Nat /\ Y \subseteq Nat
    BY <1>1 DEF OfKind
  <2> QED
    BY <2>1 DEF CommitRec, CommitBlock, Block
<1>3. Grown(d.log, e.log)
  BY <1>1, <1>2, LongerIsGrown
<1>4. LogFits(e.log)
  BY <1>1, CommitFits
<1>5. /\ DOMAIN d.log \subseteq DOMAIN e.log
      /\ \A o \in DOMAIN d.log : e.log[o].kind = d.log[o].kind
      /\ \A o \in DOMAIN d.log : d.log[o].kind \in SchemaKinds \cup {"data"} => e.log[o].tbl = d.log[o].tbl
  BY <1>1, <1>3, GrownKinds
<1>6. Live(e, "tables") = Live(d, "tables")
  BY <1>5 DEF Live, DbFits
<1>7. Tables(e) = Tables(d)
  <2>1. \A o \in Live(d, "tables") : e.log[o].tbl = d.log[o].tbl
    BY <1>5 DEF Live, DbFits, SchemaKinds
  <2> QED
    BY <2>1, <1>6 DEF Tables
<1>8. \A r \in e.rows : r[1] \in Tables(e) /\ r[2] \in OfKind(e.log, "data")
  BY <1>5, <1>7 DEF DbFits, OfKind
<1>9. \A o \in e.live : o \in DOMAIN e.log /\ e.log[o].kind \in SchemaKinds
  BY <1>5 DEF DbFits
<1>10. e.drops \subseteq DOMAIN e.log \ e.live
  BY <1>5 DEF DbFits
<1> QED
  BY <1>3, <1>4, <1>6, <1>7, <1>8, <1>9, <1>10 DEF DbFits

LEMMA CopyCommitFits ==
  ASSUME NEW log, LogFits(log), NEW i \in DOMAIN log, NEW r, RFits(r, log, i - 1), ~ r.failed,
         log[i].kind = "commit", NEW q, q = CopyCommit(r, i),
         log[i].creates \cup log[i].deletes \subseteq DOMAIN r.tr
  PROVE  RFits(q, log, i) /\ CommitCopied(r, log, i, q)
<1>1. PICK d0, X, Y, rec, e : /\ d0 = r.new
                              /\ X = ImageOf(r.tr, log[i].creates) /\ Y = ImageOf(r.tr, log[i].deletes)
                              /\ rec = CommitRec(X, Y) /\ e = Output(d0, rec)
  OBVIOUS
<1>2. PICK d, n : /\ d = [e EXCEPT !.rows = e.rows \cup Entries(r, log[i].creates)]
                  /\ n = [u \in Tables(e) |-> Cardinality(Into(r, log[i].creates, u))]
  OBVIOUS
<1>3. /\ i \in Nat \ {0} /\ i - 1 \in Nat /\ i - 1 <= i /\ Commits(log) \subseteq Nat
      /\ log \in Logs /\ DOMAIN log = 1 .. Len(log)
  BY BlocksOf
<1>4. /\ Shaped(r, log) /\ DbFits(d0) /\ d0 \in Dbs /\ d0.log \in Logs /\ Len(d0.log) \in Nat
      /\ DOMAIN d0.log = 1 .. Len(d0.log) /\ NewOff(d0) = Len(d0.log) + 1 /\ Len(d0.log) <= i - 1
      /\ TrFits(log, d0, r.tr, i - 1) /\ r.old = log /\ r.deletes = Deleted(log)
  BY <1>1, DbIs, ShapedIs DEF RFits, RCore, DbFits
<1>5. /\ log[i].creates \subseteq OfKind(log, "data") /\ log[i].creates \subseteq 1 .. i - 1
      /\ log[i].deletes \subseteq 1 .. i - 1
  BY DEF LogFits, Commits
<1>6. \A o \in DOMAIN r.tr : r.tr[o] \in DOMAIN d0.log /\ d0.log[r.tr[o]].kind = log[o].kind
  BY <1>4 DEF TrFits
<1>7. X \subseteq OfKind(d0.log, "data") /\ Y \subseteq DOMAIN d0.log
  BY <1>1, <1>5, <1>6 DEF ImageOf, OfKind
<1>8. rec \in Block /\ rec.kind = "commit"
  <2>1. X \subseteq Nat /\ Y \subseteq Nat
    BY <1>4, <1>7 DEF OfKind
  <2> QED
    BY <1>1, <2>1 DEF CommitRec, CommitBlock, Block
<1>9. /\ e \in Dbs /\ Longer(d0.log, rec, e.log) /\ e.live = d0.live /\ e.rows = d0.rows
      /\ e.drops = d0.drops
  BY <1>1, <1>4, <1>8, OutputIs
<1>10. /\ Entries(r, log[i].creates) \subseteq Nat \X Nat
       /\ \A p \in Entries(r, log[i].creates) : p[1] \in Tables(d0) /\ p[2] \in OfKind(d0.log, "data")
  <2>1. ASSUME NEW p \in Entries(r, log[i].creates)
        PROVE  /\ p \in Nat \X Nat /\ p[1] \in Tables(d0) /\ p[2] \in OfKind(d0.log, "data")
    <3>1. PICK u \in Tables(d0) : p \in {u} \X ImageOf(r.tr, Into(r, log[i].creates, u))
      BY <1>1, <2>1 DEF Entries
    <3>2. Into(r, log[i].creates, u) \subseteq log[i].creates
      BY DEF Into, Wanted
    <3>3. p[1] = u /\ p[2] \in X /\ p = <<p[1], p[2]>>
      BY <1>1, <3>1, <3>2 DEF ImageOf
    <3>4. u \in Numbers
      <4>1. PICK o : o = TableOf(d0, u)
        OBVIOUS
      <4> QED
        BY <1>4, <3>1, <4>1, TableOfIs
    <3> QED
      BY <1>4, <1>7, <3>1, <3>3, <3>4 DEF Numbers, OfKind, TN_VIEWS
  <2> QED
    BY <2>1
<1>11. /\ d \in Dbs /\ d.log = e.log /\ d.live = d0.live /\ d.drops = d0.drops
       /\ d.rows = d0.rows \cup Entries(r, log[i].creates)
  BY <1>2, <1>9, <1>10 DEF Dbs
<1>12. /\ DbFits(d) /\ Grown(d0.log, d.log) /\ Tables(d) = Tables(d0)
  BY <1>1, <1>4, <1>7, <1>9, <1>10, <1>11, CommitDbFits
<1>13. Tables(e) = Tables(d)
  BY <1>9, <1>11 DEF Tables, Live
<1>14. \A u \in Tables(d) : n[u] \in Int
  <2> SUFFICES ASSUME NEW u \in Tables(d) PROVE Cardinality(Into(r, log[i].creates, u)) \in Int
    BY <1>2, <1>13
  <2>1. Into(r, log[i].creates, u) \subseteq 1 .. i - 1
    BY <1>5 DEF Into, Wanted
  <2>2. IsFiniteSet(1 .. i - 1)
    BY <1>3, FS_Interval
  <2>3. IsFiniteSet(Into(r, log[i].creates, u))
    BY <2>1, <2>2, FS_Subset
  <2> QED
    BY <2>3, FS_CardinalityType
<1>15. /\ Shaped(q, log) /\ q.new = Counted(d, n) /\ q.tr = Put(r.tr, i, NewOff(r.new))
       /\ q.failed = r.failed /\ q.name = r.name /\ q.dropped = r.dropped /\ q.renamed = r.renamed
       /\ q.top = r.top
       /\ q.alerts = (r.alerts \/ \E o \in Wanted(r, log[i].creates) : Target(r, o) = {})
  <2>1. e = Output(r.new, CommitRec(ImageOf(r.tr, log[i].creates), ImageOf(r.tr, log[i].deletes)))
    BY <1>1
  <2>2. CommitDone(r, log, i, d, n, q)
    BY <1>2, <1>4, <2>1, CopyCommitDoes
  <2> QED
    BY <2>2 DEF CommitDone
<1>16. PICK f : f = q.new
  OBVIOUS
<1>17. /\ DbFits(f) /\ Recounted(d.log, f.log) /\ CountedBy(d, n, f.log)
       /\ f.live = d.live /\ f.rows = d.rows /\ f.drops = d.drops
       /\ Grown(d.log, f.log) /\ Len(f.log) = Len(d.log)
  BY <1>12, <1>14, <1>15, <1>16, CountedFits
<1>18. /\ d.log \in Logs /\ Len(d.log) = Len(d0.log) + 1 /\ d.log[Len(d0.log) + 1] = rec
       /\ \A o \in 1 .. Len(d0.log) : d.log[o] = d0.log[o]
  BY <1>9, <1>11 DEF Longer
<1>19. Grown(d0.log, f.log)
  BY <1>4, <1>12, <1>17, GrownTransitive
<1>20. f.log[Len(d0.log) + 1] = rec
  <2>1. PICK m : m = Len(d0.log) + 1
    OBVIOUS
  <2>2. m \in 1 .. Len(d.log) /\ d.log[m] = rec /\ rec.kind # "tables"
    BY <1>4, <1>8, <1>18, <2>1
  <2> QED
    BY <1>17, <2>1, <2>2 DEF Recounted
<1>21. CountedBy(d0, [u \in Tables(d0) |-> Cardinality(Into(r, log[i].creates, u))], f.log)
  <2>1. n = [u \in Tables(d0) |-> Cardinality(Into(r, log[i].creates, u))]
    BY <1>2, <1>12, <1>13
  <2>2. \A o \in DOMAIN d0.log : o \in DOMAIN d.log /\ d.log[o] = d0.log[o]
    BY <1>4, <1>12, <1>18, GrownKinds
  <2> QED
    BY <2>1, <2>2, <1>11, <1>17 DEF CountedBy
<1>22. CommitCopied(r, log, i, q)
  BY <1>1, <1>4, <1>11, <1>15, <1>16, <1>17, <1>18, <1>19, <1>20, <1>21 DEF CommitCopied
<1>23. TrFits(log, f, q.tr, i)
  <2>1. Len(d0.log) + 1 \in DOMAIN f.log
    BY <1>4, <1>17, <1>18, LogIs DEF Recounted
  <2> QED
    BY <1>1, <1>3, <1>4, <1>8, <1>15, <1>19, <1>20, <2>1, TrPut
<1>24. DroppedFits(f, q.dropped)
  <2>1. DroppedFits(d0, r.dropped)
    BY <1>1 DEF RFits
  <2> QED
    BY <1>4, <1>11, <1>15, <1>17, <1>19, <2>1, DroppedGrows
<1>25. \A c \in Commits(log) : c <= i => c \in DOMAIN q.tr
  <2>1. \A c \in Commits(log) : c <= i - 1 => c \in DOMAIN r.tr
    BY DEF RFits, RCore
  <2> QED
    BY <1>3, <1>15, <2>1, CommitsPut
<1>26. q.top \in 0 .. TN_VIEWS + MaxTables /\ q.failed \in BOOLEAN /\ Len(f.log) <= i
  BY <1>3, <1>4, <1>15, <1>17, <1>18 DEF RFits, RCore
<1> QED
  BY <1>15, <1>16, <1>17, <1>22, <1>23, <1>24, <1>25, <1>26 DEF RFits, RCore

LEMMA CopyBlockFits ==
  ASSUME NEW log, LogFits(log), NEW i \in DOMAIN log, NEW r, RFits(r, log, i - 1),
         NEW q, q = CopyBlock(r, i)
  PROVE  RFits(q, log, i)
<1>1. r.old = log /\ log[i] \in Block
  BY ShapedIs, BlocksOf DEF RFits, RCore
<1>2. CASE r.failed \/ Hidden(log[i])
  <2>1. q = r
    <3>1. CASE r.failed
      BY <1>1, <3>1 DEF CopyBlock
    <3>2. CASE ~ r.failed
      <4>1. log[i].kind = "tables" /\ log[i].hidden /\ Hidden(log[i])
        BY <1>2, <3>2 DEF Hidden
      <4> QED
        BY <1>1, <3>2, <4>1 DEF CopyBlock
    <3> QED
      BY <3>1, <3>2
  <2>2. r.failed \/ log[i].kind # "commit"
    BY <1>2 DEF Hidden
  <2> QED
    BY <2>1, <2>2, IdleFits
<1>3. ASSUME ~ r.failed, ~ Hidden(log[i])
      PROVE  RFits(q, log, i)
  <2>1. CASE log[i].kind = "data"
    <3>1. q = Copied(r, i) /\ log[i].kind # "commit"
      BY <1>1, <1>3, <2>1 DEF CopyBlock
    <3> QED
      BY <1>3, <3>1, CopiedFits
  <2>2. CASE log[i].kind = "tables"
    <3>1. q = CopyTable(r, i)
      BY <1>1, <1>3, <2>2 DEF CopyBlock, Hidden
    <3> QED
      BY <1>3, <2>2, <3>1, CopyTableFits
  <2>3. CASE log[i].kind = "columns"
    <3>1. q = CopyColumn(r, i)
      BY <1>1, <1>3, <2>3 DEF CopyBlock
    <3> QED
      BY <1>3, <2>3, <3>1, CopyColumnFits
  <2>4. CASE log[i].kind = "indexes"
    <3>1. q = CopyIndex(r, i)
      BY <1>1, <1>3, <2>4 DEF CopyBlock
    <3> QED
      BY <1>3, <2>4, <3>1, CopyIndexFits
  <2>5. CASE log[i].kind = "commit"
    <3>1. q = CopyCommit(r, i)
      BY <1>1, <1>3, <2>5 DEF CopyBlock
    <3>2. CASE log[i].creates \cup log[i].deletes \subseteq DOMAIN r.tr
      BY <1>3, <2>5, <3>1, <3>2, CopyCommitFits
    <3>3. CASE ~ (log[i].creates \cup log[i].deletes \subseteq DOMAIN r.tr)
      <4>1. q = Failed(r)
        BY <1>1, <3>1, <3>3 DEF CopyCommit
      <4> QED
        BY <4>1, FailedFits
    <3> QED
      BY <3>2, <3>3
  <2> QED
    BY <1>1, <2>1, <2>2, <2>3, <2>4, <2>5, BlockIs
<1> QED
  BY <1>2, <1>3

LEMMA NothingCopiedIs ==
  ASSUME NEW log, NEW r, r = NothingCopied(log)
  PROVE  /\ Shaped(r, log) /\ r.new = EmptyDb /\ DOMAIN r.tr = {} /\ DOMAIN r.name = {}
         /\ DOMAIN r.dropped = {} /\ DOMAIN r.renamed = {} /\ r.top = 0
         /\ r.failed = FALSE /\ r.alerts = FALSE
<1>1. r = State(log, EmptyDb, EmptyMap, EmptyMap, EmptyMap, EmptyMap, 0, FALSE, FALSE)
  BY DEF NothingCopied, State
<1>2. Shaped(r, log)
  BY <1>1 DEF Shaped
<1>3. DOMAIN EmptyMap = {}
  BY DEF EmptyMap
<1> QED
  BY <1>1, <1>2, <1>3 DEF State

LEMMA NothingCopiedFits ==
  ASSUME NEW log, LogFits(log), NEW r, r = NothingCopied(log)
  PROVE  RFits(r, log, 0)
<1>1. /\ Shaped(r, log) /\ r.new = EmptyDb /\ DOMAIN r.tr = {} /\ DOMAIN r.name = {}
      /\ DOMAIN r.dropped = {} /\ DOMAIN r.renamed = {} /\ r.top = 0
      /\ r.failed = FALSE /\ r.alerts = FALSE
  BY NothingCopiedIs
<1>2. DbFits(EmptyDb) /\ Len(EmptyDb.log) = 0
  BY EmptyDbFits DEF EmptyDb
<1>3. \A c \in Commits(log) : ~ c <= 0
  BY LogIs DEF Commits, LogFits
<1>4. 0 \in 0 .. TN_VIEWS + MaxTables
  BY RebuildBounds DEF TN_VIEWS
<1>5. TrFits(log, r.new, r.tr, 0) /\ DroppedFits(r.new, r.dropped)
  BY <1>1 DEF TrFits, DroppedFits
<1>6. ~ r.failed => \A c \in Commits(log) : c <= 0 => c \in DOMAIN r.tr
  BY <1>3
<1>7. DbFits(r.new) /\ Len(r.new.log) <= 0 /\ r.top \in 0 .. TN_VIEWS + MaxTables
  BY <1>1, <1>2, <1>4
<1>8. r.failed \in BOOLEAN
  BY <1>1
<1> QED
  BY <1>1, <1>5, <1>6, <1>7, <1>8 DEF RFits, RCore

LEMMA ReplayFits ==
  ASSUME NEW log, LogFits(log), NEW r, Replaying(log, Len(log), r)
  PROVE  \A i \in 0 .. Len(log) : RFits(r[i], log, i)
<1> DEFINE T == {i \in Nat : i <= Len(log) /\ ~ RFits(r[i], log, i)}
<1>1. Len(log) \in Nat /\ DOMAIN log = 1 .. Len(log)
  BY LogIs DEF LogFits
<1> SUFFICES ASSUME T # {} PROVE FALSE
  BY <1>1
<1>2. PICK i \in T : \A j \in T : i <= j
  <2>1. T \subseteq Nat
    OBVIOUS
  <2> HIDE DEF T
  <2> QED
    BY <2>1, LeastOfNaturals
<1>3. i \in Nat /\ i <= Len(log) /\ ~ RFits(r[i], log, i)
  OBVIOUS
<1>4. i # 0
  <2>1. r[0] = NothingCopied(log)
    BY DEF Replaying
  <2> QED
    BY <1>3, <2>1, NothingCopiedFits
<1>5. i - 1 \in Nat /\ i - 1 < i /\ i - 1 <= Len(log) /\ i \in 1 .. Len(log)
  BY <1>1, <1>3, <1>4
<1>6. i - 1 \notin T
  BY <1>2, <1>5
<1>7. PICK p, q : p = r[i - 1] /\ q = r[i]
  OBVIOUS
<1>8. RFits(p, log, i - 1)
  BY <1>5, <1>6, <1>7
<1>9. q = CopyBlock(p, i)
  BY <1>5, <1>7 DEF Replaying
<1>10. RFits(q, log, i)
  BY <1>1, <1>5, <1>8, <1>9, CopyBlockFits
<1> QED
  BY <1>3, <1>7, <1>10

LEMMA ReplayedFits ==
  ASSUME NEW log, LogFits(log), NEW q, q = Replayed(log)
  PROVE  RFits(q, log, Len(log))
<1>1. Len(log) \in Nat
  BY LogIs DEF LogFits
<1>2. PICK r : Replaying(log, Len(log), r) /\ q = r[Len(log)]
  BY <1>1, ReplayedIs
<1>3. \A i \in 0 .. Len(log) : RFits(r[i], log, i)
  BY <1>2, ReplayFits
<1>4. Len(log) \in 0 .. Len(log)
  BY <1>1
<1>5. RFits(r[Len(log)], log, Len(log))
  BY <1>3, <1>4
<1> QED
  BY <1>2, <1>5

LEMMA RebuildIs ==
  ASSUME TInv, Rebuild, NEW r, r = Replayed(db.log)
  PROVE  /\ RFits(r, db.log, Len(db.log)) /\ ~ r.failed /\ DbFits(db') /\ Commits(db'.log) # {}
         /\ Len(db'.log) <= Len(db.log) + 1 /\ nexttable' = r.top + 1
         /\ r.new.drops = {} => db' = r.new
<1>1. DbFits(db) /\ LogFits(db.log) /\ Commits(db.log) # {}
  BY DEF TInv, DbFits
<1>2. RFits(r, db.log, Len(db.log))
  BY <1>1, ReplayedFits
<1>3. ~ r.failed /\ nexttable' = r.top + 1
      /\ db' = IF r.new.drops = {} THEN r.new ELSE Committed(r.new, {}, {})
  BY DEF Rebuild
<1>4. PICK n : n = Len(db.log)
  OBVIOUS
<1>5. n \in Nat /\ DOMAIN db.log = 1 .. n
  BY <1>1, <1>4, LogIs DEF LogFits
<1>6. /\ DbFits(r.new) /\ Len(r.new.log) <= n /\ r.new.log \in Logs /\ Len(r.new.log) \in Nat
      /\ DOMAIN r.new.log = 1 .. Len(r.new.log)
  BY <1>2, <1>4, DbIs DEF RFits, RCore, DbFits
<1>7. Commits(r.new.log) # {}
  <2>1. PICK c \in Commits(db.log) : TRUE
    BY <1>1
  <2>2. c \in 1 .. n /\ db.log[c].kind = "commit"
    BY <1>5 DEF Commits
  <2>3. c \in DOMAIN r.tr
    BY <1>2, <1>3, <1>4, <1>5, <2>2 DEF RFits, RCore
  <2>4. r.tr[c] \in DOMAIN r.new.log /\ r.new.log[r.tr[c]].kind = "commit"
    BY <1>2, <2>2, <2>3 DEF RFits, RCore, TrFits
  <2> QED
    BY <2>4 DEF Commits
<1>8. CASE r.new.drops = {}
  BY <1>2, <1>3, <1>4, <1>5, <1>6, <1>7, <1>8
<1>9. CASE r.new.drops # {}
  <2>1. db' = Committed(r.new, {}, {})
    BY <1>3, <1>9
  <2>2. /\ DbFits(db') /\ Longer(r.new.log, CommitRec({}, {} \cup r.new.drops), db'.log)
    BY <1>6, <2>1, CommittedIs
  <2>3. Len(db'.log) = Len(r.new.log) + 1 /\ db'.log[Len(r.new.log) + 1].kind = "commit"
        /\ Len(r.new.log) + 1 \in DOMAIN db'.log
    BY <1>6, <2>2, LongerDomain DEF Longer, CommitRec
  <2> QED
    BY <1>2, <1>3, <1>4, <1>5, <1>6, <1>9, <2>2, <2>3 DEF Commits
<1> QED
  BY <1>8, <1>9

-----------------------------------------------------------------------------
(* The types are an invariant *)

LEMMA InitTyped == Init => TInv
<1> SUFFICES ASSUME Init PROVE TInv
  OBVIOUS
<1>1. PICK name \in Names, col \in Columns : db = FirstDb(name, col)
  BY DEF Init
<1>2. /\ DbFits(db) /\ FirstBlocks(db.log, name, col) /\ db.live = {1, 2, 3} /\ db.rows = {}
      /\ db.drops = {}
  BY <1>1, FirstDbIs
<1>3. 4 \in Commits(db.log) /\ Len(db.log) = 4
  BY <1>2 DEF FirstBlocks, Commits, CommitRec
<1>4. /\ nexttable = 6 /\ rebuilds = 0 /\ sum = FALSE /\ up = TRUE /\ plain = TRUE
      /\ fresh = {} /\ going = {}
  BY DEF Init, TN_VIEWS
<1>5. 6 \in 1 .. TN_VIEWS + MaxTables + 1 /\ 4 <= MaxLog + 0 /\ 0 \in 0 .. MaxRebuilds
  BY RebuildBounds DEF TN_VIEWS
<1> QED
  BY <1>2, <1>3, <1>4, <1>5 DEF TInv

LEMMA DataStays ==
  ASSUME TInv, Grown(db.log, db'.log)
  PROVE  OfKind(db.log, "data") \subseteq OfKind(db'.log, "data")
<1>1. db.log \in Logs
  BY DEF TInv, DbFits, Dbs
<1> QED
  BY <1>1, GrownKinds

\* A request that adds to the file no more than it asked to have room for.
LEMMA GrownTyped ==
  ASSUME TInv, Grown(db.log, db'.log), DbFits(db'), Len(db'.log) <= MaxLog + rebuilds,
         fresh' \subseteq fresh \cup OfKind(db'.log, "data"), going' \subseteq going \cup OfKind(db'.log, "data"),
         nexttable' \in 1 .. TN_VIEWS + MaxTables + 1, rebuilds' = rebuilds,
         sum' \in BOOLEAN, up, up' = up, plain' = plain
  PROVE  TInv'
<1>1. db.log \in Logs
  BY DEF TInv, DbFits, Dbs
<1>2. OfKind(db.log, "data") \subseteq OfKind(db'.log, "data")
  BY DataStays
<1>3. Commits(db'.log) # {}
  BY <1>1, GrownKinds DEF Commits, TInv
<1> QED
  BY <1>2, <1>3 DEF TInv

LEMMA RequestTyped ==
  ASSUME TInv, NEW gone, Edited(db, gone, db'), DbFits(db'), Len(db'.log) <= MaxLog + rebuilds,
         fresh' = fresh, going' = going,
         nexttable' \in 1 .. TN_VIEWS + MaxTables + 1, rebuilds' = rebuilds,
         sum' \in BOOLEAN, up, up' = up, plain' = plain
  PROVE  TInv'
BY GrownTyped DEF Edited

LEMMA Room ==
  ASSUME TInv, NEW n \in Nat, Fits(n), Len(db'.log) = Len(db.log) + n
  PROVE  Len(db'.log) <= MaxLog /\ Len(db'.log) <= MaxLog + rebuilds
<1>1. Len(db.log) \in Nat /\ rebuilds \in Nat
  BY DbIs DEF TInv, DbFits
<1> QED
  BY <1>1, RebuildBounds DEF Fits

LEMMA SchemaRequestTyped ==
  ASSUME TInv, SchemaRequest
  PROVE  TInv'
<1>1. /\ nexttable \in 1 .. TN_VIEWS + MaxTables + 1 /\ sum \in BOOLEAN /\ up \in BOOLEAN
      /\ Len(db.log) <= MaxLog + rebuilds /\ Len(db.log) \in Nat /\ up
  <2>1. /\ \A name \in Names, col \in Columns : CreateTable(name, col) => up
        /\ \A name \in Names : CreateTableFails(name) => up
    BY DEF CreateTable, CreateTableFails, Asks
  <2>2. /\ \A t \in Tables(db) : DropTable(t) => up
        /\ \A t \in Tables(db), name \in Names : RenameTable(t, name) => up
    BY DEF DropTable, RenameTable, Asks
  <2>3. \A t \in Tables(db), col \in Columns :
          /\ AddColumn(t, col) => up
          /\ RemoveColumn(t, col) => up
          /\ AddIndex(t, col) => up
          /\ RemoveIndex(t, col) => up
    BY DEF AddColumn, RemoveColumn, AddIndex, RemoveIndex, Asks
  <2>4. \A t \in Tables(db), col \in Columns, new \in Columns :
          RenameColumn(t, col, new) => up
    BY DEF RenameColumn, Asks
  <2>5. up
    BY <2>1, <2>2, <2>3, <2>4 DEF SchemaRequest
  <2> QED
    BY <2>5, DbIs DEF TInv, DbFits
<1>2. ASSUME NEW name \in Names, NEW col \in Columns, CreateTable(name, col)
      PROVE  TInv'
  <2>1. /\ Edited(db, {}, db') /\ DbFits(db')
        /\ Longer3(db.log, [TablesRec(nexttable, name) EXCEPT !.nextfield = 1],
                   ColumnsRec(nexttable, col, 0), IndexesRec(nexttable, col), db'.log)
    BY <1>2, CreateTableIs
  <2>2. Len(db'.log) = Len(db.log) + 3 /\ Fits(3)
    BY <1>2, <2>1 DEF Longer3, CreateTable
  <2>3. Len(db'.log) <= MaxLog + rebuilds
    BY <2>2, Room
  <2>4. /\ nexttable' = nexttable + 1 /\ nexttable <= TN_VIEWS + MaxTables
        /\ fresh' = fresh /\ going' = going /\ sum' \in BOOLEAN /\ up' = up
        /\ rebuilds' = rebuilds /\ plain' = plain
    BY <1>2 DEF CreateTable
  <2>5. nexttable' \in 1 .. TN_VIEWS + MaxTables + 1
    BY <1>1, <2>4, RebuildBounds DEF TN_VIEWS
  <2> QED
    BY <1>1, <2>1, <2>3, <2>4, <2>5, RequestTyped
<1>3. ASSUME NEW name \in Names, CreateTableFails(name)
      PROVE  TInv'
  <2>1. /\ Edited(db, {Len(db.log) + 1}, db') /\ DbFits(db')
        /\ Longer(db.log, TablesRec(nexttable, name), db'.log)
    BY <1>3, CreateTableFailsIs
  <2>2. Len(db'.log) = Len(db.log) + 1 /\ Fits(1)
    BY <1>3, <2>1 DEF Longer, CreateTableFails
  <2>3. Len(db'.log) <= MaxLog + rebuilds
    BY <2>2, Room
  <2>4. /\ nexttable' = nexttable + 1 /\ nexttable <= TN_VIEWS
        /\ fresh' = fresh /\ going' = going /\ sum' \in BOOLEAN /\ up' = up
        /\ rebuilds' = rebuilds /\ plain' = plain
    BY <1>1, <1>3 DEF CreateTableFails
  <2>5. nexttable' \in 1 .. TN_VIEWS + MaxTables + 1
    BY <1>1, <2>4, RebuildBounds DEF TN_VIEWS
  <2> QED
    BY <1>1, <2>1, <2>3, <2>4, <2>5, RequestTyped
<1>4. ASSUME NEW t \in Tables(db), DropTable(t)
      PROVE  TInv'
  <2>1. Edited(db, PartsOf(db, t), db') /\ DbFits(db') /\ db'.log = db.log
    BY <1>4, DropTableIs
  <2>2. /\ nexttable' = nexttable /\ fresh' = fresh /\ going' = going /\ sum' = sum /\ up' = up
        /\ rebuilds' = rebuilds /\ plain' = plain
    BY <1>4 DEF DropTable
  <2> QED
    BY <1>1, <2>1, <2>2, RequestTyped
<1>5. ASSUME NEW t \in Tables(db), NEW name \in Names, RenameTable(t, name)
      PROVE  TInv'
  <2>1. PICK o : o = TableOf(db, t)
    OBVIOUS
  <2>2. /\ Edited(db, {o}, db') /\ DbFits(db')
        /\ Longer(db.log, [db.log[o] EXCEPT !.name = name, !.hidden = FALSE], db'.log)
    BY <1>5, <2>1, RenameTableIs
  <2>3. Len(db'.log) = Len(db.log) + 1 /\ Fits(1)
    BY <1>5, <2>2 DEF Longer, RenameTable
  <2>4. Len(db'.log) <= MaxLog + rebuilds
    BY <2>3, Room
  <2>5. /\ nexttable' = nexttable /\ fresh' = fresh /\ going' = going /\ sum' = sum /\ up' = up
        /\ rebuilds' = rebuilds /\ plain' = plain
    BY <1>5 DEF RenameTable
  <2> QED
    BY <1>1, <2>2, <2>4, <2>5, RequestTyped
<1>6. ASSUME NEW t \in Tables(db), NEW col \in Columns, AddColumn(t, col)
      PROVE  TInv'
  <2>1. PICK o : o = TableOf(db, t)
    OBVIOUS
  <2>2. /\ Edited(db, {}, db') /\ DbFits(db')
        /\ Fielded(db.log, o, db.log[o].nextfield, ColumnsRec(t, col, db.log[o].nextfield), db'.log)
    BY <1>6, <2>1, AddColumnIs
  <2>3. Len(db'.log) = Len(db.log) + 1 /\ Fits(1)
    BY <1>6, <2>2 DEF Fielded, AddColumn
  <2>4. Len(db'.log) <= MaxLog + rebuilds
    BY <2>3, Room
  <2>5. /\ nexttable' = nexttable /\ fresh' = fresh /\ going' = going /\ sum' \in BOOLEAN /\ up' = up
        /\ rebuilds' = rebuilds /\ plain' = plain
    BY <1>6 DEF AddColumn
  <2> QED
    BY <1>1, <2>2, <2>4, <2>5, RequestTyped
<1>7. ASSUME NEW t \in Tables(db), NEW col \in Columns, RemoveColumn(t, col)
      PROVE  TInv'
  <2>1. PICK offs : offs = On(db, LiveOf(db, "columns", t), col)
    OBVIOUS
  <2>2. Edited(db, offs, db') /\ DbFits(db') /\ db'.log = db.log
    BY <1>7, <2>1, RemoveColumnIs
  <2>3. /\ nexttable' = nexttable /\ fresh' = fresh /\ going' = going /\ sum' = sum /\ up' = up
        /\ rebuilds' = rebuilds /\ plain' = plain
    BY <1>7 DEF RemoveColumn
  <2> QED
    BY <1>1, <2>2, <2>3, RequestTyped
<1>8. ASSUME NEW t \in Tables(db), NEW col \in Columns, AddIndex(t, col)
      PROVE  TInv'
  <2>1. Edited(db, {}, db') /\ DbFits(db') /\ Longer(db.log, IndexesRec(t, col), db'.log)
    BY <1>8, AddIndexIs
  <2>2. Len(db'.log) = Len(db.log) + 1 /\ Fits(1)
    BY <1>8, <2>1 DEF Longer, AddIndex
  <2>3. Len(db'.log) <= MaxLog + rebuilds
    BY <2>2, Room
  <2>4. /\ nexttable' = nexttable /\ fresh' = fresh /\ going' = going /\ sum' = sum /\ up' = up
        /\ rebuilds' = rebuilds /\ plain' = plain
    BY <1>8 DEF AddIndex
  <2> QED
    BY <1>1, <2>1, <2>3, <2>4, RequestTyped
<1>9. ASSUME NEW t \in Tables(db), NEW col \in Columns, RemoveIndex(t, col)
      PROVE  TInv'
  <2>1. PICK offs : offs = On(db, LiveOf(db, "indexes", t), col)
    OBVIOUS
  <2>2. Edited(db, offs, db') /\ DbFits(db') /\ db'.log = db.log
    BY <1>9, <2>1, RemoveIndexIs
  <2>3. /\ nexttable' = nexttable /\ fresh' = fresh /\ going' = going /\ sum' = sum /\ up' = up
        /\ rebuilds' = rebuilds /\ plain' = plain
    BY <1>9 DEF RemoveIndex
  <2> QED
    BY <1>1, <2>2, <2>3, RequestTyped
<1>10. ASSUME NEW t \in Tables(db), NEW old \in Columns, NEW new \in Columns, RenameColumn(t, old, new)
       PROVE  TInv'
  <2>1. PICK column, index : /\ column = On(db, LiveOf(db, "columns", t), old)
                             /\ index = On(db, LiveOf(db, "indexes", t), old)
    OBVIOUS
  <2>2. /\ Edited(db, column \cup index, db') /\ DbFits(db')
        /\ Recolumns(db.log, column, index, new, db'.log)
    BY <1>10, <2>1, RenameColumnIs
  <2>3. Len(db'.log) = Len(db.log) + 1 \/ Len(db'.log) = Len(db.log) + 2
    BY <1>1, <2>2 DEF Recolumns, Longer
  <2>4. Fits(2)
    BY <1>10 DEF RenameColumn
  <2>5. Len(db'.log) <= MaxLog + rebuilds
    <3>1. rebuilds \in Nat
      BY DEF TInv
    <3> QED
      BY <1>1, <2>3, <2>4, <3>1, RebuildBounds DEF Fits
  <2>6. /\ nexttable' = nexttable /\ fresh' = fresh /\ going' = going /\ sum' \in BOOLEAN /\ up' = up
        /\ rebuilds' = rebuilds /\ plain' = plain
    BY <1>10 DEF RenameColumn
  <2> QED
    BY <1>1, <2>2, <2>5, <2>6, RequestTyped
<1> QED
  BY <1>2, <1>3, <1>4, <1>5, <1>6, <1>7, <1>8, <1>9, <1>10 DEF SchemaRequest

LEMMA DataRequestTyped ==
  ASSUME TInv, DataRequest
  PROVE  TInv'
<1>1. /\ nexttable \in 1 .. TN_VIEWS + MaxTables + 1 /\ sum \in BOOLEAN /\ up \in BOOLEAN
      /\ Len(db.log) <= MaxLog + rebuilds /\ Len(db.log) \in Nat /\ DbFits(db)
      /\ db.log \in Logs /\ DOMAIN db.log = 1 .. Len(db.log)
      /\ fresh \subseteq OfKind(db.log, "data") /\ going \subseteq OfKind(db.log, "data") /\ up
  <2>1. up
    BY DEF DataRequest, AddRecord, RemoveRecord, Commit, Abort, Transaction
  <2> QED
    BY <2>1, DbIs DEF TInv, DbFits
<1>2. ASSUME NEW t \in Tables(db), AddRecord(t)
      PROVE  TInv'
  <2>1. /\ DbFits(db') /\ Grown(db.log, db'.log)
        /\ Len(db'.log) = Len(db.log) + 1 /\ db'.log[Len(db.log) + 1] = DataRec(t, NewId)
    BY <1>2, AddRecordIs
  <2>2. Len(db'.log) <= MaxLog + rebuilds
    BY <1>2, <2>1, Room DEF AddRecord
  <2>3. /\ fresh' = fresh \cup {Len(db.log) + 1} /\ going' = going /\ nexttable' = nexttable
        /\ sum' \in BOOLEAN /\ up' = up /\ rebuilds' = rebuilds /\ plain' = plain
    BY <1>2 DEF AddRecord, NewOff
  <2>4. Len(db.log) + 1 \in OfKind(db'.log, "data")
    <3>1. DOMAIN db'.log = 1 .. Len(db'.log)
      BY <2>1, LogIs DEF Grown
    <3> QED
      BY <1>1, <2>1, <3>1 DEF OfKind, DataRec
  <2> QED
    BY <1>1, <2>1, <2>2, <2>3, <2>4, GrownTyped
<1>3. ASSUME NEW r \in db.rows, RemoveRecord(r[1], r[2])
      PROVE  TInv'
  <2>1. PICK t, o : t = r[1] /\ o = r[2]
    OBVIOUS
  <2>2. t \in Tables(db) /\ o \in OfKind(db.log, "data")
    BY <1>1, <2>1 DEF DbFits
  <2>3. RemoveRecord(t, o)
    BY <1>3, <2>1
  <2>4. DbFits(db') /\ Grown(db.log, db'.log) /\ Len(db'.log) = Len(db.log)
    BY <2>2, <2>3, RemoveRecordIs
  <2>5. /\ going' = going \cup {o} /\ fresh' = fresh /\ nexttable' = nexttable
        /\ sum' = sum /\ up' = up /\ rebuilds' = rebuilds /\ plain' = plain
    BY <2>3 DEF RemoveRecord
  <2>6. o \in OfKind(db'.log, "data")
    BY <2>2, <2>4, DataStays
  <2> QED
    BY <1>1, <2>4, <2>5, <2>6, GrownTyped
<1>4. ASSUME NEW creates \in SUBSET fresh, NEW deletes \in SUBSET going, Commit(creates, deletes)
      PROVE  TInv'
  <2>1. /\ DbFits(db') /\ Grown(db.log, db'.log)
        /\ Longer(db.log, CommitRec(creates, deletes \cup db.drops), db'.log)
    BY <1>4, CommitIs
  <2>2. Len(db'.log) <= MaxLog + rebuilds
    BY <1>4, <2>1, Room DEF Commit, Longer
  <2>3. /\ fresh' \subseteq fresh /\ going' \subseteq going /\ nexttable' = nexttable
        /\ sum' \in BOOLEAN /\ up' = up /\ rebuilds' = rebuilds /\ plain' = plain
    BY <1>4 DEF Commit
  <2> QED
    BY <1>1, <2>1, <2>2, <2>3, GrownTyped
<1>5. ASSUME NEW creates \in SUBSET fresh, NEW deletes \in SUBSET going, Abort(creates, deletes)
      PROVE  TInv'
  <2>1. DbFits(db') /\ Grown(db.log, db'.log) /\ Len(db'.log) = Len(db.log)
    BY <1>5, AbortIs
  <2>2. /\ fresh' \subseteq fresh /\ going' \subseteq going /\ nexttable' = nexttable
        /\ sum' = sum /\ up' = up /\ rebuilds' = rebuilds /\ plain' = plain
    BY <1>5 DEF Abort
  <2> QED
    BY <1>1, <2>1, <2>2, GrownTyped
<1> QED
  BY <1>2, <1>3, <1>4, <1>5 DEF DataRequest

LEMMA RestartTyped ==
  ASSUME TInv, Restart
  PROVE  TInv'
<1>1. /\ nexttable \in 1 .. TN_VIEWS + MaxTables + 1 /\ sum \in BOOLEAN /\ up \in BOOLEAN
  BY DEF TInv
<1>2. DbFits(db') /\ Grown(db.log, db'.log) /\ Longer(db.log, CommitRec({}, db.drops), db'.log)
  BY RestartIs
<1>3. Len(db'.log) <= MaxLog + rebuilds
  BY <1>2, Room DEF Restart, Longer
<1>4. /\ fresh' = fresh /\ going' = going /\ nexttable' = nexttable /\ up
      /\ sum' \in BOOLEAN /\ up' = up /\ rebuilds' = rebuilds /\ plain' = plain
  BY DEF Restart
<1> QED
  BY <1>1, <1>2, <1>3, <1>4, GrownTyped

LEMMA CrashTyped ==
  ASSUME TInv, Crash
  PROVE  TInv'
<1>1. DbFits(db') /\ CutOff(db.log, db'.log)
  BY CrashIs
<1>2. db.log \in Logs /\ Len(db.log) \in Nat /\ DOMAIN db.log = 1 .. Len(db.log)
  BY DbIs DEF TInv, DbFits
<1>3. Commits(db'.log) # {}
  BY <1>1, <1>2, CutOffCommits DEF TInv
<1>4. Len(db'.log) <= Len(db.log) /\ Len(db'.log) \in Nat
  BY <1>1, <1>2 DEF CutOff, Commits
<1>5. /\ fresh' = {} /\ going' = {} /\ nexttable' = nexttable /\ sum' = FALSE /\ up' = FALSE
      /\ rebuilds' = rebuilds /\ plain' = plain
  BY DEF Crash
<1>6. Len(db'.log) <= MaxLog + rebuilds'
  <2>1. rebuilds \in Nat /\ Len(db.log) <= MaxLog + rebuilds
    BY DEF TInv
  <2> QED
    BY <1>2, <1>4, <1>5, <2>1, RebuildBounds
<1> QED
  BY <1>1, <1>3, <1>5, <1>6 DEF TInv

LEMMA RebuildTyped ==
  ASSUME TInv, Rebuild
  PROVE  TInv'
<1>1. PICK r : r = Replayed(db.log)
  OBVIOUS
<1>2. /\ RFits(r, db.log, Len(db.log)) /\ DbFits(db') /\ Commits(db'.log) # {}
      /\ Len(db'.log) <= Len(db.log) + 1 /\ nexttable' = r.top + 1
  BY <1>1, RebuildIs
<1>3. /\ rebuilds < MaxRebuilds /\ rebuilds' = rebuilds + 1 /\ up' = TRUE /\ ~ up
      /\ fresh' = fresh /\ going' = going /\ sum' = sum /\ plain' = (plain /\ Plain(db.log))
  BY DEF Rebuild
<1>4. nexttable' \in 1 .. TN_VIEWS + MaxTables + 1
  BY <1>2, RebuildBounds DEF RFits, RCore, TN_VIEWS
<1>5. rebuilds' \in 0 .. MaxRebuilds /\ Len(db'.log) <= MaxLog + rebuilds'
  <2>1. Len(db.log) \in Nat /\ rebuilds \in Nat /\ Len(db.log) <= MaxLog + rebuilds
    BY DbIs DEF TInv, DbFits
  <2>2. Len(db'.log) \in Nat
    BY <1>2, LogIs DEF DbFits, LogFits
  <2> QED
    BY <1>2, <1>3, <2>1, <2>2, RebuildBounds
<1>6. fresh = {} /\ going = {}
  BY <1>3 DEF TInv
<1> QED
  BY <1>2, <1>3, <1>4, <1>5, <1>6 DEF TInv

LEMMA NextTyped == TInv /\ [Next]_vars => TInv'
<1> SUFFICES ASSUME TInv, [Next]_vars PROVE TInv'
  OBVIOUS
<1>1. CASE Next
  BY <1>1, SchemaRequestTyped, DataRequestTyped, RestartTyped, CrashTyped, RebuildTyped DEF Next
<1>2. CASE UNCHANGED vars
  <2>1. /\ db' = db /\ nexttable' = nexttable /\ fresh' = fresh /\ going' = going /\ sum' = sum
        /\ up' = up /\ rebuilds' = rebuilds /\ plain' = plain
    BY <1>2 DEF vars
  <2> QED
    BY <2>1 DEF TInv
<1> QED
  BY <1>1, <1>2

LEMMA RebuildTInv == Spec => []TInv
BY InitTyped, NextTyped, PTL DEF Spec

\* Every offset that is kept anywhere is that of a record of the right kind,
\* through requests, transactions, crashes and rebuilds of any file
\* (database.cpp, recover.cpp).
THEOREM RebuildTypeOK == Spec => []TypeOK
BY RebuildTInv, TypeGivesTypeOK, PTL

-----------------------------------------------------------------------------
(* What a rebuild of a Plain file does *)

Schema(log) == {o \in DOMAIN log : log[o].kind \in SchemaKinds}

\* The schema records that no commit record deletes.
Kept(log) == Schema(log) \ Deleted(log)
KeptAt(log, i) == Kept(log) \cap 1 .. i

AmongOf(log, L, kind) == {o \in L : log[o].kind = kind}

\* What the schema records in L say of each other.
TablesApart(log, L) ==
  \A o \in AmongOf(log, L, "tables") :
    /\ log[o].tbl > TN_VIEWS
    /\ \A p \in AmongOf(log, L, "tables") :
         o # p => log[o].tbl # log[p].tbl /\ log[o].name # log[p].name
ColumnsHome(log, L) ==
  \A c \in AmongOf(log, L, "columns") :
    \E o \in AmongOf(log, L, "tables") :
      log[o].tbl = log[c].tbl /\ log[c].field < log[o].nextfield
ColumnsApart(log, L) ==
  \A c \in AmongOf(log, L, "columns"), d \in AmongOf(log, L, "columns") :
    c # d /\ log[c].tbl = log[d].tbl =>
      log[c].column # log[d].column /\ log[c].field # log[d].field
IndexesHome(log, L) ==
  \A i \in AmongOf(log, L, "indexes") :
    \E c \in AmongOf(log, L, "columns") :
      c < i /\ log[c].tbl = log[i].tbl /\ log[c].column = log[i].column
IndexesApart(log, L) ==
  \A i \in AmongOf(log, L, "indexes"), j \in AmongOf(log, L, "indexes") :
    i # j /\ log[i].tbl = log[j].tbl => log[i].column # log[j].column
PartsLater(log, L) ==
  \A o \in AmongOf(log, L, "tables"), c \in AmongOf(log, L, "columns") :
    Made(log, o) /\ log[o].tbl = log[c].tbl => o < c

Consistent(log, L) ==
  /\ TablesApart(log, L) /\ ColumnsHome(log, L) /\ ColumnsApart(log, L)
  /\ IndexesHome(log, L) /\ IndexesApart(log, L) /\ PartsLater(log, L)

\* The record of a new table is followed by those of its first column and index.
MadeWhole(log) ==
  \A o \in OfKind(log, "tables") : Made(log, o) =>
    /\ o + 2 \in DOMAIN log
    /\ log[o + 1].kind = "columns" /\ log[o + 1].tbl = log[o].tbl
    /\ log[o + 2].kind = "indexes" /\ log[o + 2].tbl = log[o].tbl
NoneHidden(log) == \A o \in OfKind(log, "tables") : ~ log[o].hidden

Restorable(log) ==
  /\ LogFits(log) /\ Plain(log) /\ Consistent(log, Kept(log))
  /\ MadeWhole(log) /\ NoneHidden(log)

\* The data records entered up to block i: not deleted later, and created by
\* a commit after the record of their table.
HeldAt(log, i) ==
  {p \in DOMAIN log \ Deleted(log) :
     \E c \in Commits(log), o \in AmongOf(log, Kept(log), "tables") :
       c <= i /\ p \in log[c].creates /\ o < c /\ log[o].tbl = log[p].tbl}
RowsAt(log, i) == {<<log[p].tbl, p>> : p \in HeldAt(log, i)}

TablesAt(log, i) == AmongOf(log, KeptAt(log, i), "tables")

\* The new file is a copy of the blocks of the old one, at the same offsets,
\* but for the counts of tables.
Copies(log, r, i) ==
  /\ Len(r.new.log) = i /\ \A j \in 1 .. i : AlikeBlock(log[j], r.new.log[j])
  /\ DOMAIN r.tr = 1 .. i /\ \A j \in 1 .. i : r.tr[j] = j
  /\ r.new.live = KeptAt(log, i) /\ r.new.drops = {}
NamesAre(log, r, i) ==
  /\ DOMAIN r.name = {log[o].tbl : o \in TablesAt(log, i)}
  /\ \A o \in TablesAt(log, i) : r.name[log[o].tbl] = log[o].name /\ log[o].tbl <= r.top
DroppedAre(log, r, i) ==
  \A t \in DOMAIN r.dropped :
    \E o \in 1 .. i :
      /\ o \in Deleted(log) /\ log[o].kind = "tables" /\ log[o].tbl = t
      /\ \A q \in o + 1 .. i : log[q].kind = "tables" => log[q].tbl # t
RowsAre(log, r, i) ==
  /\ r.new.rows = RowsAt(log, i)
  /\ \A o \in TablesAt(log, i) :
       r.new.log[o].nrows = Cardinality({x \in r.new.rows : x[1] = log[o].tbl})

Restores(log, r, i) ==
  /\ r.failed = FALSE /\ r.alerts = FALSE /\ DOMAIN r.renamed = {}
  /\ Copies(log, r, i) /\ NamesAre(log, r, i) /\ DroppedAre(log, r, i) /\ RowsAre(log, r, i)

LEMMA KeptIs ==
  ASSUME NEW log, LogFits(log), NEW i \in DOMAIN log
  PROVE  /\ KeptAt(log, i) = KeptAt(log, i - 1) \cup (Kept(log) \cap {i})
         /\ i \in Nat \ {0} /\ i - 1 \in Nat /\ i \notin KeptAt(log, i - 1)
         /\ \A k : KeptAt(log, k) \subseteq Kept(log) /\ KeptAt(log, k) \subseteq DOMAIN log
         /\ \A k \in Nat : \A o \in Kept(log) : o <= k => o \in KeptAt(log, k)
         /\ DOMAIN log = 1 .. Len(log) /\ Len(log) \in Nat
         /\ 1 .. i = 1 .. i - 1 \cup {i} /\ log[i] \in Block
<1>1. log \in Logs /\ DOMAIN log = 1 .. Len(log) /\ Len(log) \in Nat /\ log[i] \in Block
  BY LogIs DEF LogFits
<1>2. i \in Nat \ {0} /\ i - 1 \in Nat /\ 1 .. i = 1 .. i - 1 \cup {i} /\ i \notin 1 .. i - 1
  BY <1>1
<1>3. Kept(log) \subseteq DOMAIN log /\ Kept(log) \subseteq Nat \ {0}
  BY <1>1 DEF Kept, Schema
<1>4. \A k \in Nat : \A o \in Kept(log) : o <= k => o \in 1 .. k
  BY <1>3
<1> QED
  BY <1>1, <1>2, <1>3, <1>4 DEF KeptAt

\* What rebuild_copy finds in the schema of the new database.
SchemaRead(log, d, i) ==
  /\ d.live = KeptAt(log, i)
  /\ \A o \in KeptAt(log, i) :
       /\ d.log[o].kind = log[o].kind /\ d.log[o].tbl = log[o].tbl
       /\ log[o].kind = "tables" => d.log[o].name = log[o].name
       /\ log[o].kind # "tables" => d.log[o] = log[o]
  /\ \A kind : Live(d, kind) = AmongOf(log, KeptAt(log, i), kind)
  /\ Tables(d) = {log[o].tbl : o \in TablesAt(log, i)}
  /\ \A name : TablesNamed(d, name) =
       {log[o].tbl : o \in {p \in TablesAt(log, i) : log[p].name = name}}
  /\ \A kind, t : LiveOf(d, kind, t) =
       {o \in AmongOf(log, KeptAt(log, i), kind) : log[o].tbl = t}

LEMMA SchemaReadIs ==
  ASSUME NEW log, LogFits(log), NEW i \in Nat, i <= Len(log), NEW d,
         d.live = KeptAt(log, i), \A j \in 1 .. i : AlikeBlock(log[j], d.log[j])
  PROVE  SchemaRead(log, d, i)
<1>1. \A o \in KeptAt(log, i) :
        /\ o \in DOMAIN log /\ log[o] \in Block /\ log[o].kind \in SchemaKinds
        /\ AlikeBlock(log[o], d.log[o])
  <2>1. log \in Logs /\ DOMAIN log = 1 .. Len(log) /\ Len(log) \in Nat
    BY LogIs DEF LogFits
  <2> QED
    BY <2>1, LogIs DEF KeptAt, Kept, Schema
<1>2. \A o \in KeptAt(log, i) :
        /\ d.log[o].kind = log[o].kind /\ d.log[o].tbl = log[o].tbl
        /\ log[o].kind = "tables" => d.log[o].name = log[o].name
        /\ log[o].kind # "tables" => d.log[o] = log[o]
  BY <1>1 DEF AlikeBlock
<1>3. d.live = KeptAt(log, i)
  OBVIOUS
<1>4. \A kind : Live(d, kind) = AmongOf(log, KeptAt(log, i), kind)
  BY <1>2, <1>3 DEF Live, AmongOf
<1>5. Tables(d) = {log[o].tbl : o \in TablesAt(log, i)}
  BY <1>2, <1>4 DEF Tables, TablesAt, AmongOf
<1>6. ASSUME NEW name
      PROVE  TablesNamed(d, name) =
               {log[o].tbl : o \in {p \in TablesAt(log, i) : log[p].name = name}}
  <2>1. {p \in Live(d, "tables") : d.log[p].name = name} =
          {p \in TablesAt(log, i) : log[p].name = name}
    BY <1>2, <1>4 DEF TablesAt, AmongOf
  <2>2. \A o \in TablesAt(log, i) : d.log[o].tbl = log[o].tbl
    BY <1>2 DEF TablesAt, AmongOf
  <2> QED
    BY <2>1, <2>2 DEF TablesNamed
<1>7. \A kind, t : LiveOf(d, kind, t) =
              {o \in AmongOf(log, KeptAt(log, i), kind) : log[o].tbl = t}
  BY <1>2, <1>4 DEF LiveOf, AmongOf
<1> QED
  BY <1>2, <1>3, <1>4, <1>5, <1>6, <1>7 DEF SchemaRead

LEMMA NewSchemaIs ==
  ASSUME NEW log, LogFits(log), NEW i \in Nat, i <= Len(log), NEW r, Copies(log, r, i)
  PROVE  SchemaRead(log, r.new, i)
<1>1. r.new.live = KeptAt(log, i) /\ \A j \in 1 .. i : AlikeBlock(log[j], r.new.log[j])
  BY DEF Copies
<1> QED
  BY <1>1, SchemaReadIs

LEMMA CopiesStep ==
  ASSUME NEW log, LogFits(log), NEW i \in DOMAIN log, NEW r, DbFits(r.new), Copies(log, r, i - 1),
         NEW q, Grown(r.new.log, q.new.log), Len(q.new.log) = i, AlikeBlock(log[i], q.new.log[i]),
         q.tr = Put(r.tr, i, i), q.new.live = KeptAt(log, i), q.new.drops = {}
  PROVE  Copies(log, q, i)
<1>1. /\ i \in Nat \ {0} /\ i - 1 \in Nat /\ 1 .. i = 1 .. i - 1 \cup {i}
      /\ DOMAIN log = 1 .. Len(log) /\ Len(log) \in Nat /\ i - 1 <= Len(log) /\ i <= Len(log)
  BY KeptIs
<1>2. \A j \in 1 .. i - 1 : log[j] \in Block
  BY <1>1, LogIs DEF LogFits
<1>3. \A j \in 1 .. i - 1 : r.new.log[j] \in Block /\ q.new.log[j] \in Block
  <2>1. r.new.log \in Logs /\ q.new.log \in Logs
    BY DEF DbFits, LogFits, Grown
  <2>2. Len(r.new.log) = i - 1 /\ Len(q.new.log) = i
    BY DEF Copies
  <2> QED
    BY <1>1, <2>1, <2>2, LogIs
<1>4. \A j \in 1 .. i - 1 : AlikeBlock(log[j], r.new.log[j]) /\ AlikeBlock(r.new.log[j], q.new.log[j])
  BY DEF Copies, Grown
<1>5. \A j \in 1 .. i - 1 : AlikeBlock(log[j], q.new.log[j])
  BY <1>2, <1>3, <1>4, AlikeTransitive
<1>6. \A j \in 1 .. i : AlikeBlock(log[j], q.new.log[j])
  BY <1>1, <1>5
<1>7. DOMAIN q.tr = 1 .. i /\ \A j \in 1 .. i : q.tr[j] = j
  <2>1. DOMAIN r.tr = 1 .. i - 1 /\ \A j \in 1 .. i - 1 : r.tr[j] = j
    BY DEF Copies
  <2> QED
    BY <1>1, <2>1 DEF Put
<1> QED
  BY <1>6, <1>7 DEF Copies

\* Only a commit record enters data records.
LEMMA QuietRows ==
  ASSUME NEW log, LogFits(log), NEW i \in DOMAIN log, log[i].kind # "commit"
  PROVE  RowsAt(log, i) = RowsAt(log, i - 1)
<1>1. \A c \in Commits(log) : c <= i <=> c <= i - 1
  <2>1. Commits(log) \subseteq Nat /\ i \in Nat /\ i \notin Commits(log)
    BY BlocksOf DEF Commits
  <2> QED
    BY <2>1
<1> QED
  BY <1>1 DEF RowsAt, HeldAt

\* What a replay leaves alone while it copies a block.
Alike(r, q) ==
  /\ q.failed = r.failed /\ q.alerts = r.alerts /\ q.renamed = r.renamed
  /\ q.name = r.name /\ q.dropped = r.dropped /\ q.top = r.top
  /\ q.new.rows = r.new.rows /\ q.new.drops = r.new.drops

LEMMA OtherBlock ==
  ASSUME NEW log, LogFits(log), NEW i \in DOMAIN log, NEW r, DbFits(r.new), Restores(log, r, i - 1),
         log[i].kind \notin {"tables", "commit"},
         NEW q, Alike(r, q), q.tr = Put(r.tr, i, NewOff(r.new)), Longer(r.new.log, log[i], q.new.log),
         q.new.live = r.new.live \cup (Kept(log) \cap {i})
  PROVE  Restores(log, q, i)
<1>1. /\ i \in Nat \ {0} /\ i - 1 \in Nat /\ 1 .. i = 1 .. i - 1 \cup {i} /\ log[i] \in Block
      /\ KeptAt(log, i) = KeptAt(log, i - 1) \cup (Kept(log) \cap {i})
  BY KeptIs
<1>2. Copies(log, r, i - 1) /\ Len(r.new.log) = i - 1 /\ r.new.log \in Logs
  BY DEF Restores, Copies, DbFits, LogFits
<1>3. /\ Grown(r.new.log, q.new.log) /\ Len(q.new.log) = i /\ q.new.log[i] = log[i]
      /\ q.tr = Put(r.tr, i, i)
  <2>1. Len(r.new.log) + 1 = i
    BY <1>1, <1>2
  <2> QED
    BY <1>1, <1>2, <2>1, LongerIsGrown DEF Longer, NewOff
<1>4. AlikeBlock(log[i], q.new.log[i])
  BY <1>1, <1>3, AlikeSelf
<1>5. q.new.live = KeptAt(log, i) /\ q.new.drops = {}
  BY <1>1, <1>2 DEF Copies, Alike
<1>6. Copies(log, q, i)
  BY <1>2, <1>3, <1>4, <1>5, CopiesStep
<1>7. TablesAt(log, i) = TablesAt(log, i - 1)
  BY <1>1 DEF TablesAt, AmongOf
<1>8. NamesAre(log, q, i)
  BY <1>7 DEF NamesAre, Restores, Alike
<1>9. DroppedAre(log, q, i)
  <2> SUFFICES ASSUME NEW t \in DOMAIN r.dropped
               PROVE  \E o \in 1 .. i :
                        /\ o \in Deleted(log) /\ log[o].kind = "tables" /\ log[o].tbl = t
                        /\ \A p \in o + 1 .. i : log[p].kind = "tables" => log[p].tbl # t
    BY DEF DroppedAre, Alike
  <2>1. PICK o \in 1 .. i - 1 :
          /\ o \in Deleted(log) /\ log[o].kind = "tables" /\ log[o].tbl = t
          /\ \A p \in o + 1 .. i - 1 : log[p].kind = "tables" => log[p].tbl # t
    BY DEF Restores, DroppedAre
  <2>2. \A p \in o + 1 .. i : p \in o + 1 .. i - 1 \/ p = i
    BY <1>1
  <2>3. o \in 1 .. i
    BY <1>1
  <2> QED
    BY <2>1, <2>2, <2>3
<1>10. RowsAre(log, q, i)
  <2>1. q.new.rows = RowsAt(log, i)
    BY QuietRows DEF Restores, RowsAre, Alike
  <2>2. \A o \in TablesAt(log, i - 1) : q.new.log[o] = r.new.log[o]
    BY <1>2 DEF Longer, TablesAt, AmongOf, KeptAt
  <2> QED
    BY <1>7, <2>1, <2>2 DEF Restores, RowsAre, Alike
<1> QED
  BY <1>6, <1>8, <1>9, <1>10 DEF Restores, Alike

\* A block that is copied, and what of it is in the schema of the new database.
LEMMA CopiedDoes ==
  ASSUME NEW log, LogFits(log), NEW i \in DOMAIN log, NEW r, RFits(r, log, i - 1), Restores(log, r, i - 1),
         log[i].kind # "commit", NEW q, q = Copied(r, i)
  PROVE  /\ RFits(q, log, i) /\ Shaped(q, log) /\ DbFits(q.new) /\ Alike(r, q)
         /\ q.tr = Put(r.tr, i, NewOff(r.new))
         /\ Longer(r.new.log, log[i], q.new.log) /\ q.new.live = r.new.live
<1>1. r.failed = FALSE /\ Shaped(r, log)
  BY DEF Restores, RFits, RCore
<1>2. /\ RFits(q, log, i) /\ Longer(r.new.log, log[i], q.new.log)
      /\ q.new.live = r.new.live /\ q.new.rows = r.new.rows /\ q.new.drops = r.new.drops
  BY <1>1, CopiedFits
<1>3. /\ Shaped(q, log) /\ q.tr = Put(r.tr, i, NewOff(r.new)) /\ q.failed = r.failed
      /\ q.name = r.name /\ q.dropped = r.dropped /\ q.renamed = r.renamed
      /\ q.top = r.top /\ q.alerts = r.alerts
  BY <1>1, CopiedIs
<1> QED
  BY <1>2, <1>3 DEF Alike, RFits, RCore

LEMMA CopiedLiveDoes ==
  ASSUME NEW log, LogFits(log), NEW i \in DOMAIN log, NEW r, RFits(r, log, i - 1), Restores(log, r, i - 1),
         log[i].kind \in SchemaKinds, NEW q, q = CopiedLive(r, i)
  PROVE  /\ RFits(q, log, i) /\ Shaped(q, log) /\ Alike(r, q) /\ q.tr = Put(r.tr, i, NewOff(r.new))
         /\ Longer(r.new.log, log[i], q.new.log) /\ q.new.live = r.new.live \cup {i}
<1>1. r.failed = FALSE /\ Shaped(r, log) /\ Len(r.new.log) = i - 1 /\ i \in Nat
  BY KeptIs DEF Restores, Copies, RFits, RCore
<1>2. /\ RFits(q, log, i) /\ Longer(r.new.log, log[i], q.new.log)
      /\ q.new.live = r.new.live \cup {Len(r.new.log) + 1}
      /\ q.new.rows = r.new.rows /\ q.new.drops = r.new.drops
  BY <1>1, CopiedLiveFits
<1>3. /\ Shaped(q, log) /\ q.tr = Put(r.tr, i, NewOff(r.new)) /\ q.failed = r.failed
      /\ q.name = r.name /\ q.dropped = r.dropped /\ q.renamed = r.renamed
      /\ q.top = r.top /\ q.alerts = r.alerts
  BY <1>1, CopiedLiveIs
<1>4. Len(r.new.log) + 1 = i
  BY <1>1
<1> QED
  BY <1>2, <1>3, <1>4 DEF Alike

LEMMA DataStep ==
  ASSUME NEW log, LogFits(log), NEW i \in DOMAIN log, NEW r, RFits(r, log, i - 1), Restores(log, r, i - 1),
         log[i].kind # "tables", log[i].kind # "commit", i \notin Kept(log), NEW q, q = Copied(r, i)
  PROVE  Restores(log, q, i)
<1>1. /\ Alike(r, q) /\ q.tr = Put(r.tr, i, NewOff(r.new))
      /\ Longer(r.new.log, log[i], q.new.log) /\ q.new.live = r.new.live
  BY CopiedDoes
<1>2. q.new.live = r.new.live \cup (Kept(log) \cap {i})
  BY <1>1
<1>3. DbFits(r.new)
  BY DEF RFits, RCore
<1> QED
  BY <1>1, <1>2, <1>3, OtherBlock

LEMMA SchemaStep ==
  ASSUME NEW log, LogFits(log), NEW i \in DOMAIN log, NEW r, RFits(r, log, i - 1), Restores(log, r, i - 1),
         log[i].kind \in {"columns", "indexes"}, i \in Kept(log), NEW q, q = CopiedLive(r, i)
  PROVE  Restores(log, q, i)
<1>1. /\ Alike(r, q) /\ q.tr = Put(r.tr, i, NewOff(r.new))
      /\ Longer(r.new.log, log[i], q.new.log) /\ q.new.live = r.new.live \cup {i}
  BY CopiedLiveDoes DEF SchemaKinds
<1>2. q.new.live = r.new.live \cup (Kept(log) \cap {i})
  BY <1>1
<1>3. DbFits(r.new)
  BY DEF RFits, RCore
<1> QED
  BY <1>1, <1>2, <1>3, OtherBlock

LEMMA ColumnStep ==
  ASSUME NEW log, Restorable(log), NEW i \in DOMAIN log, NEW r, RFits(r, log, i - 1),
         Restores(log, r, i - 1), log[i].kind = "columns", NEW q, q = CopyColumn(r, i)
  PROVE  Restores(log, q, i)
<1>1. r.old = log /\ r.deletes = Deleted(log) /\ LogFits(log)
  BY ShapedIs DEF RFits, RCore, Restorable
<1>2. CASE i \in Deleted(log)
  <2>1. q = Copied(r, i) /\ i \notin Kept(log)
    BY <1>1, <1>2 DEF CopyColumn, Kept
  <2> QED
    BY <1>1, <2>1, DataStep
<1>3. CASE i \notin Deleted(log)
  <2>1. i \in Kept(log)
    BY <1>3 DEF Kept, Schema, SchemaKinds
  <2>2. On(r.new, LiveOf(r.new, "columns", log[i].tbl), log[i].column) = {}
    <3> SUFFICES ASSUME NEW c \in LiveOf(r.new, "columns", log[i].tbl),
                        r.new.log[c].column = log[i].column
                 PROVE  FALSE
      BY DEF On
    <3> PICK k : k = i - 1
      OBVIOUS
    <3>1. k \in Nat /\ k <= Len(log) /\ Copies(log, r, k) /\ i \notin KeptAt(log, k)
      BY <1>1, KeptIs DEF Restores
    <3>2. SchemaRead(log, r.new, k)
      BY <1>1, <3>1, NewSchemaIs
    <3>3. /\ LiveOf(r.new, "columns", log[i].tbl) =
               {o \in AmongOf(log, KeptAt(log, k), "columns") : log[o].tbl = log[i].tbl}
          /\ \A o \in KeptAt(log, k) : log[o].kind # "tables" => r.new.log[o] = log[o]
      BY <3>2 DEF SchemaRead
    <3>4. /\ c \in Kept(log) /\ c # i /\ log[c].kind = "columns" /\ log[c].tbl = log[i].tbl
          /\ log[c].column = log[i].column
      BY <3>1, <3>3 DEF AmongOf, KeptAt
    <3> QED
      BY <2>1, <3>4 DEF Restorable, Consistent, ColumnsApart, AmongOf
  <2>3. q = CopiedLive(r, i)
    BY <1>1, <1>3, <2>2 DEF CopyColumn
  <2> QED
    BY <1>1, <2>1, <2>3, SchemaStep
<1> QED
  BY <1>2, <1>3

\* The table and the column of an index that is kept are before it.
LEMMA IndexHome ==
  ASSUME NEW log, Restorable(log), NEW i \in Kept(log), log[i].kind = "indexes"
  PROVE  \E o \in AmongOf(log, Kept(log), "tables"), c \in AmongOf(log, Kept(log), "columns") :
           /\ o < i /\ c < i /\ log[o].tbl = log[i].tbl /\ log[o].tbl > TN_VIEWS
           /\ log[c].tbl = log[i].tbl /\ log[c].column = log[i].column
<1>1. PICK c \in AmongOf(log, Kept(log), "columns") :
        c < i /\ log[c].tbl = log[i].tbl /\ log[c].column = log[i].column
  BY DEF Restorable, Consistent, IndexesHome, AmongOf
<1>2. PICK o \in AmongOf(log, Kept(log), "tables") : log[o].tbl = log[c].tbl
  BY DEF Restorable, Consistent, ColumnsHome
<1>3. log[o].tbl > TN_VIEWS
  BY DEF Restorable, Consistent, TablesApart
<1>4. o < c
  <2>1. o \in DOMAIN log /\ log[o].kind = "tables"
    BY DEF AmongOf, Kept, Schema
  <2>2. Made(log, o)
    BY <1>3, <2>1 DEF Restorable, Plain
  <2> QED
    BY <1>2, <2>2 DEF Restorable, Consistent, PartsLater
<1>5. o \in Nat /\ c \in Nat /\ i \in Nat
  BY LogIs DEF Restorable, LogFits, AmongOf, Kept, Schema
<1>6. o < i
  BY <1>1, <1>4, <1>5
<1> QED
  BY <1>1, <1>2, <1>3, <1>6

\* An index that is kept is one of a table that is kept, so that no record of a
\* dropped table is entered for it.
LEMMA NotRevived ==
  ASSUME NEW log, Restorable(log), NEW i \in Kept(log), log[i].kind = "indexes", NEW r,
         DroppedAre(log, r, i - 1)
  PROVE  log[i].tbl \notin DOMAIN r.dropped
<1> SUFFICES ASSUME log[i].tbl \in DOMAIN r.dropped PROVE FALSE
  OBVIOUS
<1>1. PICK o \in 1 .. i - 1 :
        /\ o \in Deleted(log) /\ log[o].kind = "tables" /\ log[o].tbl = log[i].tbl
        /\ \A q \in o + 1 .. i - 1 : log[q].kind = "tables" => log[q].tbl # log[i].tbl
  BY DEF DroppedAre
<1>2. log[i].tbl > TN_VIEWS
  BY IndexHome
<1>3. i \in DOMAIN log /\ DOMAIN log = 1 .. Len(log) /\ Len(log) \in Nat
  BY LogIs DEF Restorable, LogFits, Kept, Schema
<1>4. o < i /\ o \in DOMAIN log /\ \A q \in o + 1 .. i : q = i \/ q \in o + 1 .. i - 1
  BY <1>3
<1>5. i \in Parts(log, "indexes", o)
  BY <1>1, <1>3, <1>4 DEF Parts
<1>6. i \in Deleted(log)
  BY <1>1, <1>2, <1>4, <1>5 DEF Restorable, Plain
<1> QED
  BY <1>6 DEF Kept

LEMMA IndexStep ==
  ASSUME NEW log, Restorable(log), NEW i \in DOMAIN log, NEW r, RFits(r, log, i - 1),
         Restores(log, r, i - 1), log[i].kind = "indexes", NEW q, q = CopyIndex(r, i)
  PROVE  Restores(log, q, i)
<1>1. r.old = log /\ r.deletes = Deleted(log) /\ LogFits(log)
  BY ShapedIs DEF RFits, RCore, Restorable
<1>2. CASE i \in Deleted(log)
  <2>1. q = Copied(r, i) /\ i \notin Kept(log)
    BY <1>1, <1>2 DEF CopyIndex, Kept
  <2> QED
    BY <1>1, <2>1, DataStep
<1>3. CASE i \notin Deleted(log)
  <2>1. i \in Kept(log)
    BY <1>3 DEF Kept, Schema, SchemaKinds
  <2>2. log[i].tbl \notin DOMAIN r.dropped
    BY <2>1, NotRevived DEF Restores
  <2>3. Recoverable(r.new, log[i])
    <3> PICK k : k = i - 1
      OBVIOUS
    <3>1. /\ k \in Nat /\ k <= Len(log) /\ Copies(log, r, k) /\ i \notin KeptAt(log, k)
          /\ i \in Nat /\ Kept(log) \subseteq Nat
      <4>1. DOMAIN log \subseteq Nat
        BY <1>1, KeptIs
      <4> QED
        BY <1>1, <4>1, KeptIs DEF Restores, Kept, Schema
    <3>2. SchemaRead(log, r.new, k)
      BY <1>1, <3>1, NewSchemaIs
    <3>3. PICK o \in AmongOf(log, Kept(log), "tables"), c \in AmongOf(log, Kept(log), "columns") :
            /\ o < i /\ c < i /\ log[o].tbl = log[i].tbl
            /\ log[c].tbl = log[i].tbl /\ log[c].column = log[i].column
      BY <2>1, IndexHome
    <3>4. o \in KeptAt(log, k) /\ c \in KeptAt(log, k)
      <4>1. o \in Kept(log) /\ c \in Kept(log) /\ o <= k /\ c <= k
        BY <3>1, <3>3 DEF AmongOf
      <4> QED
        BY <1>1, <3>1, <4>1, KeptIs
    <3>5. log[i].tbl \in Tables(r.new)
      BY <3>2, <3>3, <3>4 DEF SchemaRead, TablesAt, AmongOf
    <3>6. c \in LiveOf(r.new, "columns", log[i].tbl) /\ r.new.log[c] = log[c]
      BY <3>2, <3>3, <3>4 DEF SchemaRead, AmongOf
    <3>7. On(r.new, LiveOf(r.new, "columns", log[i].tbl), log[i].column) # {}
      BY <3>3, <3>6 DEF On
    <3>8. On(r.new, LiveOf(r.new, "indexes", log[i].tbl), log[i].column) = {}
      <4> SUFFICES ASSUME NEW x \in LiveOf(r.new, "indexes", log[i].tbl),
                          r.new.log[x].column = log[i].column
                   PROVE  FALSE
        BY DEF On
      <4>1. /\ x \in AmongOf(log, KeptAt(log, k), "indexes") /\ log[x].tbl = log[i].tbl
            /\ log[x].kind = "indexes"
        BY <3>2 DEF SchemaRead, AmongOf
      <4>2. x \in KeptAt(log, k) /\ r.new.log[x] = log[x]
        BY <3>2, <4>1 DEF SchemaRead, AmongOf
      <4>3. x \in Kept(log) /\ x # i /\ log[x].column = log[i].column
        BY <3>1, <4>2 DEF KeptAt
      <4> QED
        BY <2>1, <4>1, <4>3 DEF Restorable, Consistent, IndexesApart, AmongOf
    <3> QED
      BY <3>5, <3>7, <3>8 DEF Recoverable
  <2>4. q = CopiedLive(r, i)
    BY <1>1, <1>3, <2>2, <2>3 DEF CopyIndex
  <2> QED
    BY <1>1, <2>1, <2>4, SchemaStep
<1> QED
  BY <1>2, <1>3

\* The tables dropped before block i are still those, if it is not of one.
LEMMA DroppedStay ==
  ASSUME NEW log, LogFits(log), NEW i \in DOMAIN log, NEW r, DroppedAre(log, r, i - 1),
         NEW t \in DOMAIN r.dropped, log[i].kind = "tables" => log[i].tbl # t
  PROVE  \E o \in 1 .. i :
           /\ o \in Deleted(log) /\ log[o].kind = "tables" /\ log[o].tbl = t
           /\ \A p \in o + 1 .. i : log[p].kind = "tables" => log[p].tbl # t
<1>1. /\ i \in Nat \ {0} /\ i - 1 \in Nat /\ 1 .. i = 1 .. i - 1 \cup {i}
  BY KeptIs
<1>2. PICK o \in 1 .. i - 1 :
        /\ o \in Deleted(log) /\ log[o].kind = "tables" /\ log[o].tbl = t
        /\ \A p \in o + 1 .. i - 1 : log[p].kind = "tables" => log[p].tbl # t
  BY DEF DroppedAre
<1>3. \A p \in o + 1 .. i : p \in o + 1 .. i - 1 \/ p = i
  BY <1>1
<1>4. o \in 1 .. i
  BY <1>1
<1> QED
  BY <1>2, <1>3, <1>4

LEMMA DeadTableStep ==
  ASSUME NEW log, LogFits(log), NEW i \in DOMAIN log, NEW r, RFits(r, log, i - 1), Restores(log, r, i - 1),
         log[i].kind = "tables", i \in Deleted(log), NEW q, q = CopyDeadTable(r, i)
  PROVE  Restores(log, q, i)
<1>1. PICK e, t, x : e = Copied(r, i) /\ t = log[i].tbl /\ x = Put(e.dropped, t, NewOff(r.new))
  OBVIOUS
<1>2. /\ Shaped(e, log) /\ Alike(r, e) /\ e.tr = Put(r.tr, i, NewOff(r.new))
      /\ Longer(r.new.log, log[i], e.new.log) /\ e.new.live = r.new.live
  BY <1>1, CopiedDoes
<1>3. q = [e EXCEPT !.dropped = x]
  <2>1. r.old = log
    BY ShapedIs DEF RFits, RCore
  <2> QED
    BY <1>1, <2>1 DEF CopyDeadTable
<1>4. /\ q.new = e.new /\ q.tr = e.tr /\ q.failed = e.failed
      /\ q.name = e.name /\ q.dropped = x /\ q.renamed = e.renamed
      /\ q.top = e.top /\ q.alerts = e.alerts
  BY <1>2, <1>3, WithDroppedIs
<1>5. /\ i \in Nat \ {0} /\ i - 1 \in Nat /\ 1 .. i = 1 .. i - 1 \cup {i} /\ log[i] \in Block
      /\ KeptAt(log, i) = KeptAt(log, i - 1)
  <2>1. Kept(log) \cap {i} = {}
    BY DEF Kept
  <2>2. /\ i \in Nat \ {0} /\ i - 1 \in Nat /\ 1 .. i = 1 .. i - 1 \cup {i} /\ log[i] \in Block
        /\ KeptAt(log, i) = KeptAt(log, i - 1) \cup (Kept(log) \cap {i})
    BY KeptIs
  <2> QED
    BY <2>1, <2>2
<1>6. /\ Copies(log, r, i - 1) /\ Len(r.new.log) = i - 1 /\ r.new.log \in Logs /\ DbFits(r.new)
  BY DEF Restores, Copies, DbFits, LogFits, RFits, RCore
<1>7. /\ Grown(r.new.log, q.new.log) /\ Len(q.new.log) = i /\ q.new.log[i] = log[i]
      /\ q.tr = Put(r.tr, i, i)
  <2>1. Len(r.new.log) + 1 = i
    BY <1>5, <1>6
  <2>2. Longer(r.new.log, log[i], q.new.log)
    BY <1>2, <1>4
  <2>3. Grown(r.new.log, q.new.log)
    BY <1>5, <1>6, <2>2, LongerIsGrown
  <2> QED
    BY <1>2, <1>4, <2>1, <2>2, <2>3 DEF Longer, NewOff
<1>8. AlikeBlock(log[i], q.new.log[i])
  BY <1>5, <1>7, AlikeSelf
<1>9. Copies(log, q, i)
  <2>1. q.new.live = KeptAt(log, i) /\ q.new.drops = {}
    BY <1>2, <1>4, <1>5, <1>6 DEF Copies, Alike
  <2> QED
    BY <1>6, <1>7, <1>8, <2>1, CopiesStep
<1>10. TablesAt(log, i) = TablesAt(log, i - 1)
  BY <1>5 DEF TablesAt, AmongOf
<1>11. NamesAre(log, q, i)
  BY <1>2, <1>4, <1>10 DEF NamesAre, Restores, Alike
<1>12. DroppedAre(log, q, i)
  <2> SUFFICES ASSUME NEW u \in DOMAIN x
               PROVE  \E o \in 1 .. i :
                        /\ o \in Deleted(log) /\ log[o].kind = "tables" /\ log[o].tbl = u
                        /\ \A p \in o + 1 .. i : log[p].kind = "tables" => log[p].tbl # u
    BY <1>4 DEF DroppedAre
  <2>1. CASE u = t
    <3>1. i \in 1 .. i /\ \A p \in i + 1 .. i : FALSE
      BY <1>5
    <3> QED
      BY <1>1, <2>1, <3>1
  <2>2. CASE u # t
    <3>1. u \in DOMAIN r.dropped
      BY <1>1, <1>2, <2>2 DEF Put, Alike
    <3> QED
      BY <1>1, <2>2, <3>1, DroppedStay DEF Restores
  <2> QED
    BY <2>1, <2>2
<1>13. RowsAre(log, q, i)
  <2>1. q.new.rows = RowsAt(log, i)
    BY <1>2, <1>4, QuietRows DEF Restores, RowsAre, Alike
  <2>2. \A o \in TablesAt(log, i - 1) : q.new.log[o] = r.new.log[o]
    BY <1>2, <1>4, <1>6 DEF Longer, TablesAt, AmongOf, KeptAt
  <2> QED
    BY <1>2, <1>4, <1>10, <2>1, <2>2 DEF Restores, RowsAre, Alike
<1> QED
  BY <1>2, <1>4, <1>9, <1>11, <1>12, <1>13 DEF Restores, Alike

\* The number and the name of a table that is kept are those of no table before.
LEMMA NoClash ==
  ASSUME NEW log, Restorable(log), NEW i \in Kept(log), log[i].kind = "tables"
  PROVE  \A o \in TablesAt(log, i - 1) : log[o].tbl # log[i].tbl /\ log[o].name # log[i].name
<1>1. i \in DOMAIN log /\ i \notin KeptAt(log, i - 1) /\ KeptAt(log, i - 1) \subseteq Kept(log)
  BY KeptIs DEF Restorable, Kept, Schema
<1> QED
  BY <1>1 DEF Restorable, Consistent, TablesApart, TablesAt, AmongOf

\* A table that is kept has no entries before its own block.
LEMMA NoRowsYet ==
  ASSUME NEW log, Restorable(log), NEW i \in Kept(log), log[i].kind = "tables"
  PROVE  {x \in RowsAt(log, i - 1) : x[1] = log[i].tbl} = {}
<1> SUFFICES ASSUME NEW x \in RowsAt(log, i - 1), x[1] = log[i].tbl PROVE FALSE
  OBVIOUS
<1>1. PICK p \in HeldAt(log, i - 1) : x = <<log[p].tbl, p>>
  BY DEF RowsAt
<1>2. PICK c \in Commits(log), o \in AmongOf(log, Kept(log), "tables") :
        c <= i - 1 /\ o < c /\ log[o].tbl = log[p].tbl
  BY DEF HeldAt
<1>3. o \in DOMAIN log /\ c \in DOMAIN log /\ i \in DOMAIN log /\ DOMAIN log \subseteq Nat
  BY LogIs DEF Restorable, LogFits, AmongOf, Kept, Schema, Commits
<1>4. o # i
  BY <1>2, <1>3
<1>5. log[o].tbl = log[i].tbl
  BY <1>1, <1>2
<1> QED
  BY <1>4, <1>5 DEF Restorable, Consistent, TablesApart, AmongOf

LEMMA EnterTableStep ==
  ASSUME NEW log, Restorable(log), NEW i \in Kept(log), NEW r, RFits(r, log, i - 1),
         Restores(log, r, i - 1), log[i].kind = "tables", NEW t, t = log[i].tbl,
         NEW q, q = EnterTable([Copied(r, i) EXCEPT !.dropped = Drop(@, t)], NewOff(r.new))
  PROVE  Restores(log, q, i)
<1>1. PICK e, x, f : /\ e = Copied(r, i) /\ x = Drop(e.dropped, t)
                     /\ f = [e EXCEPT !.dropped = x]
  OBVIOUS
<1>2. LogFits(log) /\ i \in DOMAIN log
  BY DEF Restorable, Kept, Schema
<1>3. /\ Shaped(e, log) /\ DbFits(e.new) /\ Alike(r, e) /\ e.tr = Put(r.tr, i, NewOff(r.new))
      /\ Longer(r.new.log, log[i], e.new.log) /\ e.new.live = r.new.live
  BY <1>1, <1>2, CopiedDoes
<1>4. /\ Shaped(f, log) /\ f.new = e.new /\ f.tr = e.tr /\ f.failed = e.failed
      /\ f.name = e.name /\ f.dropped = x /\ f.renamed = e.renamed
      /\ f.top = e.top /\ f.alerts = e.alerts
  BY <1>1, <1>3, WithDroppedIs
<1>5. /\ i \in Nat \ {0} /\ i - 1 \in Nat /\ 1 .. i = 1 .. i - 1 \cup {i} /\ log[i] \in Block
      /\ KeptAt(log, i) = KeptAt(log, i - 1) \cup (Kept(log) \cap {i})
  BY <1>2, KeptIs
<1>6. KeptAt(log, i) = KeptAt(log, i - 1) \cup {i}
  BY <1>5
<1>7. /\ Copies(log, r, i - 1) /\ Len(r.new.log) = i - 1 /\ r.new.log \in Logs /\ DbFits(r.new)
  BY DEF Restores, Copies, DbFits, LogFits, RFits, RCore
<1>8. Len(r.new.log) + 1 = i
  BY <1>5, <1>7
<1>9. /\ Grown(r.new.log, e.new.log) /\ Len(e.new.log) = i /\ e.new.log[i] = log[i]
      /\ e.new.log \in Logs /\ DOMAIN e.new.log = 1 .. i
      /\ \A j \in 1 .. i - 1 : e.new.log[j] = r.new.log[j]
  <2>1. Grown(r.new.log, e.new.log)
    BY <1>3, <1>5, <1>7, LongerIsGrown
  <2> QED
    BY <1>3, <1>7, <1>8, <2>1, LogIs DEF Longer
<1>10. Entered(f, log, i, log[i], q)
  <2>1. q = EnterTable(f, i)
    BY <1>1, <1>8 DEF NewOff
  <2>2. i \in DOMAIN f.new.log /\ f.new.log[i] = log[i] /\ DbFits(f.new)
    BY <1>3, <1>4, <1>5, <1>9
  <2>3. i \notin f.new.drops
    BY <1>3, <1>4, <1>7 DEF Alike, Copies
  <2> QED
    BY <1>4, <2>1, <2>2, <2>3, EnterTableIs
<1>11. ~ Clash(f.new, log[i])
  <2> PICK k : k = i - 1
    OBVIOUS
  <2>1. SchemaRead(log, e.new, k)
    <3>1. \A j \in 1 .. k : AlikeBlock(log[j], e.new.log[j])
      BY <1>7, <1>9 DEF Copies
    <3>2. k \in Nat /\ k <= Len(log)
      BY <1>2, <1>5, KeptIs
    <3>3. e.new.live = KeptAt(log, k)
      BY <1>3, <1>7 DEF Copies
    <3> QED
      BY <1>2, <3>1, <3>2, <3>3, SchemaReadIs
  <2>2. \A o \in TablesAt(log, k) : log[o].tbl # log[i].tbl /\ log[o].name # log[i].name
    BY NoClash
  <2> QED
    BY <1>4, <2>1, <2>2 DEF Clash, SchemaRead
<1>12. /\ q.tr = Put(r.tr, i, i) /\ q.name = Put(r.name, t, log[i].name)
       /\ q.failed = r.failed /\ q.dropped = Drop(r.dropped, t) /\ q.renamed = r.renamed
       /\ q.top = (IF t > r.top THEN t ELSE r.top) /\ q.alerts = r.alerts
       /\ q.new.live = KeptAt(log, i) /\ q.new.rows = r.new.rows /\ q.new.drops = r.new.drops
       /\ Recounted(e.new.log, q.new.log)
       /\ q.new.log = [e.new.log EXCEPT ![i] = [log[i] EXCEPT !.nrows = 0]]
  <2>1. q.tr = Put(r.tr, i, i)
    BY <1>3, <1>4, <1>8, <1>10 DEF Entered, NewOff
  <2>2. q.new.live = KeptAt(log, i)
    BY <1>3, <1>4, <1>6, <1>7, <1>10, <1>11 DEF Entered, Copies
  <2>3. q.alerts = r.alerts
    BY <1>3, <1>4, <1>10, <1>11 DEF Entered, Alike, Restores
  <2> QED
    BY <1>1, <1>3, <1>4, <1>10, <2>1, <2>2, <2>3 DEF Entered, Alike
<1>13. /\ q.new.log[i] = [log[i] EXCEPT !.nrows = 0]
       /\ \A j \in 1 .. i - 1 : q.new.log[j] = r.new.log[j]
  <2>1. PICK b : b = [log[i] EXCEPT !.nrows = 0]
    OBVIOUS
  <2>2. q.new.log = [e.new.log EXCEPT ![i] = b]
    BY <1>12, <2>1
  <2>3. i \in DOMAIN e.new.log /\ \A j \in 1 .. i - 1 : j \in DOMAIN e.new.log /\ j # i
    BY <1>5, <1>9
  <2>4. q.new.log[i] = b /\ \A j \in 1 .. i - 1 : q.new.log[j] = e.new.log[j]
    BY <2>2, <2>3
  <2> QED
    BY <1>9, <2>1, <2>4
<1>14. Copies(log, q, i)
  <2>1. Grown(r.new.log, q.new.log) /\ Len(q.new.log) = i
    <3>1. Grown(e.new.log, q.new.log)
      BY <1>9, <1>12, RecountedIsGrown
    <3>2. Len(q.new.log) = i
      BY <1>9, <1>12 DEF Recounted
    <3> QED
      BY <1>7, <1>9, <3>1, <3>2, GrownTransitive
  <2>2. AlikeBlock(log[i], q.new.log[i])
    <3>1. log[i] \in TablesBlock
      BY <1>5, BlockIs
    <3> QED
      BY <1>13, <3>1 DEF AlikeBlock, TablesBlock
  <2>3. q.new.drops = {}
    BY <1>7, <1>12 DEF Copies
  <2> QED
    BY <1>2, <1>7, <1>12, <2>1, <2>2, <2>3, CopiesStep
<1>15. TablesAt(log, i) = TablesAt(log, i - 1) \cup {i}
  BY <1>6 DEF TablesAt, AmongOf
<1>16. \A o \in TablesAt(log, i - 1) : log[o].tbl # t /\ o \in 1 .. i - 1 /\ log[o].tbl \in Nat
  <2>1. \A o \in TablesAt(log, i - 1) : log[o].tbl # t
    BY NoClash
  <2>2. \A o \in TablesAt(log, i - 1) : o \in 1 .. i - 1 /\ o \in DOMAIN log /\ log[o].kind = "tables"
    BY DEF TablesAt, AmongOf, KeptAt, Kept, Schema
  <2>3. \A o \in DOMAIN log : log[o] \in Block
    BY <1>2, LogIs DEF LogFits
  <2>4. \A o \in TablesAt(log, i - 1) : log[o].tbl \in Nat
    BY <2>2, <2>3, BlockIs DEF TablesBlock, Numbers
  <2> QED
    BY <2>1, <2>2, <2>4
<1>17. NamesAre(log, q, i)
  <2>1. /\ DOMAIN r.name = {log[o].tbl : o \in TablesAt(log, i - 1)}
        /\ \A o \in TablesAt(log, i - 1) : r.name[log[o].tbl] = log[o].name /\ log[o].tbl <= r.top
    BY DEF Restores, NamesAre
  <2>2. DOMAIN q.name = {log[o].tbl : o \in TablesAt(log, i)}
    BY <1>12, <1>15, <2>1 DEF Put
  <2>3. q.name[t] = log[i].name
    BY <1>12 DEF Put
  <2>4. \A o \in TablesAt(log, i - 1) : q.name[log[o].tbl] = log[o].name
    BY <1>12, <1>16, <2>1 DEF Put
  <2>5. t <= q.top /\ \A o \in TablesAt(log, i - 1) : log[o].tbl <= q.top
    <3>1. r.top \in Nat
      BY RebuildBounds DEF RFits, RCore, TN_VIEWS
    <3>2. t \in Nat
      BY <1>5, BlockIs DEF TablesBlock, Numbers
    <3> QED
      BY <1>12, <1>16, <2>1, <3>1, <3>2
  <2> QED
    BY <1>15, <2>2, <2>3, <2>4, <2>5 DEF NamesAre
<1>18. DroppedAre(log, q, i)
  <2> SUFFICES ASSUME NEW u \in DOMAIN q.dropped
               PROVE  \E o \in 1 .. i :
                        /\ o \in Deleted(log) /\ log[o].kind = "tables" /\ log[o].tbl = u
                        /\ \A p \in o + 1 .. i : log[p].kind = "tables" => log[p].tbl # u
    BY DEF DroppedAre
  <2>1. u \in DOMAIN r.dropped /\ u # t
    BY <1>12 DEF Drop
  <2> QED
    BY <1>2, <2>1, DroppedStay DEF Restores
<1>19. RowsAre(log, q, i)
  <2>1. q.new.rows = RowsAt(log, i) /\ q.new.rows = RowsAt(log, i - 1)
    BY <1>2, <1>12, QuietRows DEF Restores, RowsAre
  <2>2. \A o \in TablesAt(log, i - 1) :
          q.new.log[o].nrows = Cardinality({y \in q.new.rows : y[1] = log[o].tbl})
    BY <1>12, <1>13, <1>16 DEF Restores, RowsAre
  <2>3. q.new.log[i].nrows = Cardinality({y \in q.new.rows : y[1] = log[i].tbl})
    <3>1. {y \in q.new.rows : y[1] = log[i].tbl} = {}
      BY <2>1, NoRowsYet
    <3>2. q.new.log[i].nrows = 0
      <4>1. log[i] \in TablesBlock
        BY <1>5, BlockIs
      <4> QED
        BY <1>13, <4>1 DEF TablesBlock
    <3> QED
      BY <3>1, <3>2, FS_EmptySet
  <2> QED
    BY <1>15, <2>1, <2>2, <2>3 DEF RowsAre
<1> QED
  BY <1>12, <1>14, <1>17, <1>18, <1>19 DEF Restores

-----------------------------------------------------------------------------
(* Counting entries *)

LEMMA PairsCount ==
  ASSUME NEW A, IsFiniteSet(A), NEW u, NEW B, B = {<<u, p>> : p \in A}
  PROVE  IsFiniteSet(B) /\ Cardinality(B) = Cardinality(A)
<1>1. PICK f, g : f = [p \in A |-> <<u, p>>] /\ g = [b \in B |-> b[2]]
  OBVIOUS
<1>2. f \in [A -> B] /\ \A b \in B : \E a \in A : f[a] = b
  BY <1>1
<1>3. g \in [B -> A] /\ \A a \in A : \E b \in B : g[b] = a
  BY <1>1
<1>4. f \in Surjection(A, B) /\ g \in Surjection(B, A)
  BY <1>2, <1>3 DEF Surjection
<1>5. IsFiniteSet(B) /\ Cardinality(B) <= Cardinality(A)
  BY <1>4, FS_Surjection
<1>6. Cardinality(A) <= Cardinality(B)
  BY <1>4, <1>5, FS_Surjection
<1>7. Cardinality(A) \in Nat /\ Cardinality(B) \in Nat
  BY <1>5, FS_CardinalityType
<1> QED
  BY <1>5, <1>6, <1>7

LEMMA DisjointCount ==
  ASSUME NEW A, IsFiniteSet(A), NEW B, IsFiniteSet(B), A \cap B = {}
  PROVE  IsFiniteSet(A \cup B) /\ Cardinality(A \cup B) = Cardinality(A) + Cardinality(B)
<1>1. Cardinality(A \cup B) = Cardinality(A) + Cardinality(B) - Cardinality(A \cap B)
  BY FS_Union
<1>2. Cardinality(A) \in Nat /\ Cardinality(B) \in Nat /\ Cardinality(A \cap B) = 0
  BY FS_CardinalityType, FS_EmptySet
<1> QED
  BY <1>1, <1>2, FS_Union

LEMMA OffsetsFinite ==
  ASSUME NEW log, log \in Logs, NEW A, A \subseteq DOMAIN log
  PROVE  IsFiniteSet(A) /\ Cardinality(A) \in Nat
<1>1. DOMAIN log = 1 .. Len(log) /\ Len(log) \in Nat
  BY LogIs
<1>2. IsFiniteSet(1 .. Len(log))
  BY <1>1, FS_Interval
<1> QED
  BY <1>1, <1>2, FS_Subset, FS_CardinalityType

-----------------------------------------------------------------------------
(* A commit record is replayed *)

\* No record is created twice.
CreatedOnce(log) ==
  \A c \in Commits(log), d \in Commits(log) : c # d => log[c].creates \cap log[d].creates = {}

\* What a commit creates, is not deleted later, and is of a table there is.
WantedAt(log, i) ==
  {p \in log[i].creates \ Deleted(log) : \E o \in TablesAt(log, i - 1) : log[o].tbl = log[p].tbl}
WantedOf(log, i, t) == {p \in WantedAt(log, i) : log[p].tbl = t}

\* Of a table that is kept, the first index is before any commit, and kept.
LEMMA IndexOfKept ==
  ASSUME NEW log, Restorable(log), NEW o \in Kept(log), log[o].kind = "tables"
  PROVE  /\ o + 2 \in Kept(log) /\ log[o + 2].kind = "indexes" /\ log[o + 2].tbl = log[o].tbl
         /\ \A c \in Commits(log) : o < c => o + 2 < c
<1>1. o \in DOMAIN log /\ DOMAIN log = 1 .. Len(log) /\ Len(log) \in Nat
  BY LogIs DEF Restorable, LogFits, Kept, Schema
<1>2. log[o].tbl > TN_VIEWS
  BY DEF Restorable, Consistent, TablesApart, AmongOf
<1>3. Made(log, o)
  BY <1>1, <1>2 DEF Restorable, Plain
<1>4. /\ o + 2 \in DOMAIN log
      /\ log[o + 1].kind = "columns" /\ log[o + 1].tbl = log[o].tbl
      /\ log[o + 2].kind = "indexes" /\ log[o + 2].tbl = log[o].tbl
  BY <1>1, <1>3 DEF Restorable, MadeWhole, OfKind
<1>5. \A q \in o + 1 .. o + 2 : q = o + 1 \/ q = o + 2
  BY <1>1
<1>6. o + 2 \in Parts(log, "indexes", o)
  BY <1>1, <1>4, <1>5 DEF Parts
<1>7. o + 2 \notin Deleted(log)
  BY <1>1, <1>2, <1>6 DEF Restorable, Plain, Kept
<1>8. \A c \in Commits(log) : c # o + 1 /\ c # o + 2 /\ c \in Nat
  BY <1>1, <1>4 DEF Commits
<1>9. \A c \in Commits(log) : o < c => o + 2 < c
  BY <1>1, <1>8
<1>10. o + 2 \in Kept(log)
  BY <1>4, <1>7 DEF Kept, Schema, SchemaKinds
<1> QED
  BY <1>4, <1>9, <1>10

\* It enters each record it wants in the table it is of.
LEMMA WantedIs ==
  ASSUME NEW log, Restorable(log), NEW i \in DOMAIN log, NEW r, RFits(r, log, i - 1),
         Restores(log, r, i - 1), log[i].kind = "commit"
  PROVE  /\ Wanted(r, log[i].creates) = WantedAt(log, i)
         /\ \A p \in WantedAt(log, i) : Target(r, p) = {log[p].tbl}
<1>1. r.old = log /\ r.deletes = Deleted(log) /\ LogFits(log)
  BY ShapedIs DEF RFits, RCore, Restorable
<1>2. DOMAIN r.name = {log[o].tbl : o \in TablesAt(log, i - 1)}
  BY DEF Restores, NamesAre
<1>3. Wanted(r, log[i].creates) = WantedAt(log, i)
  BY <1>1, <1>2 DEF Wanted, WantedAt
<1>4. ASSUME NEW p \in WantedAt(log, i)
      PROVE  Target(r, p) = {log[p].tbl}
  <2> PICK k : k = i - 1
    OBVIOUS
  <2>1. SchemaRead(log, r.new, k)
    <3>1. k \in Nat /\ k <= Len(log) /\ Copies(log, r, k)
      BY <1>1, KeptIs DEF Restores
    <3> QED
      BY <1>1, <3>1, NewSchemaIs
  <2>2. PICK o \in TablesAt(log, k) : log[o].tbl = log[p].tbl
    BY DEF WantedAt
  <2>3. r.name[log[p].tbl] = log[o].name
    BY <2>2 DEF Restores, NamesAre
  <2>4. \A x \in TablesAt(log, k) : log[x].name = log[o].name => x = o
    <3>1. \A x \in TablesAt(log, k) : x \in AmongOf(log, Kept(log), "tables")
      BY DEF TablesAt, AmongOf, KeptAt
    <3> QED
      BY <3>1 DEF Restorable, Consistent, TablesApart
  <2>5. TablesNamed(r.new, log[o].name) = {log[o].tbl}
    BY <2>1, <2>4 DEF SchemaRead
  <2> QED
    BY <1>1, <2>2, <2>3, <2>5 DEF Target
<1> QED
  BY <1>3, <1>4

LEMMA HeldGrows ==
  ASSUME NEW log, LogFits(log), CreatedOnce(log), NEW i \in DOMAIN log, log[i].kind = "commit"
  PROVE  /\ HeldAt(log, i) = HeldAt(log, i - 1) \cup WantedAt(log, i)
         /\ HeldAt(log, i - 1) \cap WantedAt(log, i) = {}
<1>1. /\ i \in Nat /\ i - 1 \in Nat /\ DOMAIN log = 1 .. Len(log) /\ i \in Commits(log)
      /\ log[i].creates \subseteq DOMAIN log
  <2>1. i \in Commits(log)
    BY DEF Commits
  <2>2. log[i].creates \subseteq OfKind(log, "data")
    BY <2>1 DEF LogFits
  <2> QED
    BY <2>1, <2>2, KeptIs DEF OfKind
<1>2. Commits(log) \subseteq Nat /\ Kept(log) \subseteq DOMAIN log
  BY <1>1 DEF Commits, Kept, Schema
<1>3. \A c \in Commits(log) : c <= i <=> (c <= i - 1 \/ c = i)
  BY <1>1, <1>2
<1>4. \A o \in AmongOf(log, Kept(log), "tables") : o < i <=> o \in TablesAt(log, i - 1)
  BY <1>1, <1>2 DEF AmongOf, TablesAt, KeptAt
<1>5. \A o \in TablesAt(log, i - 1) : o \in AmongOf(log, Kept(log), "tables") /\ o < i
  <2>1. \A o \in TablesAt(log, i - 1) : o \in AmongOf(log, Kept(log), "tables")
    BY DEF TablesAt, AmongOf, KeptAt
  <2> QED
    BY <1>4, <2>1
<1>6. HeldAt(log, i - 1) \cup WantedAt(log, i) \subseteq HeldAt(log, i)
  <2>1. HeldAt(log, i - 1) \subseteq HeldAt(log, i)
    BY <1>3 DEF HeldAt
  <2>2. ASSUME NEW p \in WantedAt(log, i) PROVE p \in HeldAt(log, i)
    <3>1. PICK o \in TablesAt(log, i - 1) : log[o].tbl = log[p].tbl
      BY DEF WantedAt
    <3>2. o \in AmongOf(log, Kept(log), "tables") /\ o < i
      BY <1>5
    <3>3. p \in log[i].creates /\ p \in DOMAIN log \ Deleted(log) /\ i <= i
      BY <1>1 DEF WantedAt
    <3> QED
      BY <1>1, <3>1, <3>2, <3>3 DEF HeldAt
  <2> QED
    BY <2>1, <2>2
<1>7. ASSUME NEW p \in HeldAt(log, i)
      PROVE  p \in HeldAt(log, i - 1) \cup WantedAt(log, i)
  <2>1. PICK c \in Commits(log), o \in AmongOf(log, Kept(log), "tables") :
          c <= i /\ p \in log[c].creates /\ o < c /\ log[o].tbl = log[p].tbl
    BY DEF HeldAt
  <2>2. p \in DOMAIN log \ Deleted(log)
    BY DEF HeldAt
  <2>3. CASE c <= i - 1
    BY <2>1, <2>2, <2>3 DEF HeldAt
  <2>4. CASE c = i
    <3>1. o \in TablesAt(log, i - 1)
      BY <1>4, <2>1, <2>4
    <3> QED
      BY <2>1, <2>2, <2>4, <3>1 DEF WantedAt
  <2> QED
    BY <1>3, <2>1, <2>3, <2>4
<1>8. ASSUME NEW p \in HeldAt(log, i - 1), p \in WantedAt(log, i)
      PROVE  FALSE
  <2>1. PICK c \in Commits(log) : c <= i - 1 /\ p \in log[c].creates
    BY DEF HeldAt
  <2>2. p \in log[i].creates
    BY <1>8 DEF WantedAt
  <2>3. c # i
    BY <1>1, <2>1
  <2> QED
    BY <1>1, <2>1, <2>2, <2>3 DEF CreatedOnce
<1> QED
  BY <1>6, <1>7, <1>8

HeldOfAt(log, i, t) == {p \in HeldAt(log, i) : log[p].tbl = t}

LEMMA RowsCount ==
  ASSUME NEW log, LogFits(log), NEW i, NEW t
  PROVE  /\ IsFiniteSet(HeldOfAt(log, i, t))
         /\ Cardinality({x \in RowsAt(log, i) : x[1] = t}) = Cardinality(HeldOfAt(log, i, t))
<1>1. IsFiniteSet(HeldOfAt(log, i, t))
  <2>1. HeldOfAt(log, i, t) \subseteq DOMAIN log /\ log \in Logs
    BY DEF HeldOfAt, HeldAt, LogFits
  <2> QED
    BY <2>1, OffsetsFinite
<1>2. {x \in RowsAt(log, i) : x[1] = t} = {<<t, p>> : p \in HeldOfAt(log, i, t)}
  BY DEF RowsAt, HeldOfAt
<1> QED
  BY <1>1, <1>2, PairsCount

LEMMA ImageIs ==
  ASSUME NEW log, NEW r, NEW k, Copies(log, r, k), NEW X, X \subseteq 1 .. k
  PROVE  ImageOf(r.tr, X) = X
<1>1. \A x \in X : r.tr[x] = x
  BY DEF Copies
<1> QED
  BY <1>1 DEF ImageOf

\* The entries that a commit adds.
LEMMA EntriesAre ==
  ASSUME NEW log, Restorable(log), NEW i \in DOMAIN log, NEW r, RFits(r, log, i - 1),
         Restores(log, r, i - 1), log[i].kind = "commit"
  PROVE  /\ \A t : Into(r, log[i].creates, t) = WantedOf(log, i, t)
         /\ Entries(r, log[i].creates) = {<<log[p].tbl, p>> : p \in WantedAt(log, i)}
<1>1. LogFits(log) /\ i \in Nat /\ i - 1 \in Nat /\ i - 1 <= Len(log) /\ i \in Commits(log)
  <2>1. LogFits(log)
    BY DEF Restorable
  <2> QED
    BY <2>1, KeptIs DEF Commits
<1>2. Wanted(r, log[i].creates) = WantedAt(log, i)
  BY WantedIs
<1>3. \A p \in WantedAt(log, i) : Target(r, p) = {log[p].tbl}
  BY WantedIs
<1>4. ASSUME NEW t PROVE Into(r, log[i].creates, t) = WantedOf(log, i, t)
  BY <1>2, <1>3 DEF Into, WantedOf
<1>5. WantedAt(log, i) \subseteq 1 .. i - 1
  BY <1>1 DEF WantedAt, LogFits
<1>6. \A X : X \subseteq 1 .. i - 1 => ImageOf(r.tr, X) = X
  <2>1. Copies(log, r, i - 1)
    BY DEF Restores
  <2> QED
    BY <2>1, ImageIs
<1>7. \A t : ImageOf(r.tr, Into(r, log[i].creates, t)) = WantedOf(log, i, t)
  <2>1. \A t : WantedOf(log, i, t) \subseteq 1 .. i - 1
    BY <1>5 DEF WantedOf
  <2> QED
    BY <1>4, <1>6, <2>1
<1>8. \A o \in TablesAt(log, i - 1) :
        log[o].tbl \in {t \in Tables(r.new) : LiveOf(r.new, "indexes", t) # {}}
  <2> PICK k : k = i - 1
    OBVIOUS
  <2>1. SchemaRead(log, r.new, k)
    <3>1. Copies(log, r, k)
      BY DEF Restores
    <3> QED
      BY <1>1, <3>1, NewSchemaIs
  <2> SUFFICES ASSUME NEW o \in TablesAt(log, k)
               PROVE  log[o].tbl \in {t \in Tables(r.new) : LiveOf(r.new, "indexes", t) # {}}
    OBVIOUS
  <2>2. o \in Kept(log) /\ log[o].kind = "tables" /\ o <= k /\ o \in Nat
    BY <1>1 DEF TablesAt, AmongOf, KeptAt
  <2>3. o < i
    BY <1>1, <2>2
  <2>4. /\ o + 2 \in Kept(log) /\ log[o + 2].kind = "indexes" /\ log[o + 2].tbl = log[o].tbl
        /\ o + 2 < i
    BY <1>1, <2>2, <2>3, IndexOfKept
  <2>5. o + 2 \in KeptAt(log, k)
    BY <1>1, <2>2, <2>4 DEF KeptAt
  <2>6. o + 2 \in LiveOf(r.new, "indexes", log[o].tbl)
    BY <2>1, <2>4, <2>5 DEF SchemaRead, AmongOf
  <2>7. log[o].tbl \in Tables(r.new)
    BY <2>1 DEF SchemaRead
  <2> QED
    BY <2>6, <2>7
<1>9. Entries(r, log[i].creates) \subseteq {<<log[p].tbl, p>> : p \in WantedAt(log, i)}
  <2> SUFFICES ASSUME NEW t, NEW x \in {t} \X ImageOf(r.tr, Into(r, log[i].creates, t))
               PROVE  x \in {<<log[p].tbl, p>> : p \in WantedAt(log, i)}
    BY DEF Entries
  <2>1. PICK p \in WantedOf(log, i, t) : x = <<t, p>>
    BY <1>7
  <2> QED
    BY <2>1 DEF WantedOf
<1>10. ASSUME NEW p \in WantedAt(log, i)
       PROVE  <<log[p].tbl, p>> \in Entries(r, log[i].creates)
  <2>1. PICK o \in TablesAt(log, i - 1) : log[o].tbl = log[p].tbl
    BY DEF WantedAt
  <2>2. log[p].tbl \in {t \in Tables(r.new) : LiveOf(r.new, "indexes", t) # {}}
    BY <1>8, <2>1
  <2>3. p \in ImageOf(r.tr, Into(r, log[i].creates, log[p].tbl))
    BY <1>7 DEF WantedOf
  <2>4. <<log[p].tbl, p>> \in {log[p].tbl} \X ImageOf(r.tr, Into(r, log[i].creates, log[p].tbl))
    BY <2>3
  <2> QED
    BY <2>2, <2>4 DEF Entries
<1> QED
  BY <1>4, <1>9, <1>10

LEMMA CommitStep ==
  ASSUME NEW log, Restorable(log), CreatedOnce(log), NEW i \in DOMAIN log, NEW r, RFits(r, log, i - 1),
         Restores(log, r, i - 1), log[i].kind = "commit", NEW q, q = CopyCommit(r, i)
  PROVE  Restores(log, q, i)
<1>1. LogFits(log) /\ i \in Commits(log) /\ log[i].kind # "tables"
  BY DEF Restorable, Commits
<1>2. /\ i \in Nat \ {0} /\ i - 1 \in Nat /\ 1 .. i = 1 .. i - 1 \cup {i} /\ log[i] \in Block
      /\ KeptAt(log, i) = KeptAt(log, i - 1) \cup (Kept(log) \cap {i})
      /\ Len(log) \in Nat /\ DOMAIN log = 1 .. Len(log)
  BY <1>1, KeptIs
<1>3. KeptAt(log, i) = KeptAt(log, i - 1)
  <2>1. Kept(log) \cap {i} = {}
    BY DEF Kept, Schema, SchemaKinds
  <2> QED
    BY <1>2, <2>1
<1>4. /\ Copies(log, r, i - 1) /\ Len(r.new.log) = i - 1 /\ r.new.log \in Logs /\ DbFits(r.new)
      /\ r.failed = FALSE /\ r.new.live = KeptAt(log, i - 1) /\ r.new.drops = {}
  BY DEF Restores, Copies, DbFits, LogFits, RFits, RCore
<1>5. log[i].creates \subseteq 1 .. i - 1 /\ log[i].deletes \subseteq 1 .. i - 1
  BY <1>1 DEF LogFits
<1>6. CommitCopied(r, log, i, q)
  <2>1. log[i].creates \cup log[i].deletes \subseteq DOMAIN r.tr
    BY <1>4, <1>5 DEF Copies
  <2> QED
    BY <1>1, <1>4, <2>1, CopyCommitFits
<1>7. Len(r.new.log) + 1 = i
  BY <1>2, <1>4
<1>8. q.new.log[i] = log[i]
  <2>1. ImageOf(r.tr, log[i].creates) = log[i].creates /\ ImageOf(r.tr, log[i].deletes) = log[i].deletes
    <3>1. Copies(log, r, i - 1)
      BY <1>4
    <3>2. \A X : X \subseteq 1 .. i - 1 => ImageOf(r.tr, X) = X
      BY <3>1, ImageIs
    <3> QED
      BY <1>5, <3>2
  <2>2. q.new.log[i] = CommitRec(log[i].creates, log[i].deletes)
    BY <1>6, <1>7, <2>1 DEF CommitCopied
  <2>3. log[i] \in CommitBlock
    BY <1>2, BlockIs
  <2> QED
    BY <2>2, <2>3 DEF CommitBlock, CommitRec
<1>9. Copies(log, q, i)
  <2>1. /\ Grown(r.new.log, q.new.log) /\ Len(q.new.log) = i /\ q.tr = Put(r.tr, i, i)
        /\ q.new.live = KeptAt(log, i) /\ q.new.drops = {}
    BY <1>3, <1>4, <1>6, <1>7 DEF CommitCopied
  <2>2. AlikeBlock(log[i], q.new.log[i])
    BY <1>2, <1>8, AlikeSelf
  <2> QED
    BY <1>1, <1>4, <2>1, <2>2, CopiesStep
<1>10. TablesAt(log, i) = TablesAt(log, i - 1)
  BY <1>3 DEF TablesAt, AmongOf
<1>11. /\ q.failed = FALSE /\ DOMAIN q.renamed = {}
       /\ q.name = r.name /\ q.dropped = r.dropped /\ q.top = r.top
  BY <1>6 DEF CommitCopied, Restores
<1>12. q.alerts = FALSE
  <2>1. ~ \E o \in Wanted(r, log[i].creates) : Target(r, o) = {}
    BY WantedIs
  <2>2. r.alerts = FALSE
    BY DEF Restores
  <2> QED
    BY <1>6, <2>1, <2>2 DEF CommitCopied
<1>13. NamesAre(log, q, i)
  BY <1>10, <1>11 DEF NamesAre, Restores
<1>14. DroppedAre(log, q, i)
  <2> SUFFICES ASSUME NEW u \in DOMAIN r.dropped
               PROVE  \E o \in 1 .. i :
                        /\ o \in Deleted(log) /\ log[o].kind = "tables" /\ log[o].tbl = u
                        /\ \A p \in o + 1 .. i : log[p].kind = "tables" => log[p].tbl # u
    BY <1>11 DEF DroppedAre
  <2> QED
    BY <1>1, DroppedStay DEF Restores
<1>15. /\ HeldAt(log, i) = HeldAt(log, i - 1) \cup WantedAt(log, i)
       /\ HeldAt(log, i - 1) \cap WantedAt(log, i) = {}
  BY <1>1, HeldGrows
<1>16. q.new.rows = RowsAt(log, i)
  <2>1. r.new.rows = RowsAt(log, i - 1)
    BY DEF Restores, RowsAre
  <2>2. Entries(r, log[i].creates) = {<<log[p].tbl, p>> : p \in WantedAt(log, i)}
    BY EntriesAre
  <2>3. RowsAt(log, i) = RowsAt(log, i - 1) \cup {<<log[p].tbl, p>> : p \in WantedAt(log, i)}
    BY <1>15 DEF RowsAt
  <2> QED
    BY <1>6, <2>1, <2>2, <2>3 DEF CommitCopied
<1>17. ASSUME NEW o \in TablesAt(log, i)
       PROVE  q.new.log[o].nrows = Cardinality({x \in q.new.rows : x[1] = log[o].tbl})
  <2>1. PICK t, n, m : /\ t = log[o].tbl /\ n = Cardinality(HeldOfAt(log, i - 1, t))
                       /\ m = Cardinality(WantedOf(log, i, t))
    OBVIOUS
  <2>2. r.new.log[o].nrows = n
    <3>1. r.new.log[o].nrows = Cardinality({x \in r.new.rows : x[1] = t})
      BY <1>10, <2>1 DEF Restores, RowsAre
    <3>2. r.new.rows = RowsAt(log, i - 1)
      BY DEF Restores, RowsAre
    <3> QED
      BY <1>1, <2>1, <3>1, <3>2, RowsCount
  <2>3. o \in KeptAt(log, i - 1) /\ o \in 1 .. i - 1 /\ log[o].kind = "tables"
    BY <1>10 DEF TablesAt, AmongOf, KeptAt
  <2>4. /\ o \in DOMAIN r.new.log /\ r.new.log[o].kind = "tables" /\ o \in r.new.live
        /\ r.new.log[o].tbl = t /\ t \in Tables(r.new) /\ r.new.log[o] \in TablesBlock
    <3> PICK k : k = i - 1
      OBVIOUS
    <3>1. SchemaRead(log, r.new, k)
      <4>1. k <= Len(log)
        BY <1>2
      <4> QED
        BY <1>1, <1>2, <1>4, <4>1, NewSchemaIs
    <3>2. r.new.log[o].kind = "tables" /\ r.new.log[o].tbl = t
      BY <2>1, <2>3, <3>1 DEF SchemaRead
    <3>3. o \in DOMAIN r.new.log /\ r.new.log[o] \in Block
      BY <1>4, <2>3, LogIs
    <3>4. o \in r.new.live /\ t \in Tables(r.new)
      BY <1>4, <1>10, <2>1, <2>3, <3>1 DEF SchemaRead
    <3> QED
      BY <3>2, <3>3, <3>4, BlockIs
  <2>5. [u \in Tables(r.new) |-> Cardinality(Into(r, log[i].creates, u))][t] = m
    BY <2>1, <2>4, EntriesAre
  <2>6. q.new.log[o].nrows = n + m
    <3>1. PICK h : h = [u \in Tables(r.new) |-> Cardinality(Into(r, log[i].creates, u))]
      OBVIOUS
    <3>2. q.new.log[o] = [r.new.log[o] EXCEPT !.nrows =
                            IF o \in r.new.live THEN r.new.log[o].nrows + h[r.new.log[o].tbl]
                            ELSE r.new.log[o].nrows]
      BY <1>6, <2>4, <3>1 DEF CommitCopied, CountedBy
    <3>3. q.new.log[o] = [r.new.log[o] EXCEPT !.nrows = n + m]
      BY <2>2, <2>4, <2>5, <3>1, <3>2
    <3> QED
      BY <2>4, <3>3 DEF TablesBlock
  <2>7. HeldOfAt(log, i, t) = HeldOfAt(log, i - 1, t) \cup WantedOf(log, i, t)
        /\ HeldOfAt(log, i - 1, t) \cap WantedOf(log, i, t) = {}
    BY <1>15 DEF HeldOfAt, WantedOf
  <2>8. IsFiniteSet(HeldOfAt(log, i - 1, t)) /\ IsFiniteSet(WantedOf(log, i, t))
    <3>1. WantedOf(log, i, t) \subseteq DOMAIN log /\ log \in Logs
      BY <1>1, <1>2, <1>5 DEF WantedOf, WantedAt, LogFits
    <3> QED
      BY <1>1, <3>1, OffsetsFinite, RowsCount
  <2>9. Cardinality(HeldOfAt(log, i, t)) = n + m
    BY <2>1, <2>7, <2>8, DisjointCount
  <2> QED
    BY <1>1, <1>16, <2>1, <2>6, <2>9, RowsCount
<1>18. RowsAre(log, q, i)
  BY <1>16, <1>17 DEF RowsAre
<1> QED
  BY <1>9, <1>11, <1>12, <1>13, <1>14, <1>18 DEF Restores

-----------------------------------------------------------------------------
(* The replay of a Plain file *)

LEMMA BlockStep ==
  ASSUME NEW log, Restorable(log), CreatedOnce(log), NEW i \in DOMAIN log, NEW r, RFits(r, log, i - 1),
         Restores(log, r, i - 1), NEW q, q = CopyBlock(r, i)
  PROVE  Restores(log, q, i)
<1>1. /\ r.old = log /\ r.deletes = Deleted(log) /\ LogFits(log) /\ r.failed = FALSE
      /\ r.renamed = r.renamed /\ DOMAIN r.renamed = {}
  BY ShapedIs DEF RFits, RCore, Restorable, Restores
<1>2. log[i] \in Block
  BY <1>1, KeptIs
<1>3. ~ Hidden(r.old[i])
  BY <1>1 DEF Hidden, Restorable, NoneHidden, OfKind
<1>4. CASE log[i].kind = "data"
  <2>1. i \notin Kept(log)
    BY <1>4 DEF Kept, Schema, SchemaKinds
  <2>2. q = Copied(r, i)
    BY <1>1, <1>3, <1>4 DEF CopyBlock
  <2> QED
    BY <1>1, <1>4, <2>1, <2>2, DataStep
<1>5. CASE log[i].kind = "columns"
  <2>1. q = CopyColumn(r, i)
    BY <1>1, <1>3, <1>5 DEF CopyBlock
  <2> QED
    BY <1>5, <2>1, ColumnStep
<1>6. CASE log[i].kind = "indexes"
  <2>1. q = CopyIndex(r, i)
    BY <1>1, <1>3, <1>6 DEF CopyBlock
  <2> QED
    BY <1>6, <2>1, IndexStep
<1>7. CASE log[i].kind = "commit"
  <2>1. q = CopyCommit(r, i)
    BY <1>1, <1>3, <1>7 DEF CopyBlock
  <2> QED
    BY <1>7, <2>1, CommitStep
<1>8. CASE log[i].kind = "tables"
  <2>1. q = CopyTable(r, i)
    BY <1>1, <1>3, <1>8 DEF CopyBlock, Hidden
  <2>2. CASE i \in Deleted(log)
    <3>1. q = CopyDeadTable(r, i)
      BY <1>1, <2>1, <2>2 DEF CopyTable
    <3> QED
      BY <1>1, <1>8, <2>2, <3>1, DeadTableStep
  <2>3. CASE i \notin Deleted(log)
    <3>1. q = EnterTable([Copied(r, i) EXCEPT !.dropped = Drop(@, log[i].tbl)], NewOff(r.new))
      BY <1>1, <2>1, <2>3 DEF CopyTable
    <3>2. i \in Kept(log)
      BY <1>8, <2>3 DEF Kept, Schema, SchemaKinds
    <3> QED
      BY <1>8, <3>1, <3>2, EnterTableStep
  <2> QED
    BY <2>2, <2>3
<1> QED
  BY <1>2, <1>4, <1>5, <1>6, <1>7, <1>8, BlockIs

LEMMA NothingRestored ==
  ASSUME NEW log, LogFits(log), NEW r, r = NothingCopied(log)
  PROVE  Restores(log, r, 0)
<1>1. /\ r.new = EmptyDb /\ DOMAIN r.tr = {} /\ DOMAIN r.name = {}
      /\ DOMAIN r.dropped = {} /\ DOMAIN r.renamed = {} /\ r.failed = FALSE /\ r.alerts = FALSE
  BY NothingCopiedIs
<1>2. KeptAt(log, 0) = {} /\ TablesAt(log, 0) = {}
  BY DEF KeptAt, TablesAt, AmongOf
<1>3. RowsAt(log, 0) = {}
  <2>1. \A c \in Commits(log) : c \in Nat \ {0}
    BY LogIs DEF Commits, LogFits
  <2>2. HeldAt(log, 0) = {}
    BY <2>1 DEF HeldAt
  <2> QED
    BY <2>2 DEF RowsAt
<1>4. Copies(log, r, 0)
  BY <1>1, <1>2 DEF Copies, EmptyDb
<1>5. NamesAre(log, r, 0) /\ DroppedAre(log, r, 0)
  BY <1>1, <1>2 DEF NamesAre, DroppedAre
<1>6. RowsAre(log, r, 0)
  BY <1>1, <1>2, <1>3 DEF RowsAre, EmptyDb
<1> QED
  BY <1>1, <1>4, <1>5, <1>6 DEF Restores

\* A replay of a Plain file does not fail, ignores nothing, and has the
\* schema records that are not deleted and the records of their tables.
LEMMA PlainReplay ==
  ASSUME NEW log, Restorable(log), CreatedOnce(log), NEW q, q = Replayed(log)
  PROVE  Restores(log, q, Len(log))
<1>1. LogFits(log) /\ Len(log) \in Nat /\ DOMAIN log = 1 .. Len(log)
  BY LogIs DEF Restorable, LogFits
<1>2. PICK r : Replaying(log, Len(log), r) /\ q = r[Len(log)]
  BY <1>1, ReplayedIs
<1>3. PICK T : T = {i \in 0 .. Len(log) : ~ Restores(log, r[i], i)}
  OBVIOUS
<1>4. T = {}
  <2> SUFFICES ASSUME T # {} PROVE FALSE
    OBVIOUS
  <2>1. T \subseteq Nat
    BY <1>1, <1>3
  <2>2. PICK i \in T : \A j \in T : i <= j
    BY <2>1, LeastOfNaturals
  <2>3. i \in 0 .. Len(log) /\ ~ Restores(log, r[i], i)
    BY <1>3
  <2>4. i # 0
    BY <1>1, <1>2, <2>3, NothingRestored DEF Replaying
  <2>5. i \in DOMAIN log /\ i - 1 \in 0 .. Len(log) /\ ~ (i <= i - 1)
    BY <1>1, <2>3, <2>4
  <2>6. i - 1 \notin T
    BY <2>2, <2>5
  <2>7. Restores(log, r[i - 1], i - 1)
    BY <1>3, <2>5, <2>6
  <2>8. RFits(r[i - 1], log, i - 1)
    BY <1>1, <1>2, <2>5, ReplayFits
  <2>9. r[i] = CopyBlock(r[i - 1], i)
    BY <1>1, <1>2, <2>5 DEF Replaying
  <2>10. Restores(log, r[i], i)
    BY <2>5, <2>7, <2>8, <2>9, BlockStep
  <2> QED
    BY <2>3, <2>10
<1>5. Len(log) \in 0 .. Len(log)
  BY <1>1
<1> QED
  BY <1>2, <1>3, <1>4, <1>5

-----------------------------------------------------------------------------
(* What is committed *)

Before(log) == {o \in DOMAIN log : \E c \in Commits(log) : o < c}
Created(log) == UNION {log[c].creates : c \in Commits(log)}

\* The schema records of the last commit.
Undeleted(log) == Kept(log) \cap Before(log)

\* Of the records recs, those of the table whose record is at o.
HeldOf(log, o, recs) == {p \in recs \ Deleted(log) : log[p].tbl = log[o].tbl /\ o < p}

StaticTable(log, o) ==
  [name |-> log[o].name,
   columns |-> {<<log[c].column, log[c].field>> :
                  c \in {x \in AmongOf(log, Undeleted(log), "columns") : log[x].tbl = log[o].tbl}},
   indexes |-> {log[i].column :
                  i \in {x \in AmongOf(log, Undeleted(log), "indexes") : log[x].tbl = log[o].tbl}},
   records |-> {log[p].id : p \in HeldOf(log, o, Created(log))}]

\* What the last commit of a file committed, if no table was renamed.
Static(log) == {StaticTable(log, o) : o \in AmongOf(log, Undeleted(log), "tables")}

AllMade(log) ==
  \A o \in Before(log) : log[o].kind = "tables" /\ log[o].tbl > TN_VIEWS => Made(log, o)

\* What a commit creates for a table made before it is after the table's record.
CreatedLater(log) ==
  \A o \in OfKind(log, "tables"), c \in Commits(log) : Made(log, o) /\ o < c =>
    \A p \in log[c].creates : log[p].tbl = log[o].tbl => o < p

LogRight(log) ==
  /\ Consistent(log, Undeleted(log))
  /\ MadeWhole(log) /\ NoneHidden(log) /\ CreatedLater(log) /\ CreatedOnce(log)

\* log2 has the commit records of log, and what is before them.
SameCommitted(log, log2) ==
  /\ Commits(log2) = Commits(log) /\ \A c \in Commits(log) : log2[c] = log[c]
  /\ Deleted(log2) = Deleted(log) /\ Created(log2) = Created(log)
  /\ Before(log2) = Before(log) /\ Undeleted(log2) = Undeleted(log)
  /\ \A o \in Before(log) : AlikeBlock(log[o], log2[o]) /\ (Made(log2, o) <=> Made(log, o))

LEMMA MadeStays ==
  ASSUME NEW log, log \in Logs, NEW log2, Grown(log, log2), NEW o \in DOMAIN log
  PROVE  Made(log2, o) <=> Made(log, o)
<1>1. /\ DOMAIN log = 1 .. Len(log) /\ Len(log) \in Nat /\ o \in Nat
      /\ DOMAIN log \subseteq DOMAIN log2 /\ DOMAIN log2 \subseteq Nat
      /\ \A q \in DOMAIN log : log2[q].kind = log[q].kind
      /\ \A q \in DOMAIN log : log[q].kind # "tables" => log2[q] = log[q]
  <2>1. log2 \in Logs
    BY DEF Grown
  <2> QED
    BY <2>1, LogIs, GrownKinds
<1>2. \A q \in DOMAIN log : log[q].kind = "tables" => log2[q].tbl = log[q].tbl
  BY <1>1 DEF Grown, AlikeBlock
<1>3. \A q \in 1 .. o - 1 : q \in DOMAIN log
  BY <1>1
<1>4. \A c : c \in Commits(log2) /\ c < o <=> c \in Commits(log) /\ c < o
  <2>1. \A c \in Nat : c < o => (c \in DOMAIN log2 <=> c \in DOMAIN log)
    <3>1. log2 \in Logs /\ DOMAIN log2 = 1 .. Len(log2) /\ Len(log2) \in Nat
      BY LogIs DEF Grown
    <3> QED
      BY <1>1, <3>1
  <2> QED
    BY <1>1, <2>1 DEF Commits
<1>5. \A c \in Commits(log) : log2[c] = log[c]
  BY <1>1 DEF Commits
<1>6. \A q : (\E c \in Commits(log2) : c < o /\ q \in log2[c].deletes)
               <=> (\E c \in Commits(log) : c < o /\ q \in log[c].deletes)
  BY <1>4, <1>5
<1>7. \A q \in 1 .. o - 1 : /\ log2[q].kind = log[q].kind
                            /\ log[q].kind = "tables" => log2[q].tbl = log[q].tbl
  BY <1>1, <1>2, <1>3
<1> QED
  BY <1>1, <1>2, <1>6, <1>7 DEF Made

\* Schema records stay consistent while only the next fields of tables grow.
LEMMA ConsistentMoves ==
  ASSUME NEW log, log \in Logs, NEW L, L \subseteq DOMAIN log, Consistent(log, L),
         NEW log2, log2 \in Logs, L \subseteq DOMAIN log2,
         \A o \in L : AlikeBlock(log[o], log2[o]) /\ (Made(log2, o) => Made(log, o))
  PROVE  Consistent(log2, L)
<1>1. /\ \A kind : AmongOf(log2, L, kind) = AmongOf(log, L, kind)
      /\ \A o \in L : log2[o].kind = log[o].kind
      /\ \A o \in L : log[o].kind # "tables" => log2[o] = log[o]
      /\ \A o \in AmongOf(log, L, "tables") :
           log2[o].tbl = log[o].tbl /\ log2[o].name = log[o].name /\ log[o].nextfield <= log2[o].nextfield
  BY DEF AmongOf, AlikeBlock
<1>2. /\ \A o \in AmongOf(log, L, "columns") : log2[o] = log[o] /\ log[o].field \in Nat
      /\ \A o \in AmongOf(log, L, "indexes") : log2[o] = log[o]
      /\ \A o \in AmongOf(log, L, "tables") : log[o].nextfield \in Nat /\ log2[o].nextfield \in Nat
  <2>1. \A o \in L : log[o] \in Block /\ log2[o] \in Block
    BY LogIs
  <2>2. \A o \in AmongOf(log, L, "columns") : log[o] \in ColumnsBlock
    BY <2>1, BlockIs DEF AmongOf
  <2>3. \A o \in AmongOf(log, L, "tables") : log[o] \in TablesBlock /\ log2[o] \in TablesBlock
    BY <1>1, <2>1, BlockIs DEF AmongOf
  <2>4. /\ \A o \in AmongOf(log, L, "columns") : log2[o] = log[o]
        /\ \A o \in AmongOf(log, L, "indexes") : log2[o] = log[o]
    BY <1>1 DEF AmongOf
  <2> QED
    BY <2>2, <2>3, <2>4 DEF ColumnsBlock, TablesBlock
<1>3. TablesApart(log2, L)
  BY <1>1 DEF Consistent, TablesApart
<1>4. ColumnsHome(log2, L)
  <2> SUFFICES ASSUME NEW c \in AmongOf(log, L, "columns")
               PROVE  \E o \in AmongOf(log, L, "tables") :
                        log2[o].tbl = log2[c].tbl /\ log2[c].field < log2[o].nextfield
    BY <1>1 DEF ColumnsHome
  <2>1. PICK o \in AmongOf(log, L, "tables") :
          log[o].tbl = log[c].tbl /\ log[c].field < log[o].nextfield
    BY DEF Consistent, ColumnsHome
  <2>2. log2[c].field < log2[o].nextfield
    BY <1>1, <1>2, <2>1
  <2> QED
    BY <1>1, <1>2, <2>1, <2>2
<1>5. ColumnsApart(log2, L)
  BY <1>1, <1>2 DEF Consistent, ColumnsApart
<1>6. IndexesHome(log2, L)
  BY <1>1, <1>2 DEF Consistent, IndexesHome
<1>7. IndexesApart(log2, L)
  BY <1>1, <1>2 DEF Consistent, IndexesApart
<1>8. PartsLater(log2, L)
  <2> SUFFICES ASSUME NEW o \in AmongOf(log, L, "tables"), NEW c \in AmongOf(log, L, "columns"),
                      Made(log2, o), log2[o].tbl = log2[c].tbl
               PROVE  o < c
    BY <1>1 DEF PartsLater
  <2>1. Made(log, o)
    BY DEF AmongOf
  <2>2. log[o].tbl = log[c].tbl
    BY <1>1, <1>2
  <2> QED
    BY <2>1, <2>2 DEF Consistent, PartsLater
<1> QED
  BY <1>3, <1>4, <1>5, <1>6, <1>7, <1>8 DEF Consistent

\* A file that has grown without a commit record.
LEMMA SameWhenGrown ==
  ASSUME NEW log, LogFits(log), NEW log2, Grown(log, log2), NoCommits(log, log2)
  PROVE  SameCommitted(log, log2)
<1>0. log \in Logs /\ log2 \in Logs
  BY DEF LogFits, Grown
<1>1. /\ Commits(log2) = Commits(log) /\ Deleted(log2) = Deleted(log)
      /\ \A c \in Commits(log) : log2[c] = log[c]
  BY <1>0, GrownCommits
<1>2. /\ DOMAIN log = 1 .. Len(log) /\ Len(log) \in Nat
      /\ DOMAIN log2 = 1 .. Len(log2) /\ Len(log2) \in Nat /\ DOMAIN log \subseteq DOMAIN log2
      /\ \A o \in DOMAIN log : log2[o].kind = log[o].kind
  BY <1>0, LogIs, GrownKinds
<1>3. Commits(log) \subseteq DOMAIN log
  BY DEF Commits
<1>4. Before(log2) = Before(log)
  <2>1. \A o \in DOMAIN log2, c \in DOMAIN log : o < c => o \in DOMAIN log
    BY <1>2
  <2> QED
    BY <1>1, <1>2, <1>3, <2>1 DEF Before
<1>5. Created(log2) = Created(log)
  BY <1>1 DEF Created
<1>6. Before(log) \subseteq DOMAIN log
  BY DEF Before
<1>7. Undeleted(log2) = Undeleted(log)
  BY <1>1, <1>2, <1>4, <1>6 DEF Undeleted, Kept, Schema
<1>8. \A o \in Before(log) : AlikeBlock(log[o], log2[o]) /\ (Made(log2, o) <=> Made(log, o))
  BY <1>0, <1>2, <1>6, MadeStays DEF Grown
<1> QED
  BY <1>1, <1>4, <1>5, <1>7, <1>8 DEF SameCommitted

\* A file that has been cut off after its last commit record.
LEMMA SameWhenCut ==
  ASSUME NEW log, LogFits(log), NEW log2, CutOff(log, log2)
  PROVE  SameCommitted(log, log2) /\ Grown(log2, log) /\ Len(log2) \in Commits(log2)
<1>0. log \in Logs
  BY DEF LogFits
<1>1. /\ Commits(log2) = Commits(log) /\ Deleted(log2) = Deleted(log)
      /\ \A c \in Commits(log) : log2[c] = log[c]
  BY <1>0, CutOffCommits
<1>2. PICK k \in Commits(log) :
        /\ \A j \in Commits(log) : j <= k
        /\ log2 \in Logs /\ Len(log2) = k /\ DOMAIN log2 = 1 .. k
        /\ \A o \in 1 .. k : o \in DOMAIN log /\ log2[o] = log[o]
  BY DEF CutOff
<1>3. /\ DOMAIN log = 1 .. Len(log) /\ Len(log) \in Nat /\ k \in DOMAIN log /\ k \in Nat /\ k <= Len(log)
      /\ \A o \in DOMAIN log : log[o] \in Block
  BY <1>0, LogIs DEF Commits
<1>4. Grown(log2, log)
  BY <1>0, <1>2, <1>3, AlikeSelf DEF Grown
<1>5. \A o \in DOMAIN log, c \in Commits(log) : o < c => o \in DOMAIN log2
  BY <1>2, <1>3 DEF Commits
<1>6. Before(log2) = Before(log) /\ Before(log) \subseteq DOMAIN log2 /\ DOMAIN log2 \subseteq DOMAIN log
  BY <1>1, <1>2, <1>5 DEF Before
<1>7. Created(log2) = Created(log)
  BY <1>1 DEF Created
<1>8. Undeleted(log2) = Undeleted(log)
  BY <1>1, <1>2, <1>6 DEF Undeleted, Kept, Schema
<1>9. \A o \in Before(log) : AlikeBlock(log[o], log2[o]) /\ (Made(log2, o) <=> Made(log, o))
  BY <1>2, <1>3, <1>4, <1>6, AlikeSelf, MadeStays
<1> QED
  BY <1>1, <1>2, <1>4, <1>6, <1>7, <1>8, <1>9 DEF SameCommitted

\* What is said of the commits of a file is said of one with the same commits.
LEMMA SameRight ==
  ASSUME NEW log, LogFits(log), LogRight(log), NEW log2, log2 \in Logs, SameCommitted(log, log2),
         MadeWhole(log2), NoneHidden(log2)
  PROVE  LogRight(log2)
<1>0. log \in Logs /\ DOMAIN log2 = 1 .. Len(log2) /\ Len(log2) \in Nat
  BY LogIs DEF LogFits
<1>1. /\ Undeleted(log) \subseteq DOMAIN log /\ Undeleted(log2) \subseteq DOMAIN log2
      /\ Undeleted(log) \subseteq Before(log)
  BY DEF Undeleted, Kept, Schema
<1>2. Consistent(log2, Undeleted(log2))
  <2>1. \A o \in Undeleted(log) : AlikeBlock(log[o], log2[o]) /\ (Made(log2, o) => Made(log, o))
    BY <1>1 DEF SameCommitted
  <2>2. Undeleted(log2) = Undeleted(log)
    BY DEF SameCommitted
  <2> QED
    BY <1>0, <1>1, <2>1, <2>2, ConsistentMoves DEF LogRight
<1>3. CreatedOnce(log2)
  BY DEF LogRight, CreatedOnce, SameCommitted
<1>4. CreatedLater(log2)
  <2> SUFFICES ASSUME NEW o \in OfKind(log2, "tables"), NEW c \in Commits(log2),
                      Made(log2, o), o < c, NEW p \in log2[c].creates, log2[p].tbl = log2[o].tbl
               PROVE  o < p
    BY DEF CreatedLater
  <2>1. c \in Commits(log) /\ log2[c] = log[c] /\ p \in log[c].creates
    BY DEF SameCommitted
  <2>2. o \in Before(log)
    <3>1. o \in Before(log2)
      BY DEF Before, OfKind
    <3> QED
      BY <3>1 DEF SameCommitted
  <2>3. Made(log, o) /\ AlikeBlock(log[o], log2[o])
    BY <2>2 DEF SameCommitted
  <2>4. o \in OfKind(log, "tables") /\ log2[o].tbl = log[o].tbl
    BY <2>2, <2>3 DEF OfKind, AlikeBlock, Before
  <2>5. p \in OfKind(log, "data") /\ p \in 1 .. c - 1 /\ c \in DOMAIN log
    BY <2>1 DEF LogFits, Commits
  <2>6. p \in Before(log)
    <3>1. c \in Nat /\ p \in DOMAIN log
      BY <1>0, <2>5, LogIs DEF OfKind
    <3>2. p < c
      BY <2>5, <3>1
    <3> QED
      BY <2>1, <3>1, <3>2 DEF Before
  <2>7. log2[p] = log[p]
    BY <2>5, <2>6 DEF SameCommitted, AlikeBlock, OfKind
  <2> QED
    BY <2>1, <2>3, <2>4, <2>7 DEF LogRight, CreatedLater
<1> QED
  BY <1>2, <1>3, <1>4 DEF LogRight

LEMMA SameStatic ==
  ASSUME NEW log, LogFits(log), NEW log2, SameCommitted(log, log2)
  PROVE  Static(log2) = Static(log) /\ (AllMade(log2) <=> AllMade(log))
<1>1. /\ Undeleted(log2) = Undeleted(log) /\ Before(log2) = Before(log)
      /\ Created(log2) = Created(log) /\ Deleted(log2) = Deleted(log)
      /\ \A o \in Before(log) : AlikeBlock(log[o], log2[o]) /\ (Made(log2, o) <=> Made(log, o))
  BY DEF SameCommitted
<1>2. Undeleted(log) \subseteq Before(log)
  BY DEF Undeleted
<1>3. Created(log) \subseteq Before(log) /\ \A p \in Created(log) : log2[p] = log[p]
  <2> SUFFICES ASSUME NEW c \in Commits(log), NEW p \in log[c].creates
               PROVE  p \in Before(log) /\ log2[p] = log[p]
    BY DEF Created
  <2>1. p \in OfKind(log, "data") /\ p \in 1 .. c - 1 /\ c \in DOMAIN log
    BY DEF LogFits, Commits
  <2>2. c \in Nat /\ p \in DOMAIN log
    BY <2>1, LogIs DEF OfKind, LogFits
  <2>3. p < c
    BY <2>1, <2>2
  <2>4. p \in Before(log)
    BY <2>2, <2>3 DEF Before
  <2> QED
    BY <1>1, <2>1, <2>4 DEF AlikeBlock, OfKind
<1>4. /\ \A kind : AmongOf(log2, Undeleted(log2), kind) = AmongOf(log, Undeleted(log), kind)
      /\ \A o \in Undeleted(log) : log[o].kind # "tables" => log2[o] = log[o]
      /\ \A o \in AmongOf(log, Undeleted(log), "tables") :
           log2[o].tbl = log[o].tbl /\ log2[o].name = log[o].name
  BY <1>1, <1>2 DEF AmongOf, AlikeBlock
<1>5. \A o \in AmongOf(log, Undeleted(log), "tables") : StaticTable(log2, o) = StaticTable(log, o)
  <2> SUFFICES ASSUME NEW o \in AmongOf(log, Undeleted(log), "tables")
               PROVE  StaticTable(log2, o) = StaticTable(log, o)
    OBVIOUS
  <2>1. log2[o].tbl = log[o].tbl /\ log2[o].name = log[o].name
    BY <1>4
  <2>2. \A kind \in {"columns", "indexes"} : \A x \in AmongOf(log, Undeleted(log), kind) : log2[x] = log[x]
    BY <1>4 DEF AmongOf
  <2>3. {<<log2[c].column, log2[c].field>> :
           c \in {x \in AmongOf(log2, Undeleted(log2), "columns") : log2[x].tbl = log2[o].tbl}}
        = {<<log[c].column, log[c].field>> :
             c \in {x \in AmongOf(log, Undeleted(log), "columns") : log[x].tbl = log[o].tbl}}
    BY <1>4, <2>1, <2>2
  <2>4. {log2[c].column :
           c \in {x \in AmongOf(log2, Undeleted(log2), "indexes") : log2[x].tbl = log2[o].tbl}}
        = {log[c].column :
             c \in {x \in AmongOf(log, Undeleted(log), "indexes") : log[x].tbl = log[o].tbl}}
    BY <1>4, <2>1, <2>2
  <2>5. HeldOf(log2, o, Created(log2)) = HeldOf(log, o, Created(log))
    BY <1>1, <1>3, <2>1 DEF HeldOf
  <2>6. HeldOf(log, o, Created(log)) \subseteq Created(log)
    BY DEF HeldOf
  <2>7. {log2[p].id : p \in HeldOf(log2, o, Created(log2))} = {log[p].id : p \in HeldOf(log, o, Created(log))}
    BY <1>3, <2>5, <2>6
  <2> QED
    BY <2>1, <2>3, <2>4, <2>7 DEF StaticTable
<1>6. Static(log2) = Static(log)
  BY <1>4, <1>5 DEF Static
<1>7. \A o \in Before(log) : /\ log2[o].kind = log[o].kind
                             /\ log[o].kind = "tables" => log2[o].tbl = log[o].tbl
  BY <1>1 DEF AlikeBlock
<1>8. AllMade(log2) <=> AllMade(log)
  BY <1>1, <1>7 DEF AllMade
<1> QED
  BY <1>6, <1>8

-----------------------------------------------------------------------------
(* What holds of the database, while every rebuilt file was Plain *)

\* The live schema records are those that nothing has removed.
LiveSchema(d) ==
  /\ d.live = Schema(d.log) \ (d.drops \cup Deleted(d.log))
  /\ d.drops \subseteq Schema(d.log)

\* The number of the next table is above those in use.
Numbered(d, fr, go, nt) ==
  /\ \A o \in Live(d, "tables") : d.log[o].tbl < nt
  /\ \A p \in fr \cup go : d.log[p].tbl < nt

\* Entries are of the records of their table, and what an active transaction
\* created or removed has one, if its table was not dropped.
RowsHome(d, fr, go) ==
  /\ \A r \in d.rows : d.log[r[2]].tbl = r[1]
  /\ \A p \in fr \cup go : d.log[p].tbl \in Tables(d) => <<d.log[p].tbl, p>> \in d.rows

RowsLeft(d, go, t) == {r \in d.rows : r[1] = t /\ r[2] \notin go}
CountsRight(d, go) ==
  \A o \in Live(d, "tables") : d.log[o].nrows = Cardinality(RowsLeft(d, go, d.log[o].tbl))

FreshApart(log, fr) == fr \cap (Created(log) \cup Deleted(log)) = {}

\* A new table has none of the records that were created before it.
FreshLater(log, fr) ==
  \A o \in OfKind(log, "tables"), p \in fr :
    Made(log, o) /\ log[p].tbl = log[o].tbl => o < p

\* The entries of a table are its records in the file, that are committed or new.
RowsOf(d, t) == {r \in d.rows : r[1] = t}
RowsHeld(d, fr) ==
  \A o \in Live(d, "tables") : Made(d.log, o) =>
    RowsOf(d, d.log[o].tbl) = {d.log[o].tbl} \X HeldOf(d.log, o, Created(d.log) \cup fr)

LiveRight(d, fr, go, nt) ==
  /\ LiveSchema(d) /\ Consistent(d.log, d.live) /\ Numbered(d, fr, go, nt)
  /\ RowsHome(d, fr, go) /\ CountsRight(d, go)
  /\ FreshApart(d.log, fr) /\ FreshLater(d.log, fr) /\ RowsHeld(d, fr)

SavedIs(log, contents) == AllMade(log) => contents = Static(log)
Settled(log) == Len(log) \in Commits(log)

PInv ==
  plain =>
    /\ LogRight(db.log) /\ SavedIs(db.log, saved)
    /\ IF up THEN LiveRight(db, fresh, going, nexttable) ELSE Settled(db.log) /\ db.live = {}

\* What a database holds, whose schema is that of its last commit.
LEMMA ContentsAreStatic ==
  ASSUME NEW d, DbFits(d), NEW fr, d.live = Undeleted(d.log), AllMade(d.log),
         Consistent(d.log, d.live), RowsHeld(d, fr), fr \cap Created(d.log) = {}
  PROVE  Contents(d, fr) = Static(d.log)
<1>1. \A kind : Live(d, kind) = AmongOf(d.log, Undeleted(d.log), kind)
  BY DEF Live, AmongOf
<1>2. \A kind, t : LiveOf(d, kind, t) = {x \in AmongOf(d.log, Undeleted(d.log), kind) : d.log[x].tbl = t}
  BY <1>1 DEF LiveOf
<1>3. \A o \in Live(d, "tables") : Made(d.log, o)
  <2>1. \A o \in Live(d, "tables") : o \in Before(d.log) /\ d.log[o].kind = "tables"
    BY <1>1 DEF Undeleted, AmongOf
  <2>2. \A o \in Live(d, "tables") : d.log[o].tbl > TN_VIEWS
    BY <1>1 DEF Consistent, TablesApart
  <2> QED
    BY <2>1, <2>2 DEF AllMade
<1>4. \A o \in Live(d, "tables") :
        {d.log[r[2]].id : r \in {q \in d.rows : q[1] = d.log[o].tbl /\ q[2] \notin fr}}
          = {d.log[p].id : p \in HeldOf(d.log, o, Created(d.log))}
  <2> SUFFICES ASSUME NEW o \in Live(d, "tables")
               PROVE  {d.log[r[2]].id : r \in {q \in d.rows : q[1] = d.log[o].tbl /\ q[2] \notin fr}}
                        = {d.log[p].id : p \in HeldOf(d.log, o, Created(d.log))}
    OBVIOUS
  <2>1. PICK t : t = d.log[o].tbl
    OBVIOUS
  <2>2. RowsOf(d, t) = {t} \X HeldOf(d.log, o, Created(d.log) \cup fr)
    BY <1>3, <2>1 DEF RowsHeld
  <2>3. PICK H : H = HeldOf(d.log, o, Created(d.log))
    OBVIOUS
  <2>4. \A p : p \in HeldOf(d.log, o, Created(d.log) \cup fr) /\ p \notin fr <=> p \in H
    BY <2>3 DEF HeldOf
  <2>5. PICK Q : Q = {q \in d.rows : q[1] = t /\ q[2] \notin fr}
    OBVIOUS
  <2>6. Q = {t} \X H
    <3>1. Q = {q \in RowsOf(d, t) : q[2] \notin fr}
      BY <2>5 DEF RowsOf
    <3>2. \A q : q \in Q <=> q \in {t} \X H
      BY <2>2, <2>4, <3>1
    <3> QED
      BY <3>2
  <2>7. {d.log[r[2]].id : r \in Q} = {d.log[p].id : p \in H}
    <3>1. \A r \in Q : r[2] \in H
      BY <2>6
    <3>2. \A p \in H : <<t, p>> \in Q /\ <<t, p>>[2] = p
      BY <2>6
    <3> QED
      BY <3>1, <3>2
  <2> QED
    BY <2>1, <2>3, <2>5, <2>7
<1>5. \A o \in Live(d, "tables") :
        [name |-> d.log[o].name,
         columns |-> {<<d.log[c].column, d.log[c].field>> : c \in LiveOf(d, "columns", d.log[o].tbl)},
         indexes |-> {d.log[i].column : i \in LiveOf(d, "indexes", d.log[o].tbl)},
         records |-> {d.log[r[2]].id : r \in {q \in d.rows : q[1] = d.log[o].tbl /\ q[2] \notin fr}}]
          = StaticTable(d.log, o)
  BY <1>2, <1>4 DEF StaticTable
<1>6. Contents(d, fr) = {StaticTable(d.log, o) : o \in Live(d, "tables")}
  BY <1>5, Zenon DEF Contents
<1> QED
  BY <1>1, <1>6, Zenon DEF Static

-----------------------------------------------------------------------------
(* What a step that commits nothing keeps *)

WholeAt(log, o) ==
  /\ o + 2 \in DOMAIN log
  /\ log[o + 1].kind = "columns" /\ log[o + 1].tbl = log[o].tbl
  /\ log[o + 2].kind = "indexes" /\ log[o + 2].tbl = log[o].tbl

\* The record of a table at o is as a request, or a rebuild of a Plain file, leaves it.
TableWhole(log, o) == ~ log[o].hidden /\ (Made(log, o) => WholeAt(log, o))

LEMMA GrownWhole ==
  ASSUME NEW log, log \in Logs, MadeWhole(log), NoneHidden(log), NEW log2, Grown(log, log2),
         \A o \in DOMAIN log2 \ DOMAIN log : log2[o].kind = "tables" => TableWhole(log2, o)
  PROVE  MadeWhole(log2) /\ NoneHidden(log2)
<1>1. /\ DOMAIN log = 1 .. Len(log) /\ Len(log) \in Nat /\ DOMAIN log \subseteq DOMAIN log2
      /\ \A o \in DOMAIN log : log2[o].kind = log[o].kind /\ AlikeBlock(log[o], log2[o])
      /\ \A o \in DOMAIN log : log[o].kind \in SchemaKinds \cup {"data"} => log2[o].tbl = log[o].tbl
  BY LogIs, GrownKinds DEF Grown
<1>2. \A o \in OfKind(log2, "tables") : o \in DOMAIN log => o \in OfKind(log, "tables")
  BY <1>1 DEF OfKind
<1>3. \A o \in OfKind(log, "tables") : log2[o].hidden = log[o].hidden
  BY <1>1 DEF OfKind, AlikeBlock
<1>4. NoneHidden(log2)
  BY <1>2, <1>3 DEF NoneHidden, TableWhole, OfKind
<1>5. \A o \in OfKind(log2, "tables") : Made(log2, o) => WholeAt(log2, o)
  <2> SUFFICES ASSUME NEW o \in OfKind(log2, "tables"), Made(log2, o)
               PROVE  WholeAt(log2, o)
    OBVIOUS
  <2>1. CASE o \notin DOMAIN log
    BY <2>1 DEF TableWhole, OfKind
  <2>2. CASE o \in DOMAIN log
    <3>1. Made(log, o) /\ o \in OfKind(log, "tables")
      BY <1>2, <2>2, MadeStays
    <3>2. WholeAt(log, o)
      BY <3>1 DEF MadeWhole, WholeAt
    <3>3. o + 1 \in DOMAIN log /\ o + 2 \in DOMAIN log
      BY <1>1, <2>2, <3>2 DEF WholeAt
    <3>4. /\ log2[o].tbl = log[o].tbl /\ log2[o + 1].tbl = log[o + 1].tbl /\ log2[o + 2].tbl = log[o + 2].tbl
          /\ log2[o + 1].kind = log[o + 1].kind /\ log2[o + 2].kind = log[o + 2].kind
      BY <1>1, <2>2, <3>1, <3>2, <3>3 DEF WholeAt, SchemaKinds, OfKind
    <3> QED
      BY <1>1, <3>2, <3>3, <3>4 DEF WholeAt
  <2> QED
    BY <2>1, <2>2
<1>6. MadeWhole(log2)
  BY <1>5 DEF MadeWhole, WholeAt
<1> QED
  BY <1>4, <1>6

\* The commits are right, and what they committed is what it was.
LEMMA GrownRight ==
  ASSUME NEW log, LogFits(log), LogRight(log), NEW log2, Grown(log, log2), NoCommits(log, log2),
         \A o \in DOMAIN log2 \ DOMAIN log : log2[o].kind = "tables" => TableWhole(log2, o)
  PROVE  /\ LogRight(log2) /\ SameCommitted(log, log2)
         /\ \A s : SavedIs(log, s) => SavedIs(log2, s)
<1>1. log \in Logs /\ log2 \in Logs
  BY DEF LogFits, Grown
<1>2. SameCommitted(log, log2)
  BY SameWhenGrown
<1>3. MadeWhole(log2) /\ NoneHidden(log2)
  BY <1>1, GrownWhole DEF LogRight
<1>4. LogRight(log2)
  BY <1>1, <1>2, <1>3, SameRight
<1>5. Static(log2) = Static(log) /\ (AllMade(log2) <=> AllMade(log))
  BY <1>2, SameStatic
<1> QED
  BY <1>2, <1>4, <1>5 DEF SavedIs

\* A live table of d2 is one of d, with the same count, if maybe by another name.
SameTable(d, d2, o) ==
  \E q \in Live(d, "tables") :
    /\ d.log[q].tbl = d2.log[o].tbl /\ d.log[q].nrows = d2.log[o].nrows
    /\ q = o \/ ~ Made(d2.log, o)

\* A live table of d2 is new, with a number that no table of d has.
NewTable(d, d2, nt, o) ==
  o \notin DOMAIN d.log /\ d2.log[o].tbl >= nt /\ d2.log[o].nrows = 0

TablesSame(d, d2, nt) ==
  \A o \in Live(d2, "tables") : SameTable(d, d2, o) \/ NewTable(d, d2, nt, o)

\* The new records of tables are of new tables, or of renamed ones.
NewNumbered(d, d2, nt) ==
  \A o \in NewIn(d, d2) : d2.log[o].kind = "tables" => d2.log[o].tbl >= nt \/ ~ Made(d2.log, o)

LEMMA EditedLive ==
  ASSUME NEW d, DbFits(d), LiveSchema(d), NEW gone, NEW d2, Edited(d, gone, d2), NoCommits(d.log, d2.log)
  PROVE  LiveSchema(d2)
<1>1. d.log \in Logs /\ d2.log \in Logs /\ Grown(d.log, d2.log) /\ LogFits(d.log)
  BY DEF DbFits, LogFits, Edited, Dbs
<1>2. Deleted(d2.log) = Deleted(d.log)
  BY <1>1, GrownCommits
<1>3. /\ DOMAIN d.log \subseteq DOMAIN d2.log /\ DOMAIN d.log = 1 .. Len(d.log) /\ Len(d.log) \in Nat
      /\ \A o \in DOMAIN d.log : d2.log[o].kind = d.log[o].kind
  BY <1>1, GrownKinds, LogIs
<1>4. Schema(d2.log) = Schema(d.log) \cup NewIn(d, d2)
  BY <1>3 DEF Schema, NewIn, Edited
<1>5. Deleted(d.log) \subseteq DOMAIN d.log
  <2>1. \A c \in Commits(d.log) : c \in DOMAIN d.log /\ d.log[c].deletes \subseteq 1 .. c - 1
    BY <1>1 DEF LogFits, Commits
  <2>2. \A c \in Commits(d.log) : d.log[c].deletes \subseteq DOMAIN d.log
    BY <1>3, <2>1
  <2> QED
    BY <2>2 DEF Deleted
<1>6. NewIn(d, d2) \cap DOMAIN d.log = {} /\ d.drops \subseteq DOMAIN d.log /\ Schema(d.log) \subseteq DOMAIN d.log
  BY DEF NewIn, DbFits, Schema
<1>7. d2.live = (d.live \cup NewIn(d, d2)) \ gone /\ d2.drops = d.drops \cup gone
      /\ gone \subseteq d.live \cup NewIn(d, d2)
  BY DEF Edited
<1>8. d.live = Schema(d.log) \ (d.drops \cup Deleted(d.log)) /\ d.drops \subseteq Schema(d.log)
  BY DEF LiveSchema
<1>9. d2.live = Schema(d2.log) \ (d2.drops \cup Deleted(d2.log))
  BY <1>2, <1>4, <1>5, <1>6, <1>7, <1>8
<1>10. d2.drops \subseteq Schema(d2.log)
  BY <1>4, <1>7, <1>8
<1> QED
  BY <1>9, <1>10 DEF LiveSchema

\* A schema request takes d to d2.
RequestStep(d, fr, go, nt, gone, d2) ==
  /\ DbFits(d) /\ DbFits(d2) /\ Edited(d, gone, d2) /\ NoCommits(d.log, d2.log)
  /\ fr \cup go \subseteq OfKind(d.log, "data") /\ nt \in Nat
  /\ TablesSame(d, d2, nt) /\ NewNumbered(d, d2, nt)
  /\ d2.rows = {r \in d.rows : r[1] \in Tables(d2)}

LEMMA TblIsNat ==
  ASSUME NEW log, log \in Logs, NEW o \in DOMAIN log, log[o].kind # "commit"
  PROVE  log[o].tbl \in Nat
<1>1. log[o] \in Block
  BY LogIs
<1> QED
  BY <1>1, BlockIs DEF TablesBlock, ColumnsBlock, IndexesBlock, DataBlock, Numbers, TN_VIEWS

LEMMA StepFacts ==
  ASSUME NEW d, NEW fr, NEW go, NEW nt, NEW gone, NEW d2, RequestStep(d, fr, go, nt, gone, d2)
  PROVE  /\ d.log \in Logs /\ d2.log \in Logs /\ LogFits(d.log) /\ Grown(d.log, d2.log)
         /\ SameCommitted(d.log, d2.log)
         /\ DOMAIN d.log \subseteq DOMAIN d2.log /\ DOMAIN d.log = 1 .. Len(d.log) /\ DOMAIN d2.log \subseteq Nat
         /\ \A o \in DOMAIN d.log : d2.log[o].kind = d.log[o].kind
         /\ \A p \in OfKind(d.log, "data") : d2.log[p] = d.log[p] /\ d.log[p].tbl \in Nat /\ p \in DOMAIN d.log
         /\ Created(d.log) \subseteq OfKind(d.log, "data")
         /\ \A r \in d.rows : r[2] \in OfKind(d.log, "data") /\ r[1] \in Tables(d)
<1>1. d.log \in Logs /\ d2.log \in Logs /\ LogFits(d.log) /\ Grown(d.log, d2.log)
  BY DEF RequestStep, DbFits, LogFits, Edited
<1>2. /\ DOMAIN d.log \subseteq DOMAIN d2.log /\ DOMAIN d.log = 1 .. Len(d.log) /\ DOMAIN d2.log \subseteq Nat
      /\ \A o \in DOMAIN d.log : d2.log[o].kind = d.log[o].kind
      /\ \A o \in DOMAIN d.log : d.log[o].kind # "tables" => d2.log[o] = d.log[o]
  BY <1>1, GrownKinds, LogIs
<1>3. \A p \in OfKind(d.log, "data") : d2.log[p] = d.log[p] /\ d.log[p].tbl \in Nat /\ p \in DOMAIN d.log
  BY <1>1, <1>2, TblIsNat DEF OfKind
<1>4. Created(d.log) \subseteq OfKind(d.log, "data")
  BY <1>1 DEF LogFits, Created
<1>5. \A r \in d.rows : r[2] \in OfKind(d.log, "data") /\ r[1] \in Tables(d)
  BY DEF RequestStep, DbFits
<1>6. SameCommitted(d.log, d2.log)
  BY <1>1, SameWhenGrown DEF RequestStep
<1> QED
  BY <1>1, <1>2, <1>3, <1>4, <1>5, <1>6

\* The tables after a request are some of those before it, and new ones.
LEMMA StepTables ==
  ASSUME NEW d, NEW fr, NEW go, NEW nt, NEW gone, NEW d2, RequestStep(d, fr, go, nt, gone, d2)
  PROVE  \A u \in Tables(d2) : u \in Tables(d) \/ u >= nt
<1>1. \A o \in Live(d2, "tables") : SameTable(d, d2, o) \/ NewTable(d, d2, nt, o)
  BY DEF RequestStep, TablesSame
<1> QED
  BY <1>1 DEF Tables, SameTable, NewTable

LEMMA StepRowsHome ==
  ASSUME NEW d, NEW fr, NEW go, NEW nt, NEW gone, NEW d2, RequestStep(d, fr, go, nt, gone, d2),
         LiveRight(d, fr, go, nt)
  PROVE  RowsHome(d2, fr, go)
<1>1. \A r \in d2.rows : d2.log[r[2]].tbl = r[1]
  <2>1. /\ \A p \in OfKind(d.log, "data") : d2.log[p] = d.log[p]
        /\ \A r \in d.rows : r[2] \in OfKind(d.log, "data")
    BY StepFacts
  <2>2. d2.rows \subseteq d.rows
    BY DEF RequestStep
  <2> QED
    BY <2>1, <2>2 DEF LiveRight, RowsHome
<1>2. ASSUME NEW p \in fr \cup go, d2.log[p].tbl \in Tables(d2)
      PROVE  <<d2.log[p].tbl, p>> \in d2.rows
  <2>1. p \in OfKind(d.log, "data")
    BY DEF RequestStep
  <2>2. d2.log[p].tbl = d.log[p].tbl /\ d.log[p].tbl \in Nat
    BY <2>1, StepFacts
  <2>3. d.log[p].tbl < nt /\ nt \in Nat
    BY DEF LiveRight, Numbered, RequestStep
  <2>4. d.log[p].tbl \in Tables(d)
    <3>1. d.log[p].tbl \in Tables(d) \/ d.log[p].tbl >= nt
      BY <1>2, <2>2, StepTables
    <3> QED
      BY <2>2, <2>3, <3>1
  <2>5. <<d.log[p].tbl, p>> \in d.rows
    BY <2>4 DEF LiveRight, RowsHome
  <2> QED
    BY <1>2, <2>2, <2>5 DEF RequestStep
<1> QED
  BY <1>1, <1>2 DEF RowsHome

\* No entry is of a table that has no number yet.
LEMMA StepNoRows ==
  ASSUME NEW d, NEW fr, NEW go, NEW nt, NEW gone, NEW d2, RequestStep(d, fr, go, nt, gone, d2),
         LiveRight(d, fr, go, nt), NEW t \in Nat, t >= nt
  PROVE  /\ t \notin Tables(d) /\ {r \in d2.rows : r[1] = t} = {}
         /\ \A p \in fr \cup go : d.log[p].tbl # t
<1>1. nt \in Nat
  BY DEF RequestStep
<1>2. t \notin Tables(d)
  <2> SUFFICES ASSUME NEW o \in Live(d, "tables"), d.log[o].tbl = t
               PROVE  FALSE
    BY DEF Tables
  <2>1. d.log[o].tbl < nt
    BY DEF LiveRight, Numbered
  <2> QED
    BY <1>1, <2>1
<1>3. \A r \in d2.rows : r[1] # t
  BY <1>2, StepFacts DEF RequestStep
<1>4. \A p \in fr \cup go : d.log[p].tbl # t
  <2> SUFFICES ASSUME NEW p \in fr \cup go, d.log[p].tbl = t PROVE FALSE
    OBVIOUS
  <2>1. d.log[p].tbl < nt
    BY DEF LiveRight, Numbered
  <2> QED
    BY <1>1, <2>1
<1> QED
  BY <1>2, <1>3, <1>4

LEMMA StepCounts ==
  ASSUME NEW d, NEW fr, NEW go, NEW nt, NEW gone, NEW d2, RequestStep(d, fr, go, nt, gone, d2),
         LiveRight(d, fr, go, nt)
  PROVE  CountsRight(d2, go)
<1> SUFFICES ASSUME NEW o \in Live(d2, "tables")
             PROVE  d2.log[o].nrows = Cardinality(RowsLeft(d2, go, d2.log[o].tbl))
  BY DEF CountsRight
<1>1. SameTable(d, d2, o) \/ NewTable(d, d2, nt, o)
  BY DEF RequestStep, TablesSame
<1>2. PICK t : t = d2.log[o].tbl
  OBVIOUS
<1>3. o \in DOMAIN d2.log /\ d2.log[o].kind = "tables" /\ t \in Tables(d2) /\ t \in Nat
  <2>1. o \in DOMAIN d2.log /\ d2.log[o].kind = "tables" /\ t \in Tables(d2)
    BY <1>2 DEF RequestStep, DbFits, Live, Tables
  <2> QED
    BY <1>2, <2>1, StepFacts, TblIsNat
<1>4. CASE SameTable(d, d2, o)
  <2>1. PICK q \in Live(d, "tables") : d.log[q].tbl = t /\ d.log[q].nrows = d2.log[o].nrows
    BY <1>2, <1>4 DEF SameTable
  <2>2. RowsLeft(d2, go, t) = RowsLeft(d, go, t)
    BY <1>3 DEF RequestStep, RowsLeft
  <2>3. d.log[q].nrows = Cardinality(RowsLeft(d, go, t))
    BY <2>1 DEF LiveRight, CountsRight
  <2> QED
    BY <1>2, <2>1, <2>2, <2>3
<1>5. CASE NewTable(d, d2, nt, o)
  <2>1. t >= nt /\ d2.log[o].nrows = 0
    BY <1>2, <1>5 DEF NewTable
  <2>2. RowsLeft(d2, go, t) = {}
    BY <1>3, <2>1, StepNoRows DEF RowsLeft
  <2>3. d2.log[o].nrows = Cardinality(RowsLeft(d2, go, t))
    BY <2>1, <2>2, FS_EmptySet
  <2> QED
    BY <1>2, <2>3
<1> QED
  BY <1>1, <1>4, <1>5

LEMMA StepFresh ==
  ASSUME NEW d, NEW fr, NEW go, NEW nt, NEW gone, NEW d2, RequestStep(d, fr, go, nt, gone, d2),
         LiveRight(d, fr, go, nt)
  PROVE  FreshApart(d2.log, fr) /\ FreshLater(d2.log, fr)
<1>1. FreshApart(d2.log, fr)
  BY StepFacts DEF LiveRight, FreshApart, SameCommitted
<1>2. ASSUME NEW o \in OfKind(d2.log, "tables"), NEW p \in fr, Made(d2.log, o),
             d2.log[p].tbl = d2.log[o].tbl
      PROVE  o < p
  <2>0. p \in OfKind(d.log, "data")
    BY DEF RequestStep
  <2>1. p \in OfKind(d.log, "data") /\ d2.log[p].tbl = d.log[p].tbl /\ d.log[p].tbl \in Nat
    BY <2>0, StepFacts
  <2>2. CASE o \in DOMAIN d.log
    <3>1. Made(d.log, o)
      BY <1>2, <2>2, MadeStays, StepFacts
    <3>2. o \in OfKind(d.log, "tables") /\ d2.log[o].tbl = d.log[o].tbl
      BY <2>2, StepFacts DEF OfKind, Grown, AlikeBlock
    <3> QED
      BY <1>2, <2>1, <3>1, <3>2 DEF LiveRight, FreshLater
  <2>3. CASE o \notin DOMAIN d.log
    <3>1. o \in NewIn(d, d2) /\ d2.log[o].kind = "tables"
      BY <2>3 DEF NewIn, OfKind
    <3>2. d2.log[o].tbl >= nt
      BY <1>2, <3>1 DEF RequestStep, NewNumbered
    <3>3. d2.log[o].tbl \in Nat
      BY <2>1, <1>2, StepFacts
    <3> QED
      BY <1>2, <2>1, <3>2, <3>3, StepNoRows
  <2> QED
    BY <2>2, <2>3
<1> QED
  BY <1>1, <1>2 DEF FreshLater

LEMMA StepRowsHeld ==
  ASSUME NEW d, NEW fr, NEW go, NEW nt, NEW gone, NEW d2, RequestStep(d, fr, go, nt, gone, d2),
         LiveRight(d, fr, go, nt)
  PROVE  RowsHeld(d2, fr)
<1> SUFFICES ASSUME NEW o \in Live(d2, "tables"), Made(d2.log, o)
             PROVE  RowsOf(d2, d2.log[o].tbl)
                      = {d2.log[o].tbl} \X HeldOf(d2.log, o, Created(d2.log) \cup fr)
  BY DEF RowsHeld
<1>1. SameTable(d, d2, o) \/ NewTable(d, d2, nt, o)
  BY DEF RequestStep, TablesSame
<1>2. PICK t : t = d2.log[o].tbl
  OBVIOUS
<1>3. o \in DOMAIN d2.log /\ d2.log[o].kind = "tables" /\ t \in Tables(d2)
  BY <1>2 DEF RequestStep, DbFits, Live, Tables
<1>4. t \in Nat /\ o \in Nat /\ Created(d2.log) = Created(d.log) /\ Deleted(d2.log) = Deleted(d.log)
      /\ DOMAIN d.log = 1 .. Len(d.log)
  BY <1>2, <1>3, StepFacts, TblIsNat DEF SameCommitted
<1>5. PICK X : X = Created(d.log) \cup fr
  OBVIOUS
<1>6. \A p \in X : p \in DOMAIN d.log /\ d2.log[p] = d.log[p] /\ p \in OfKind(d.log, "data")
  <2>1. Created(d.log) \subseteq OfKind(d.log, "data") /\ fr \subseteq OfKind(d.log, "data")
    BY StepFacts DEF RequestStep
  <2> QED
    BY <1>5, <2>1, StepFacts
<1>7. RowsOf(d2, t) = {t} \X HeldOf(d2.log, o, X)
  <2>1. CASE SameTable(d, d2, o)
    <3>1. o \in Live(d, "tables") /\ d.log[o].tbl = t
      BY <1>2, <2>1 DEF SameTable
    <3>2. o \in DOMAIN d.log /\ Made(d.log, o)
      <4>1. o \in DOMAIN d.log
        BY <3>1 DEF RequestStep, DbFits, Live
      <4> QED
        BY <4>1, StepFacts, MadeStays
    <3>3. RowsOf(d, t) = {t} \X HeldOf(d.log, o, X)
      BY <1>5, <3>1, <3>2 DEF LiveRight, RowsHeld
    <3>4. RowsOf(d2, t) = RowsOf(d, t)
      BY <1>3 DEF RequestStep, RowsOf
    <3>5. HeldOf(d2.log, o, X) = HeldOf(d.log, o, X)
      BY <1>2, <1>4, <1>6, <3>1 DEF HeldOf
    <3> QED
      BY <3>3, <3>4, <3>5
  <2>2. CASE NewTable(d, d2, nt, o)
    <3>1. t >= nt /\ o \notin DOMAIN d.log
      BY <1>2, <2>2 DEF NewTable
    <3>2. RowsOf(d2, t) = {}
      BY <1>4, <3>1, StepNoRows DEF RowsOf
    <3>3. \A p \in X : ~ (o < p)
      <4>1. Len(d.log) \in Nat /\ o > Len(d.log)
        <5>1. o \in 1 .. Len(d2.log) /\ Len(d.log) \in Nat /\ Len(d2.log) \in Nat
          BY <1>3, StepFacts, LogIs
        <5> QED
          BY <1>4, <3>1, <5>1
      <4> QED
        BY <1>4, <1>6, <4>1
    <3>4. HeldOf(d2.log, o, X) = {}
      BY <3>3 DEF HeldOf
    <3> QED
      BY <3>2, <3>4
  <2> QED
    BY <1>1, <2>1, <2>2
<1> QED
  BY <1>2, <1>4, <1>5, <1>7

\* What a request has to keep.
LEMMA StepRight ==
  ASSUME NEW d, NEW fr, NEW go, NEW nt, NEW gone, NEW d2, RequestStep(d, fr, go, nt, gone, d2),
         LiveRight(d, fr, go, nt), NEW nt2 \in Nat, nt <= nt2,
         \A u \in Tables(d2) : u < nt2, Consistent(d2.log, d2.live)
  PROVE  LiveRight(d2, fr, go, nt2)
<1>1. LiveSchema(d2)
  <2>1. DbFits(d) /\ LiveSchema(d) /\ Edited(d, gone, d2) /\ NoCommits(d.log, d2.log)
    BY DEF RequestStep, LiveRight
  <2> QED
    BY <2>1, EditedLive
<1>2. Numbered(d2, fr, go, nt2)
  <2>1. \A o \in Live(d2, "tables") : d2.log[o].tbl < nt2
    BY DEF Tables
  <2>2. ASSUME NEW p \in fr \cup go PROVE d2.log[p].tbl < nt2
    <3>1. p \in OfKind(d.log, "data") /\ nt \in Nat
      BY DEF RequestStep
    <3>2. d2.log[p].tbl = d.log[p].tbl /\ d.log[p].tbl \in Nat
      BY <3>1, StepFacts
    <3>3. d.log[p].tbl < nt
      BY DEF LiveRight, Numbered
    <3> QED
      BY <3>1, <3>2, <3>3
  <2> QED
    BY <2>1, <2>2 DEF Numbered
<1>3. RowsHome(d2, fr, go) /\ CountsRight(d2, go) /\ RowsHeld(d2, fr)
  BY StepRowsHome, StepCounts, StepRowsHeld
<1>4. FreshApart(d2.log, fr) /\ FreshLater(d2.log, fr)
  BY StepFresh
<1> QED
  BY <1>1, <1>2, <1>3, <1>4 DEF LiveRight

-----------------------------------------------------------------------------
(* Schema records stay consistent *)

\* Some are gone, but not those that others are of.
LEMMA ConsistentLess ==
  ASSUME NEW log, NEW L, Consistent(log, L), NEW M, M \subseteq L,
         \A c \in AmongOf(log, M, "columns"), o \in AmongOf(log, L, "tables") :
           log[o].tbl = log[c].tbl => o \in M,
         \A i \in AmongOf(log, M, "indexes"), c \in AmongOf(log, L, "columns") :
           log[c].tbl = log[i].tbl /\ log[c].column = log[i].column => c \in M
  PROVE  Consistent(log, M)
<1>1. \A kind : AmongOf(log, M, kind) \subseteq AmongOf(log, L, kind)
                /\ \A o \in AmongOf(log, L, kind) : o \in M => o \in AmongOf(log, M, kind)
  BY DEF AmongOf
<1>2. TablesApart(log, M)
  BY <1>1 DEF Consistent, TablesApart
<1>3. ColumnsHome(log, M)
  BY <1>1 DEF Consistent, ColumnsHome
<1>4. ColumnsApart(log, M)
  BY <1>1 DEF Consistent, ColumnsApart
<1>5. IndexesHome(log, M)
  BY <1>1 DEF Consistent, IndexesHome
<1>6. IndexesApart(log, M)
  BY <1>1 DEF Consistent, IndexesApart
<1>7. PartsLater(log, M)
  BY <1>1 DEF Consistent, PartsLater
<1> QED
  BY <1>2, <1>3, <1>4, <1>5, <1>6, <1>7 DEF Consistent

\* One more, i, after all the others: the record of a table, of a column, of an index.
LEMMA ConsistentTable ==
  ASSUME NEW log, NEW L, Consistent(log, L), NEW i, log[i].kind = "tables", log[i].tbl > TN_VIEWS,
         \A o \in AmongOf(log, L, "tables") : log[o].tbl # log[i].tbl /\ log[o].name # log[i].name
  PROVE  Consistent(log, L \cup {i})
<1>1. /\ AmongOf(log, L \cup {i}, "tables") = AmongOf(log, L, "tables") \cup {i}
      /\ AmongOf(log, L \cup {i}, "columns") = AmongOf(log, L, "columns")
      /\ AmongOf(log, L \cup {i}, "indexes") = AmongOf(log, L, "indexes")
  BY DEF AmongOf
<1>2. TablesApart(log, L \cup {i})
  BY <1>1 DEF Consistent, TablesApart
<1>3. ColumnsHome(log, L \cup {i})
  BY <1>1 DEF Consistent, ColumnsHome
<1>4. ColumnsApart(log, L \cup {i})
  BY <1>1 DEF Consistent, ColumnsApart
<1>5. IndexesHome(log, L \cup {i})
  BY <1>1 DEF Consistent, IndexesHome
<1>6. IndexesApart(log, L \cup {i})
  BY <1>1 DEF Consistent, IndexesApart
<1>7. PartsLater(log, L \cup {i})
  <2>1. \A c \in AmongOf(log, L, "columns") : log[i].tbl # log[c].tbl
    BY DEF Consistent, ColumnsHome
  <2>2. PartsLater(log, L)
    BY DEF Consistent
  <2> QED
    BY <1>1, <2>1, <2>2 DEF PartsLater
<1> QED
  BY <1>2, <1>3, <1>4, <1>5, <1>6, <1>7 DEF Consistent

LEMMA ConsistentColumn ==
  ASSUME NEW log, NEW L, Consistent(log, L), NEW i, log[i].kind = "columns", \A o \in L : o < i,
         NEW h \in AmongOf(log, L, "tables"), log[h].tbl = log[i].tbl, log[i].field < log[h].nextfield,
         \A c \in AmongOf(log, L, "columns") : log[c].tbl = log[i].tbl =>
           log[c].column # log[i].column /\ log[c].field # log[i].field
  PROVE  Consistent(log, L \cup {i})
<1>1. /\ AmongOf(log, L \cup {i}, "columns") = AmongOf(log, L, "columns") \cup {i}
      /\ AmongOf(log, L \cup {i}, "tables") = AmongOf(log, L, "tables")
      /\ AmongOf(log, L \cup {i}, "indexes") = AmongOf(log, L, "indexes")
  BY DEF AmongOf
<1>2. TablesApart(log, L \cup {i})
  BY <1>1 DEF Consistent, TablesApart
<1>3. ColumnsHome(log, L \cup {i})
  BY <1>1 DEF Consistent, ColumnsHome
<1>4. ColumnsApart(log, L \cup {i})
  BY <1>1 DEF Consistent, ColumnsApart
<1>5. IndexesHome(log, L \cup {i})
  BY <1>1 DEF Consistent, IndexesHome
<1>6. IndexesApart(log, L \cup {i})
  BY <1>1 DEF Consistent, IndexesApart
<1>7. PartsLater(log, L \cup {i})
  <2>1. \A o \in AmongOf(log, L, "tables") : o < i
    BY DEF AmongOf
  <2>2. PartsLater(log, L)
    BY DEF Consistent
  <2> QED
    BY <1>1, <2>1, <2>2 DEF PartsLater
<1> QED
  BY <1>2, <1>3, <1>4, <1>5, <1>6, <1>7 DEF Consistent

LEMMA ConsistentIndex ==
  ASSUME NEW log, NEW L, Consistent(log, L), NEW i, log[i].kind = "indexes", \A o \in L : o < i,
         NEW h \in AmongOf(log, L, "columns"), log[h].tbl = log[i].tbl, log[h].column = log[i].column,
         \A x \in AmongOf(log, L, "indexes") : log[x].tbl = log[i].tbl => log[x].column # log[i].column
  PROVE  Consistent(log, L \cup {i})
<1>1. /\ AmongOf(log, L \cup {i}, "indexes") = AmongOf(log, L, "indexes") \cup {i}
      /\ AmongOf(log, L \cup {i}, "tables") = AmongOf(log, L, "tables")
      /\ AmongOf(log, L \cup {i}, "columns") = AmongOf(log, L, "columns")
  BY DEF AmongOf
<1>2. TablesApart(log, L \cup {i})
  BY <1>1 DEF Consistent, TablesApart
<1>3. ColumnsHome(log, L \cup {i})
  BY <1>1 DEF Consistent, ColumnsHome
<1>4. ColumnsApart(log, L \cup {i})
  BY <1>1 DEF Consistent, ColumnsApart
<1>5. IndexesHome(log, L \cup {i})
  <2>1. h < i
    BY DEF AmongOf
  <2> QED
    BY <1>1, <2>1 DEF Consistent, IndexesHome
<1>6. IndexesApart(log, L \cup {i})
  BY <1>1 DEF Consistent, IndexesApart
<1>7. PartsLater(log, L \cup {i})
  BY <1>1 DEF Consistent, PartsLater
<1> QED
  BY <1>2, <1>3, <1>4, <1>5, <1>6, <1>7 DEF Consistent

\* The record of a table, o, is replaced by i, with another name.
LEMMA ConsistentRename ==
  ASSUME NEW log, NEW L, Consistent(log, L), NEW o \in AmongOf(log, L, "tables"), NEW i,
         log[i].kind = "tables", log[i].tbl = log[o].tbl, log[i].nextfield = log[o].nextfield, ~ Made(log, i),
         \A p \in AmongOf(log, L, "tables") : log[p].name # log[i].name,
         NEW M, M = (L \cup {i}) \ {o}, i # o
  PROVE  Consistent(log, M)
<1>1. /\ AmongOf(log, M, "tables") = (AmongOf(log, L, "tables") \ {o}) \cup {i}
      /\ AmongOf(log, M, "columns") = AmongOf(log, L, "columns")
      /\ AmongOf(log, M, "indexes") = AmongOf(log, L, "indexes")
  BY DEF AmongOf
<1>2. TablesApart(log, M)
  <2>1. \A p \in AmongOf(log, L, "tables") : log[p].tbl > TN_VIEWS /\ (p # o => log[p].tbl # log[o].tbl)
    BY DEF Consistent, TablesApart
  <2>2. \A p \in AmongOf(log, L, "tables"), q \in AmongOf(log, L, "tables") :
          p # q => log[p].tbl # log[q].tbl /\ log[p].name # log[q].name
    BY DEF Consistent, TablesApart
  <2> QED
    BY <1>1, <2>1, <2>2 DEF TablesApart
<1>3. ColumnsHome(log, M)
  BY <1>1 DEF Consistent, ColumnsHome
<1>4. ColumnsApart(log, M)
  BY <1>1 DEF Consistent, ColumnsApart
<1>5. IndexesHome(log, M)
  BY <1>1 DEF Consistent, IndexesHome
<1>6. IndexesApart(log, M)
  BY <1>1 DEF Consistent, IndexesApart
<1>7. PartsLater(log, M)
  BY <1>1 DEF Consistent, PartsLater
<1> QED
  BY <1>2, <1>3, <1>4, <1>5, <1>6, <1>7 DEF Consistent

-----------------------------------------------------------------------------
(* Schema requests *)

LEMMA LiveIs ==
  ASSUME NEW d
  PROVE  /\ \A kind : Live(d, kind) = AmongOf(d.log, d.live, kind)
         /\ \A kind, t : LiveOf(d, kind, t) = {o \in AmongOf(d.log, d.live, kind) : d.log[o].tbl = t}
         /\ Tables(d) = {d.log[o].tbl : o \in AmongOf(d.log, d.live, "tables")}
BY DEF Live, LiveOf, Tables, AmongOf

\* What of the schema is left is consistent in the file as it has grown, too.
LEMMA LiveMoves ==
  ASSUME NEW log, log \in Logs, NEW log2, Grown(log, log2), NEW L, L \subseteq DOMAIN log, Consistent(log, L)
  PROVE  Consistent(log2, L)
<1>1. log2 \in Logs /\ L \subseteq DOMAIN log2 /\ DOMAIN log = 1 .. Len(log)
  <2>1. DOMAIN log \subseteq DOMAIN log2
    BY GrownKinds
  <2> QED
    BY <2>1, LogIs DEF Grown
<1>2. \A o \in L : AlikeBlock(log[o], log2[o]) /\ (Made(log2, o) => Made(log, o))
  <2>1. \A o \in L : AlikeBlock(log[o], log2[o])
    BY <1>1 DEF Grown
  <2>2. \A o \in L : Made(log2, o) => Made(log, o)
    BY MadeStays
  <2> QED
    BY <2>1, <2>2
<1> QED
  BY <1>1, <1>2, ConsistentMoves

LEMMA RequestRight ==
  ASSUME TInv, PInv, plain, up, plain' = plain, up' = up, saved' = saved, fresh' = fresh, going' = going,
         NEW gone, Edited(db, gone, db'), DbFits(db'), db'.rows = {r \in db.rows : r[1] \in Tables(db')},
         TablesSame(db, db', nexttable), NewNumbered(db, db', nexttable),
         \A o \in NewIn(db, db') : db'.log[o].kind = "tables" => TableWhole(db'.log, o),
         nexttable' \in Nat, nexttable <= nexttable', \A u \in Tables(db') : u < nexttable',
         Consistent(db'.log, db'.live)
  PROVE  PInv'
<1>1. DbFits(db) /\ LogFits(db.log) /\ fresh \cup going \subseteq OfKind(db.log, "data") /\ nexttable \in Nat
  BY DEF TInv, DbFits, TN_VIEWS
<1>2. Grown(db.log, db'.log) /\ NoCommits(db.log, db'.log)
  <2>1. \A o \in NewIn(db, db') : db'.log[o].kind # "commit"
    BY DEF Edited, SchemaKinds
  <2> QED
    BY <2>1 DEF Edited, NoCommits, NewIn
<1>3. LogRight(db.log) /\ SavedIs(db.log, saved) /\ LiveRight(db, fresh, going, nexttable)
  BY DEF PInv
<1>4. LogRight(db'.log) /\ SavedIs(db'.log, saved)
  BY <1>1, <1>2, <1>3, GrownRight DEF NewIn
<1>5. RequestStep(db, fresh, going, nexttable, gone, db')
  BY <1>1, <1>2 DEF RequestStep
<1>6. LiveRight(db', fresh, going, nexttable')
  BY <1>1, <1>3, <1>5, StepRight
<1> QED
  BY <1>4, <1>6 DEF PInv

\* The rows are left alone.
LEMMA RowsStay ==
  ASSUME NEW d2, DbFits(d2), NEW rows, d2.rows = rows
  PROVE  d2.rows = {r \in rows : r[1] \in Tables(d2)}
BY DEF DbFits

ThreeMore(log, a, b, c, log2, n) ==
  /\ n \in Nat /\ DOMAIN log = 1 .. n /\ DOMAIN log2 = DOMAIN log \cup {n + 1, n + 2, n + 3}
  /\ DOMAIN log2 \ DOMAIN log = {n + 1, n + 2, n + 3}
  /\ \A o \in DOMAIN log : log2[o] = log[o] /\ o < n + 1 /\ o < n + 2 /\ o < n + 3
  /\ log2[n + 1] = a /\ log2[n + 2] = b /\ log2[n + 3] = c

LEMMA Longer3Is ==
  ASSUME NEW log, log \in Logs, NEW a, NEW b, NEW c, NEW log2, Longer3(log, a, b, c, log2),
         NEW n, n = Len(log)
  PROVE  ThreeMore(log, a, b, c, log2, n)
<1>1. n \in Nat /\ DOMAIN log = 1 .. n
  BY LogIs
<1>2. DOMAIN log2 = 1 .. n + 3
  <2>1. log2 \in Logs /\ Len(log2) = n + 3
    BY DEF Longer3
  <2> QED
    BY <2>1, LogIs
<1>3. 1 .. n + 3 = 1 .. n \cup {n + 1, n + 2, n + 3} /\ (1 .. n + 3) \ (1 .. n) = {n + 1, n + 2, n + 3}
  BY <1>1
<1>4. \A o \in 1 .. n : o < n + 1 /\ o < n + 2 /\ o < n + 3
  BY <1>1
<1>5. \A o \in 1 .. n : log2[o] = log[o]
  BY DEF Longer3
<1> QED
  BY <1>1, <1>2, <1>3, <1>4, <1>5 DEF Longer3, ThreeMore

LEMMA CreateTableRight ==
  ASSUME TInv, PInv, plain, NEW name \in Names, NEW col \in Columns, CreateTable(name, col)
  PROVE  PInv'
<1>0. /\ up /\ up' = up /\ plain' = plain /\ saved' = saved /\ fresh' = fresh /\ going' = going
      /\ nexttable' = nexttable + 1 /\ nexttable > TN_VIEWS /\ nexttable \in Nat
      /\ TablesNamed(db, name) = {}
  BY DEF CreateTable, Asks, TInv, TN_VIEWS
<1>1. PICK a : a = [TablesRec(nexttable, name) EXCEPT !.nextfield = 1]
  OBVIOUS
<1>2. PICK b : b = ColumnsRec(nexttable, col, 0)
  OBVIOUS
<1>3. PICK c : c = IndexesRec(nexttable, col)
  OBVIOUS
<1>4. /\ Edited(db, {}, db') /\ DbFits(db') /\ db'.rows = db.rows
      /\ Longer3(db.log, a, b, c, db'.log)
  BY <1>1, <1>2, <1>3, CreateTableIs
<1>5. PICK n : n = Len(db.log)
  OBVIOUS
<1>6. /\ n \in Nat /\ DOMAIN db.log = 1 .. n /\ DOMAIN db'.log = DOMAIN db.log \cup {n + 1, n + 2, n + 3}
      /\ DOMAIN db'.log \ DOMAIN db.log = {n + 1, n + 2, n + 3}
      /\ \A o \in DOMAIN db.log : db'.log[o] = db.log[o] /\ o < n + 1 /\ o < n + 2 /\ o < n + 3
      /\ db'.log[n + 1] = a /\ db'.log[n + 2] = b /\ db'.log[n + 3] = c
  <2>1. db.log \in Logs
    BY DEF TInv, DbFits, LogFits
  <2>2. ThreeMore(db.log, a, b, c, db'.log, n)
    BY <1>4, <1>5, <2>1, Longer3Is
  <2> QED
    BY <2>2 DEF ThreeMore
<1>7. /\ a.kind = "tables" /\ a.tbl = nexttable /\ a.name = name /\ a.nextfield = 1 /\ a.nrows = 0 /\ a.hidden = FALSE
      /\ b.kind = "columns" /\ b.tbl = nexttable /\ b.column = col /\ b.field = 0
      /\ c.kind = "indexes" /\ c.tbl = nexttable /\ c.column = col
  BY <1>1, <1>2, <1>3 DEF TablesRec, ColumnsRec, IndexesRec
<1>8. NewIn(db, db') = {n + 1, n + 2, n + 3}
  BY <1>6 DEF NewIn
<1>9. db'.live = db.live \cup {n + 1, n + 2, n + 3}
  BY <1>4, <1>8 DEF Edited
<1>10. LiveRight(db, fresh, going, nexttable) /\ db.live \subseteq DOMAIN db.log
  BY <1>0 DEF PInv, TInv, DbFits
<1>11. Live(db', "tables") = Live(db, "tables") \cup {n + 1}
  BY <1>6, <1>7, <1>9, <1>10 DEF Live
<1>12. \A o \in Live(db, "tables") : db'.log[o] = db.log[o] /\ db.log[o].tbl < nexttable /\ db.log[o].tbl \in Nat
  <2>1. \A o \in Live(db, "tables") : o \in DOMAIN db.log /\ db.log[o].kind = "tables"
    BY <1>10 DEF Live
  <2>2. \A o \in Live(db, "tables") : db.log[o].tbl \in Nat
    BY <2>1, TblIsNat DEF TInv, DbFits, LogFits
  <2> QED
    BY <1>6, <1>10, <2>1, <2>2 DEF LiveRight, Numbered
<1>13. TablesSame(db, db', nexttable)
  <2>1. \A o \in Live(db, "tables") : SameTable(db, db', o)
    BY <1>12 DEF SameTable
  <2>2. NewTable(db, db', nexttable, n + 1)
    BY <1>0, <1>6, <1>7 DEF NewTable
  <2> QED
    BY <1>11, <2>1, <2>2 DEF TablesSame
<1>14. \A o \in NewIn(db, db') : db'.log[o].kind = "tables" => o = n + 1
  BY <1>6, <1>7, <1>8
<1>15. NewNumbered(db, db', nexttable)
  BY <1>0, <1>6, <1>7, <1>14 DEF NewNumbered
<1>16. TableWhole(db'.log, n + 1)
  <2>1. (n + 1) + 1 = n + 2 /\ (n + 1) + 2 = n + 3
    BY <1>6
  <2> QED
    BY <1>6, <1>7, <2>1 DEF TableWhole, WholeAt
<1>17. nexttable' \in Nat /\ nexttable <= nexttable' /\ \A u \in Tables(db') : u < nexttable'
  <2>1. \A o \in Live(db', "tables") : db'.log[o].tbl < nexttable + 1
    <3>1. \A o \in Live(db, "tables") : db'.log[o].tbl < nexttable + 1
      BY <1>0, <1>12
    <3>2. db'.log[n + 1].tbl < nexttable + 1
      BY <1>0, <1>6, <1>7
    <3> QED
      BY <1>11, <3>1, <3>2
  <2> QED
    BY <1>0, <2>1 DEF Tables
<1>18. Consistent(db'.log, db'.live)
  <2>1. Consistent(db'.log, db.live)
    <3>1. db.log \in Logs /\ Grown(db.log, db'.log) /\ Consistent(db.log, db.live)
      BY <1>4, <1>10 DEF Edited, TInv, DbFits, LogFits, LiveRight
    <3> QED
      BY <1>10, <3>1, LiveMoves
  <2>2. AmongOf(db'.log, db.live, "tables") = Live(db, "tables")
    BY <1>6, <1>10 DEF AmongOf, Live
  <2>3. \A o \in AmongOf(db'.log, db.live, "tables") :
          db'.log[o].tbl # nexttable /\ db'.log[o].name # name
    <3>1. \A o \in Live(db, "tables") : db.log[o].name # name
      BY <1>0 DEF TablesNamed
    <3>2. \A o \in Live(db, "tables") : db.log[o].tbl # nexttable
      BY <1>0, <1>12
    <3> QED
      BY <1>12, <2>2, <3>1, <3>2
  <2>4. PICK L1 : L1 = db.live \cup {n + 1}
    OBVIOUS
  <2>5. Consistent(db'.log, L1)
    BY <1>0, <1>6, <1>7, <2>1, <2>3, <2>4, ConsistentTable
  <2>6. \A p \in AmongOf(db'.log, db.live, "columns") \cup AmongOf(db'.log, db.live, "indexes") :
          db'.log[p].tbl # nexttable
    <3>1. \A p \in AmongOf(db'.log, db.live, "columns") : db'.log[p].tbl # nexttable
      BY <2>1, <2>3 DEF Consistent, ColumnsHome
    <3>2. \A p \in AmongOf(db'.log, db.live, "indexes") : db'.log[p].tbl # nexttable
      BY <2>1, <3>1 DEF Consistent, IndexesHome
    <3> QED
      BY <3>1, <3>2
  <2>7. PICK L2 : L2 = L1 \cup {n + 2}
    OBVIOUS
  <2>8. Consistent(db'.log, L2)
    <3>1. n + 1 \in AmongOf(db'.log, L1, "tables")
      BY <1>6, <1>7, <2>4 DEF AmongOf
    <3>2. AmongOf(db'.log, L1, "columns") = AmongOf(db'.log, db.live, "columns")
      BY <1>6, <1>7, <2>4 DEF AmongOf
    <3>3. \A p \in AmongOf(db'.log, L1, "columns") : db'.log[p].tbl # nexttable
      BY <2>6, <3>2
    <3>4. \A o \in L1 : o < n + 2
      BY <1>6, <1>10, <2>4
    <3>5. db'.log[n + 2].field < db'.log[n + 1].nextfield
      BY <1>6, <1>7
    <3> QED
      BY <1>6, <1>7, <2>5, <2>7, <3>1, <3>3, <3>4, <3>5, ConsistentColumn
  <2>9. Consistent(db'.log, L2 \cup {n + 3})
    <3>1. n + 2 \in AmongOf(db'.log, L2, "columns")
      BY <1>6, <1>7, <2>7 DEF AmongOf
    <3>2. AmongOf(db'.log, L2, "indexes") = AmongOf(db'.log, db.live, "indexes")
      BY <1>6, <1>7, <2>4, <2>7 DEF AmongOf
    <3>3. \A p \in AmongOf(db'.log, L2, "indexes") : db'.log[p].tbl # nexttable
      BY <2>6, <3>2
    <3>4. \A o \in L2 : o < n + 3
      BY <1>6, <1>10, <2>4, <2>7
    <3> QED
      BY <1>6, <1>7, <2>8, <3>1, <3>3, <3>4, ConsistentIndex
  <2>10. db'.live = L2 \cup {n + 3}
    BY <1>9, <2>4, <2>7
  <2> QED
    BY <2>9, <2>10
<1>19. db'.rows = {r \in db.rows : r[1] \in Tables(db')}
  BY <1>4, RowsStay
<1>20. \A o \in NewIn(db, db') : db'.log[o].kind = "tables" => TableWhole(db'.log, o)
  BY <1>14, <1>16
<1> QED
  BY <1>0, <1>4, <1>13, <1>15, <1>17, <1>18, <1>19, <1>20, RequestRight

OneMore(log, b, log2, n) ==
  /\ n \in Nat /\ DOMAIN log = 1 .. n /\ DOMAIN log2 = DOMAIN log \cup {n + 1}
  /\ DOMAIN log2 \ DOMAIN log = {n + 1} /\ n + 1 \notin DOMAIN log
  /\ \A o \in DOMAIN log : log2[o] = log[o] /\ o < n + 1 /\ o \in 1 .. n
  /\ log2[n + 1] = b

LEMMA OneMoreIs ==
  ASSUME NEW log, log \in Logs, NEW b, NEW log2, Longer(log, b, log2), NEW n, n = Len(log)
  PROVE  OneMore(log, b, log2, n)
<1>1. n \in Nat /\ DOMAIN log = 1 .. n
  BY LogIs
<1>2. DOMAIN log2 = DOMAIN log \cup {n + 1} /\ DOMAIN log2 \ DOMAIN log = {n + 1} /\ n + 1 \notin DOMAIN log
  BY LongerDomain
<1>3. \A o \in 1 .. n : o < n + 1
  BY <1>1
<1>4. \A o \in 1 .. n : log2[o] = log[o]
  BY DEF Longer
<1>5. log2[n + 1] = b
  BY DEF Longer
<1> QED
  BY <1>1, <1>2, <1>3, <1>4, <1>5 DEF OneMore

\* What the live schema is, when a request comes.
LEMMA LiveSchemaIs ==
  ASSUME TInv, PInv, plain, up
  PROVE  /\ LiveRight(db, fresh, going, nexttable) /\ Consistent(db.log, db.live) /\ DbFits(db)
         /\ db.log \in Logs /\ LogFits(db.log)
         /\ db.live \subseteq DOMAIN db.log /\ db.live \cap Deleted(db.log) = {} /\ nexttable \in Nat
         /\ \A o \in Live(db, "tables") : /\ o \in db.live /\ o \in DOMAIN db.log /\ db.log[o].kind = "tables"
                                          /\ db.log[o].tbl < nexttable /\ db.log[o].tbl \in Nat
                                          /\ db.log[o].tbl > TN_VIEWS
         /\ \A u \in Tables(db) : u < nexttable
<1>1. LiveRight(db, fresh, going, nexttable) /\ DbFits(db) /\ LogFits(db.log) /\ nexttable \in Nat
  BY DEF PInv, TInv, DbFits, TN_VIEWS
<1>2. db.log \in Logs /\ Consistent(db.log, db.live) /\ db.live \cap Deleted(db.log) = {}
  BY <1>1 DEF LogFits, LiveRight, LiveSchema
<1>3. db.live \subseteq DOMAIN db.log
  BY <1>1 DEF DbFits
<1>4. \A o \in Live(db, "tables") : o \in db.live /\ o \in DOMAIN db.log /\ db.log[o].kind = "tables"
  BY <1>3 DEF Live
<1>5. \A o \in Live(db, "tables") : db.log[o].tbl < nexttable
  BY <1>1 DEF LiveRight, Numbered
<1>6. \A o \in Live(db, "tables") : db.log[o].tbl \in Nat
  BY <1>2, <1>4, TblIsNat
<1>7. \A o \in Live(db, "tables") : db.log[o].tbl > TN_VIEWS
  BY <1>2, LiveIs DEF Consistent, TablesApart
<1> QED
  BY <1>1, <1>2, <1>3, <1>4, <1>5, <1>6, <1>7 DEF Tables

LEMMA CreateTableFailsRight ==
  ASSUME TInv, PInv, plain, NEW name \in Names, CreateTableFails(name)
  PROVE  PInv'
<1>0. /\ up /\ up' = up /\ plain' = plain /\ saved' = saved /\ fresh' = fresh /\ going' = going
      /\ nexttable' = nexttable + 1 /\ nexttable <= TN_VIEWS /\ nexttable \in Nat
  BY DEF CreateTableFails, Asks, TInv, TN_VIEWS
<1>1. PICK b : b = TablesRec(nexttable, name)
  OBVIOUS
<1>2. PICK n : n = Len(db.log)
  OBVIOUS
<1>3. /\ Edited(db, {n + 1}, db') /\ DbFits(db') /\ db'.rows = db.rows
      /\ Longer(db.log, b, db'.log)
  BY <1>1, <1>2, CreateTableFailsIs
<1>4. OneMore(db.log, b, db'.log, n)
  BY <1>2, <1>3, OneMoreIs DEF TInv, DbFits, LogFits
<1>5. b.kind = "tables" /\ b.tbl = nexttable /\ b.hidden = FALSE
  BY <1>1 DEF TablesRec
<1>6. /\ NewIn(db, db') = {n + 1} /\ db'.log[n + 1] = b
      /\ \A o \in DOMAIN db.log : db'.log[o] = db.log[o]
  BY <1>4 DEF OneMore, NewIn
<1>7. db'.live = db.live
  BY <1>3, <1>4, <1>6 DEF Edited, OneMore, TInv, DbFits
<1>8. ~ Made(db'.log, n + 1)
  BY <1>0, <1>5, <1>6 DEF Made, TN_VIEWS
<1>9. Live(db', "tables") = Live(db, "tables") /\ \A o \in Live(db, "tables") : db'.log[o] = db.log[o]
  BY <1>0, <1>6, <1>7, LiveSchemaIs DEF Live
<1>10. TablesSame(db, db', nexttable)
  BY <1>9 DEF TablesSame, SameTable
<1>11. NewNumbered(db, db', nexttable)
  BY <1>6, <1>8 DEF NewNumbered
<1>12. nexttable' \in Nat /\ nexttable <= nexttable' /\ \A u \in Tables(db') : u < nexttable'
  <2>1. \A o \in Live(db, "tables") : db'.log[o].tbl < nexttable + 1
    BY <1>0, <1>9, LiveSchemaIs
  <2> QED
    BY <1>0, <1>9, <2>1 DEF Tables
<1>13. Consistent(db'.log, db'.live)
  <2>1. db.log \in Logs /\ Grown(db.log, db'.log) /\ Consistent(db.log, db.live) /\ db.live \subseteq DOMAIN db.log
    BY <1>0, <1>3, LiveSchemaIs DEF Edited
  <2> QED
    BY <1>7, <2>1, LiveMoves
<1>14. \A o \in NewIn(db, db') : db'.log[o].kind = "tables" => TableWhole(db'.log, o)
  BY <1>5, <1>6, <1>8 DEF TableWhole
<1>15. db'.rows = {r \in db.rows : r[1] \in Tables(db')}
  BY <1>3, RowsStay
<1> QED
  BY <1>0, <1>3, <1>10, <1>11, <1>12, <1>13, <1>14, <1>15, RequestRight

\* A request that only removes schema records.
LEMMA RemovalRight ==
  ASSUME TInv, PInv, plain, up, plain' = plain, up' = up, saved' = saved, fresh' = fresh, going' = going,
         nexttable' = nexttable, NEW gone, Edited(db, gone, db'), DbFits(db'), db'.log = db.log,
         db'.rows = {r \in db.rows : r[1] \in Tables(db')},
         \A c \in AmongOf(db.log, db.live \ gone, "columns"), o \in AmongOf(db.log, db.live, "tables") :
           db.log[o].tbl = db.log[c].tbl => o \notin gone,
         \A i \in AmongOf(db.log, db.live \ gone, "indexes"), c \in AmongOf(db.log, db.live, "columns") :
           db.log[c].tbl = db.log[i].tbl /\ db.log[c].column = db.log[i].column => c \notin gone
  PROVE  PInv'
<1>1. NewIn(db, db') = {} /\ db'.live = db.live \ gone
  BY DEF NewIn, Edited
<1>2. Live(db', "tables") \subseteq Live(db, "tables") /\ Tables(db') \subseteq Tables(db)
  BY <1>1 DEF Live, Tables
<1>3. TablesSame(db, db', nexttable) /\ NewNumbered(db, db', nexttable)
  BY <1>1, <1>2 DEF TablesSame, SameTable, NewNumbered
<1>4. nexttable' \in Nat /\ nexttable <= nexttable' /\ \A u \in Tables(db') : u < nexttable'
  BY <1>2, LiveSchemaIs
<1>5. Consistent(db'.log, db'.live)
  <2>1. Consistent(db.log, db.live)
    BY LiveSchemaIs
  <2>2. PICK M : M = db.live \ gone
    OBVIOUS
  <2>3. /\ \A c \in AmongOf(db.log, M, "columns"), o \in AmongOf(db.log, db.live, "tables") :
             db.log[o].tbl = db.log[c].tbl => o \in M
        /\ \A i \in AmongOf(db.log, M, "indexes"), c \in AmongOf(db.log, db.live, "columns") :
             db.log[c].tbl = db.log[i].tbl /\ db.log[c].column = db.log[i].column => c \in M
        /\ M \subseteq db.live
    BY <2>2 DEF AmongOf
  <2>4. Consistent(db.log, M)
    BY <2>1, <2>3, ConsistentLess
  <2> QED
    BY <1>1, <2>2, <2>4
<1>6. \A o \in NewIn(db, db') : db'.log[o].kind = "tables" => TableWhole(db'.log, o)
  BY <1>1
<1> QED
  BY <1>3, <1>4, <1>5, <1>6, RequestRight

LEMMA DropTableRight ==
  ASSUME TInv, PInv, plain, NEW t \in Tables(db), DropTable(t)
  PROVE  PInv'
<1>0. /\ up /\ up' = up /\ plain' = plain /\ saved' = saved /\ fresh' = fresh /\ going' = going
      /\ nexttable' = nexttable
  BY DEF DropTable, Asks
<1>1. PICK gone : gone = PartsOf(db, t)
  OBVIOUS
<1>2. Edited(db, gone, db') /\ DbFits(db') /\ db'.log = db.log /\ db'.rows = {r \in db.rows : r[1] # t}
  BY <1>1, DropTableIs
<1>3. \A o : o \in gone <=> o \in db.live /\ db.log[o].kind \in SchemaKinds /\ db.log[o].tbl = t
  BY <1>1 DEF PartsOf, LiveOf, Live, SchemaKinds
<1>4. db'.live = db.live \ gone
  BY <1>2 DEF Edited, NewIn
<1>5. \A u : u \in Tables(db') <=> u \in Tables(db) /\ u # t
  <2>1. \A o : o \in Live(db', "tables") <=> o \in Live(db, "tables") /\ db.log[o].tbl # t
    BY <1>2, <1>3, <1>4 DEF Live, SchemaKinds
  <2> QED
    BY <1>2, <2>1 DEF Tables
<1>6. db'.rows = {r \in db.rows : r[1] \in Tables(db')}
  BY <1>2, <1>5 DEF TInv, DbFits
<1>7. /\ \A c \in AmongOf(db.log, db.live \ gone, "columns"), o \in AmongOf(db.log, db.live, "tables") :
           db.log[o].tbl = db.log[c].tbl => o \notin gone
      /\ \A i \in AmongOf(db.log, db.live \ gone, "indexes"), c \in AmongOf(db.log, db.live, "columns") :
           db.log[c].tbl = db.log[i].tbl /\ db.log[c].column = db.log[i].column => c \notin gone
  BY <1>3 DEF AmongOf, SchemaKinds
<1> QED
  BY <1>0, <1>2, <1>6, <1>7, RemovalRight

LEMMA RemoveColumnRight ==
  ASSUME TInv, PInv, plain, NEW t \in Tables(db), NEW col \in Columns, RemoveColumn(t, col)
  PROVE  PInv'
<1>0. /\ up /\ up' = up /\ plain' = plain /\ saved' = saved /\ fresh' = fresh /\ going' = going
      /\ nexttable' = nexttable /\ On(db, LiveOf(db, "indexes", t), col) = {}
  BY DEF RemoveColumn, Asks
<1>1. PICK gone : gone = On(db, LiveOf(db, "columns", t), col)
  OBVIOUS
<1>2. Edited(db, gone, db') /\ DbFits(db') /\ db'.log = db.log /\ db'.rows = db.rows
  BY <1>1, RemoveColumnIs
<1>3. \A o \in gone : db.log[o].kind = "columns" /\ db.log[o].tbl = t /\ db.log[o].column = col
  BY <1>1 DEF On, LiveOf, Live
<1>4. db'.rows = {r \in db.rows : r[1] \in Tables(db')}
  BY <1>2, RowsStay
<1>5. \A c \in AmongOf(db.log, db.live \ gone, "columns"), o \in AmongOf(db.log, db.live, "tables") :
        db.log[o].tbl = db.log[c].tbl => o \notin gone
  BY <1>3 DEF AmongOf
<1>6. \A i \in AmongOf(db.log, db.live \ gone, "indexes"), c \in AmongOf(db.log, db.live, "columns") :
        db.log[c].tbl = db.log[i].tbl /\ db.log[c].column = db.log[i].column => c \notin gone
  BY <1>0, <1>3 DEF AmongOf, On, LiveOf, Live
<1> QED
  BY <1>0, <1>2, <1>4, <1>5, <1>6, RemovalRight

LEMMA RemoveIndexRight ==
  ASSUME TInv, PInv, plain, NEW t \in Tables(db), NEW col \in Columns, RemoveIndex(t, col)
  PROVE  PInv'
<1>0. /\ up /\ up' = up /\ plain' = plain /\ saved' = saved /\ fresh' = fresh /\ going' = going
      /\ nexttable' = nexttable
  BY DEF RemoveIndex, Asks
<1>1. PICK gone : gone = On(db, LiveOf(db, "indexes", t), col)
  OBVIOUS
<1>2. Edited(db, gone, db') /\ DbFits(db') /\ db'.log = db.log /\ db'.rows = db.rows
  BY <1>1, RemoveIndexIs
<1>3. \A o \in gone : db.log[o].kind = "indexes"
  BY <1>1 DEF On, LiveOf, Live
<1>4. db'.rows = {r \in db.rows : r[1] \in Tables(db')}
  BY <1>2, RowsStay
<1>5. /\ \A c \in AmongOf(db.log, db.live \ gone, "columns"), o \in AmongOf(db.log, db.live, "tables") :
           db.log[o].tbl = db.log[c].tbl => o \notin gone
      /\ \A i \in AmongOf(db.log, db.live \ gone, "indexes"), c \in AmongOf(db.log, db.live, "columns") :
           db.log[c].tbl = db.log[i].tbl /\ db.log[c].column = db.log[i].column => c \notin gone
  BY <1>3 DEF AmongOf
<1> QED
  BY <1>0, <1>2, <1>4, <1>5, RemovalRight

LEMMA RenameTableRight ==
  ASSUME TInv, PInv, plain, NEW t \in Tables(db), NEW name \in Names, RenameTable(t, name)
  PROVE  PInv'
<1>0. /\ up /\ up' = up /\ plain' = plain /\ saved' = saved /\ fresh' = fresh /\ going' = going
      /\ nexttable' = nexttable /\ TablesNamed(db, name) = {}
  BY DEF RenameTable, Asks
<1>1. PICK o : o = TableOf(db, t)
  OBVIOUS
<1>2. /\ o \in Live(db, "tables") /\ db.log[o].tbl = t /\ db.log[o] \in TablesBlock /\ o \in DOMAIN db.log
      /\ o \in db.live /\ db.log[o].kind = "tables"
  BY <1>1, TableOfIs DEF TInv, Live
<1>3. PICK b : b = [db.log[o] EXCEPT !.name = name, !.hidden = FALSE]
  OBVIOUS
<1>4. PICK n : n = Len(db.log)
  OBVIOUS
<1>5. Edited(db, {o}, db') /\ DbFits(db') /\ db'.rows = db.rows /\ Longer(db.log, b, db'.log)
  BY <1>1, <1>3, RenameTableIs
<1>6. OneMore(db.log, b, db'.log, n)
  BY <1>4, <1>5, OneMoreIs DEF TInv, DbFits, LogFits
<1>7. /\ b.kind = "tables" /\ b.tbl = t /\ b.name = name /\ b.hidden = FALSE
      /\ b.nrows = db.log[o].nrows /\ b.nextfield = db.log[o].nextfield
  BY <1>2, <1>3 DEF TablesBlock
<1>8. /\ NewIn(db, db') = {n + 1} /\ db'.log[n + 1] = b /\ n \in Nat
      /\ \A p \in DOMAIN db.log : db'.log[p] = db.log[p] /\ p \in 1 .. n /\ p < n + 1
  BY <1>6 DEF OneMore, NewIn
<1>9. db'.live = (db.live \cup {n + 1}) \ {o}
  BY <1>5, <1>8 DEF Edited
<1>10. ~ Made(db'.log, n + 1)
  <2>1. Commits(db'.log) = Commits(db.log) /\ \A c \in Commits(db.log) : db'.log[c] = db.log[c]
    <3>1. db.log \in Logs /\ Grown(db.log, db'.log) /\ NoCommits(db.log, db'.log)
      BY <1>5, <1>7, <1>8, LiveSchemaIs, <1>0 DEF Edited, NoCommits, NewIn
    <3> QED
      BY <3>1, GrownCommits
  <2>2. o \notin Deleted(db.log)
    BY <1>0, <1>2, LiveSchemaIs
  <2>3. ~ \E c \in Commits(db'.log) : c < n + 1 /\ o \in db'.log[c].deletes
    BY <2>1, <2>2 DEF Deleted
  <2>4. o \in 1 .. (n + 1) - 1 /\ db'.log[o].kind = "tables" /\ db'.log[o].tbl = db'.log[n + 1].tbl
    <3>1. (n + 1) - 1 = n
      BY <1>8
    <3> QED
      BY <1>2, <1>7, <1>8, <3>1
  <2> QED
    BY <2>3, <2>4 DEF Made
<1>11. Live(db', "tables") = (Live(db, "tables") \cup {n + 1}) \ {o}
  <2>1. \A p \in db.live : p \in DOMAIN db.log
    BY <1>0, LiveSchemaIs
  <2> QED
    BY <1>7, <1>8, <1>9, <2>1 DEF Live
<1>12. \A p \in Live(db, "tables") : db'.log[p] = db.log[p]
  BY <1>0, <1>8, LiveSchemaIs
<1>13. TablesSame(db, db', nexttable)
  <2>1. \A p \in Live(db, "tables") : SameTable(db, db', p)
    BY <1>12 DEF SameTable
  <2>2. SameTable(db, db', n + 1)
    BY <1>2, <1>7, <1>8, <1>10 DEF SameTable
  <2> QED
    BY <1>11, <2>1, <2>2 DEF TablesSame
<1>14. NewNumbered(db, db', nexttable)
  BY <1>8, <1>10 DEF NewNumbered
<1>15. nexttable' \in Nat /\ nexttable <= nexttable' /\ \A u \in Tables(db') : u < nexttable'
  <2>1. nexttable \in Nat /\ \A p \in Live(db, "tables") : db.log[p].tbl < nexttable
    BY <1>0, LiveSchemaIs
  <2>2. \A p \in Live(db', "tables") : db'.log[p].tbl < nexttable
    BY <1>2, <1>7, <1>8, <1>11, <1>12, <2>1
  <2> QED
    BY <1>0, <2>1, <2>2 DEF Tables
<1>16. Consistent(db'.log, db'.live)
  <2>1. db.log \in Logs /\ Grown(db.log, db'.log) /\ Consistent(db.log, db.live) /\ db.live \subseteq DOMAIN db.log
    BY <1>0, <1>5, LiveSchemaIs DEF Edited
  <2>2. Consistent(db'.log, db.live)
    BY <2>1, LiveMoves
  <2>3. AmongOf(db'.log, db.live, "tables") = Live(db, "tables")
    BY <1>8, <2>1 DEF AmongOf, Live
  <2>4. \A p \in AmongOf(db'.log, db.live, "tables") : db'.log[p].name # db'.log[n + 1].name
    BY <1>0, <1>7, <1>8, <1>12, <2>3 DEF TablesNamed
  <2>5. o \in AmongOf(db'.log, db.live, "tables") /\ n + 1 # o
    BY <1>2, <1>8, <2>3
  <2>6. /\ db'.log[n + 1].kind = "tables" /\ db'.log[n + 1].tbl = db'.log[o].tbl
        /\ db'.log[n + 1].nextfield = db'.log[o].nextfield
    BY <1>2, <1>7, <1>8
  <2>7. PICK i : i = n + 1
    OBVIOUS
  <2> QED
    BY <1>9, <1>10, <2>2, <2>4, <2>5, <2>6, <2>7, ConsistentRename
<1>17. \A p \in NewIn(db, db') : db'.log[p].kind = "tables" => TableWhole(db'.log, p)
  BY <1>7, <1>8, <1>10 DEF TableWhole
<1>18. db'.rows = {r \in db.rows : r[1] \in Tables(db')}
  BY <1>5, RowsStay
<1> QED
  BY <1>0, <1>5, <1>13, <1>14, <1>15, <1>16, <1>17, <1>18, RequestRight

\* A request that writes and removes records of columns and indexes.
LEMMA PartsRight ==
  ASSUME TInv, PInv, plain, up, plain' = plain, up' = up, saved' = saved, fresh' = fresh, going' = going,
         nexttable' = nexttable, NEW gone, Edited(db, gone, db'), DbFits(db'), db'.rows = db.rows,
         \A o \in NewIn(db, db') : db'.log[o].kind # "tables",
         \A o \in gone \cap db.live : db.log[o].kind # "tables",
         \A o \in Live(db, "tables") : db'.log[o].nrows = db.log[o].nrows,
         Consistent(db'.log, db'.live)
  PROVE  PInv'
<1>1. /\ \A o \in Live(db', "tables") : o \in Live(db, "tables")
      /\ \A o \in Live(db, "tables") : db'.log[o].tbl = db.log[o].tbl
  <2>1. Grown(db.log, db'.log) /\ db'.live \subseteq db.live \cup NewIn(db, db')
    BY DEF Edited
  <2>2. \A o \in db.live : o \in DOMAIN db.log /\ db'.log[o].kind = db.log[o].kind
    BY <2>1, LiveSchemaIs, GrownKinds
  <2>3. \A o \in Live(db, "tables") : db'.log[o].tbl = db.log[o].tbl
    BY <2>1, LiveSchemaIs, GrownKinds DEF SchemaKinds
  <2> QED
    BY <2>1, <2>2, <2>3 DEF Live
<1>2. TablesSame(db, db', nexttable) /\ NewNumbered(db, db', nexttable)
  BY <1>1 DEF TablesSame, SameTable, NewNumbered
<1>3. nexttable' \in Nat /\ nexttable <= nexttable' /\ \A u \in Tables(db') : u < nexttable'
  <2>1. nexttable \in Nat /\ \A o \in Live(db, "tables") : db.log[o].tbl < nexttable
    BY LiveSchemaIs
  <2> QED
    BY <1>1, <2>1 DEF Tables
<1>4. \A o \in NewIn(db, db') : db'.log[o].kind = "tables" => TableWhole(db'.log, o)
  OBVIOUS
<1>5. db'.rows = {r \in db.rows : r[1] \in Tables(db')}
  BY RowsStay
<1> QED
  BY <1>2, <1>3, <1>4, <1>5, RequestRight

LEMMA AddIndexRight ==
  ASSUME TInv, PInv, plain, NEW t \in Tables(db), NEW col \in Columns, AddIndex(t, col)
  PROVE  PInv'
<1>0. /\ up /\ up' = up /\ plain' = plain /\ saved' = saved /\ fresh' = fresh /\ going' = going
      /\ nexttable' = nexttable
      /\ On(db, LiveOf(db, "columns", t), col) # {} /\ On(db, LiveOf(db, "indexes", t), col) = {}
  BY DEF AddIndex, Asks
<1>1. PICK b : b = IndexesRec(t, col)
  OBVIOUS
<1>2. PICK n : n = Len(db.log)
  OBVIOUS
<1>3. Edited(db, {}, db') /\ DbFits(db') /\ db'.rows = db.rows /\ Longer(db.log, b, db'.log)
  BY <1>1, AddIndexIs
<1>4. OneMore(db.log, b, db'.log, n)
  BY <1>2, <1>3, OneMoreIs DEF TInv, DbFits, LogFits
<1>5. b.kind = "indexes" /\ b.tbl = t /\ b.column = col
  BY <1>1 DEF IndexesRec
<1>6. /\ NewIn(db, db') = {n + 1} /\ db'.log[n + 1] = b /\ n \in Nat
      /\ \A p \in DOMAIN db.log : db'.log[p] = db.log[p] /\ p < n + 1
  BY <1>4 DEF OneMore, NewIn
<1>7. db'.live = db.live \cup {n + 1}
  BY <1>3, <1>6 DEF Edited
<1>8. \A o \in Live(db, "tables") : db'.log[o].nrows = db.log[o].nrows
  BY <1>0, <1>6, LiveSchemaIs
<1>9. Consistent(db'.log, db'.live)
  <2>1. db.log \in Logs /\ Grown(db.log, db'.log) /\ Consistent(db.log, db.live) /\ db.live \subseteq DOMAIN db.log
    BY <1>0, <1>3, LiveSchemaIs DEF Edited
  <2>2. Consistent(db'.log, db.live)
    BY <2>1, LiveMoves
  <2>3. /\ \A kind : AmongOf(db'.log, db.live, kind) = Live(db, kind)
        /\ \A p \in db.live : db'.log[p] = db.log[p] /\ p < n + 1
    BY <1>6, <2>1 DEF AmongOf, Live
  <2>4. PICK h \in On(db, LiveOf(db, "columns", t), col) : TRUE
    BY <1>0
  <2>5. /\ h \in AmongOf(db'.log, db.live, "columns")
        /\ db'.log[h].tbl = db'.log[n + 1].tbl /\ db'.log[h].column = db'.log[n + 1].column
    BY <1>5, <1>6, <2>3, <2>4 DEF On, LiveOf, Live
  <2>6. \A x \in AmongOf(db'.log, db.live, "indexes") :
          db'.log[x].tbl = db'.log[n + 1].tbl => db'.log[x].column # db'.log[n + 1].column
    BY <1>0, <1>5, <1>6, <2>3 DEF On, LiveOf, Live
  <2>7. PICK i : i = n + 1
    OBVIOUS
  <2> QED
    BY <1>5, <1>6, <1>7, <2>2, <2>3, <2>5, <2>6, <2>7, ConsistentIndex
<1>10. /\ \A o \in NewIn(db, db') : db'.log[o].kind # "tables"
       /\ \A o \in {} \cap db.live : db.log[o].kind # "tables"
  BY <1>5, <1>6
<1> QED
  BY <1>0, <1>3, <1>8, <1>9, <1>10, PartsRight

LEMMA AddColumnRight ==
  ASSUME TInv, PInv, plain, NEW t \in Tables(db), NEW col \in Columns, AddColumn(t, col)
  PROVE  PInv'
<1>0. /\ up /\ up' = up /\ plain' = plain /\ saved' = saved /\ fresh' = fresh /\ going' = going
      /\ nexttable' = nexttable /\ On(db, LiveOf(db, "columns", t), col) = {}
  BY DEF AddColumn, Asks
<1>1. PICK o : o = TableOf(db, t)
  OBVIOUS
<1>2. /\ o \in Live(db, "tables") /\ db.log[o].tbl = t /\ db.log[o] \in TablesBlock /\ o \in DOMAIN db.log
      /\ o \in db.live /\ db.log[o].kind = "tables"
  BY <1>1, TableOfIs DEF TInv, Live
<1>3. PICK f : f = db.log[o].nextfield
  OBVIOUS
<1>4. PICK b : b = ColumnsRec(t, col, f)
  OBVIOUS
<1>5. PICK n : n = Len(db.log)
  OBVIOUS
<1>6. Edited(db, {}, db') /\ DbFits(db') /\ db'.rows = db.rows /\ Fielded(db.log, o, f, b, db'.log)
  BY <1>1, <1>3, <1>4, AddColumnIs
<1>7. b.kind = "columns" /\ b.tbl = t /\ b.column = col /\ b.field = f /\ f \in Nat
  BY <1>2, <1>3, <1>4 DEF ColumnsRec, TablesBlock
<1>8. db.log \in Logs /\ n \in Nat /\ DOMAIN db.log = 1 .. n /\ db.live \subseteq DOMAIN db.log
  BY <1>0, <1>5, LiveSchemaIs, LogIs
<1>9. DOMAIN db'.log = 1 .. n + 1
  <2>1. db'.log \in Logs /\ Len(db'.log) = n + 1
    BY <1>5, <1>6 DEF Fielded
  <2> QED
    BY <2>1, LogIs
<1>10. /\ NewIn(db, db') = {n + 1} /\ db'.log[n + 1] = b
       /\ \A p \in DOMAIN db.log : p < n + 1
  <2>1. (1 .. n + 1) \ (1 .. n) = {n + 1} /\ \A p \in 1 .. n : p < n + 1
    BY <1>8
  <2>2. db'.log[n + 1] = b
    BY <1>5, <1>6 DEF Fielded
  <2> QED
    BY <1>8, <1>9, <2>1, <2>2 DEF NewIn
<1>11. /\ \A p \in DOMAIN db.log : p # o => db'.log[p] = db.log[p]
       /\ db'.log[o] = [db.log[o] EXCEPT !.nextfield = f + 1]
  BY <1>5, <1>6, <1>8 DEF Fielded
<1>12. /\ db'.log[o].kind = "tables" /\ db'.log[o].tbl = t /\ db'.log[o].nrows = db.log[o].nrows
       /\ db'.log[o].nextfield = f + 1
  BY <1>2, <1>11 DEF TablesBlock
<1>13. db'.live = db.live \cup {n + 1}
  BY <1>6, <1>10 DEF Edited
<1>14. \A p \in Live(db, "tables") : db'.log[p].nrows = db.log[p].nrows
  BY <1>0, <1>11, <1>12, LiveSchemaIs
<1>15. Consistent(db'.log, db'.live)
  <2>1. db.log \in Logs /\ Grown(db.log, db'.log) /\ Consistent(db.log, db.live)
    BY <1>0, <1>6, LiveSchemaIs DEF Edited
  <2>2. Consistent(db'.log, db.live)
    BY <1>8, <2>1, LiveMoves
  <2>3. /\ AmongOf(db'.log, db.live, "columns") = Live(db, "columns")
        /\ \A c \in Live(db, "columns") : db'.log[c] = db.log[c]
    BY <1>2, <1>8, <1>11, <1>12 DEF AmongOf, Live
  <2>4. o \in AmongOf(db'.log, db.live, "tables") /\ f < db'.log[o].nextfield
    BY <1>2, <1>7, <1>12 DEF AmongOf
  <2>5. ASSUME NEW c \in Live(db, "columns"), db.log[c].tbl = t
        PROVE  db.log[c].column # col /\ db.log[c].field # f
    <3>1. db.log[c].column # col
      BY <1>0, <2>5 DEF On, LiveOf
    <3>2. PICK q \in AmongOf(db.log, db.live, "tables") :
            db.log[q].tbl = db.log[c].tbl /\ db.log[c].field < db.log[q].nextfield
      BY <2>1, LiveIs DEF Consistent, ColumnsHome
    <3>3. q = o
      BY <1>2, <2>1, <2>5, <3>2, LiveIs DEF Consistent, TablesApart
    <3>4. db.log[c].field < f
      BY <1>3, <3>2, <3>3
    <3> QED
      BY <1>7, <3>1, <3>4
  <2>6. \A c \in AmongOf(db'.log, db.live, "columns") : db'.log[c].tbl = db'.log[n + 1].tbl =>
          db'.log[c].column # db'.log[n + 1].column /\ db'.log[c].field # db'.log[n + 1].field
    BY <1>7, <1>10, <2>3, <2>5
  <2>7. PICK i : i = n + 1
    OBVIOUS
  <2>8. \A p \in db.live : p < i
    BY <1>8, <1>10, <2>7
  <2> QED
    BY <1>7, <1>10, <1>12, <1>13, <2>2, <2>4, <2>6, <2>7, <2>8, ConsistentColumn
<1>16. /\ \A p \in NewIn(db, db') : db'.log[p].kind # "tables"
       /\ \A p \in {} \cap db.live : db.log[p].kind # "tables"
  BY <1>7, <1>10
<1> QED
  BY <1>0, <1>6, <1>14, <1>15, <1>16, PartsRight

\* The blocks that a rename of a column writes, at the end of a file of n blocks.
ColumnWritten(log, n, c, new, log2) ==
  /\ n + 1 \in DOMAIN log2 /\ log2[n + 1] = Recolumned(log[c], new)
  /\ \A p \in DOMAIN log : log2[p] = log[p] /\ p < n + 1 /\ p < n + 2

LEMMA RecolumnsIs ==
  ASSUME NEW log, log \in Logs, NEW n, n = Len(log), NEW column, NEW index, NEW new, NEW log2,
         Recolumns(log, column, index, new, log2)
  PROVE  \E c \in column :
           /\ ColumnWritten(log, n, c, new, log2)
           /\ index = {} => DOMAIN log2 \ DOMAIN log = {n + 1}
           /\ index # {} => \E x \in index : /\ DOMAIN log2 \ DOMAIN log = {n + 1, n + 2}
                                             /\ log2[n + 2] = Recolumned(log[x], new)
<1>1. n \in Nat /\ DOMAIN log = 1 .. n
  BY LogIs
<1>2. PICK c \in column :
        /\ Recolumned(log[c], new) \in SchemaBlock
        /\ index = {} => Longer(log, Recolumned(log[c], new), log2)
        /\ index # {} => \E x \in index :
             /\ Recolumned(log[x], new) \in SchemaBlock
             /\ \E log1 \in Logs : /\ Longer(log, Recolumned(log[c], new), log1)
                                   /\ Longer(log1, Recolumned(log[x], new), log2)
  BY DEF Recolumns
<1>3. \A p \in DOMAIN log : p < n + 1 /\ p < n + 2
  BY <1>1
<1>4. PICK b : b = Recolumned(log[c], new)
  OBVIOUS
<1>5. CASE index = {}
  <2>1. OneMore(log, b, log2, n)
    BY <1>2, <1>4, <1>5, OneMoreIs
  <2> QED
    BY <1>3, <1>4, <1>5, <2>1 DEF OneMore, ColumnWritten
<1>6. CASE index # {}
  <2>1. PICK x \in index : \E log1 \in Logs : Longer(log, b, log1) /\ Longer(log1, Recolumned(log[x], new), log2)
    BY <1>2, <1>4, <1>6
  <2>2. PICK log1 \in Logs : Longer(log, b, log1) /\ Longer(log1, Recolumned(log[x], new), log2)
    BY <2>1
  <2>3. PICK b2 : b2 = Recolumned(log[x], new)
    OBVIOUS
  <2>4. PICK m : m = Len(log1)
    OBVIOUS
  <2>5. OneMore(log, b, log1, n) /\ OneMore(log1, b2, log2, m) /\ m = n + 1
    BY <1>1, <2>2, <2>3, <2>4, OneMoreIs DEF Longer
  <2>6. /\ DOMAIN log1 = DOMAIN log \cup {n + 1} /\ log1[n + 1] = b
        /\ DOMAIN log2 = DOMAIN log1 \cup {n + 2} /\ log2[n + 2] = b2
        /\ \A p \in DOMAIN log1 : log2[p] = log1[p]
        /\ \A p \in DOMAIN log : log1[p] = log[p]
    <3>1. m + 1 = n + 2
      BY <1>1, <2>5
    <3> QED
      BY <2>5, <3>1 DEF OneMore
  <2>7. n + 1 \notin DOMAIN log /\ n + 2 \notin DOMAIN log
    BY <1>1
  <2>8. DOMAIN log2 \ DOMAIN log = {n + 1, n + 2}
    BY <2>6, <2>7
  <2>9. ColumnWritten(log, n, c, new, log2)
    BY <1>3, <1>4, <2>6 DEF ColumnWritten
  <2> QED
    BY <1>6, <2>3, <2>6, <2>8, <2>9
<1> QED
  BY <1>5, <1>6

LEMMA RenameColumnRight ==
  ASSUME TInv, PInv, plain, NEW t \in Tables(db), NEW old \in Columns, NEW new \in Columns,
         RenameColumn(t, old, new)
  PROVE  PInv'
<1>0. /\ up /\ up' = up /\ plain' = plain /\ saved' = saved /\ fresh' = fresh /\ going' = going
      /\ nexttable' = nexttable /\ On(db, LiveOf(db, "columns", t), new) = {}
  BY DEF RenameColumn, Asks
<1>1. PICK column : column = On(db, LiveOf(db, "columns", t), old)
  OBVIOUS
<1>2. PICK index : index = On(db, LiveOf(db, "indexes", t), old)
  OBVIOUS
<1>3. /\ Edited(db, column \cup index, db') /\ DbFits(db') /\ db'.rows = db.rows
      /\ Recolumns(db.log, column, index, new, db'.log)
  BY <1>1, <1>2, RenameColumnIs
<1>4. PICK n : n = Len(db.log)
  OBVIOUS
<1>5. PICK gone : gone = column \cup index
  OBVIOUS
<1>6. /\ \A p : p \in column <=> /\ p \in AmongOf(db.log, db.live, "columns")
                                 /\ db.log[p].tbl = t /\ db.log[p].column = old
      /\ \A p : p \in index <=> /\ p \in AmongOf(db.log, db.live, "indexes")
                                /\ db.log[p].tbl = t /\ db.log[p].column = old
      /\ \A p \in AmongOf(db.log, db.live, "columns") : db.log[p].tbl = t => db.log[p].column # new
  BY <1>0, <1>1, <1>2 DEF On, LiveOf, Live, AmongOf
<1>7. /\ db.log \in Logs /\ LogFits(db.log) /\ Consistent(db.log, db.live) /\ db.live \subseteq DOMAIN db.log
      /\ Grown(db.log, db'.log)
  BY <1>0, <1>3, LiveSchemaIs DEF Edited
<1>8. PICK c \in column :
        /\ ColumnWritten(db.log, n, c, new, db'.log)
        /\ index = {} => DOMAIN db'.log \ DOMAIN db.log = {n + 1}
        /\ index # {} => \E x \in index : /\ DOMAIN db'.log \ DOMAIN db.log = {n + 1, n + 2}
                                          /\ db'.log[n + 2] = Recolumned(db.log[x], new)
  BY <1>3, <1>4, <1>7, RecolumnsIs
<1>9. /\ db'.log[n + 1].kind = "columns" /\ db'.log[n + 1].tbl = t /\ db'.log[n + 1].column = new
      /\ db'.log[n + 1].field = db.log[c].field
  <2>1. c \in DOMAIN db.log /\ db.log[c].kind = "columns" /\ db.log[c].tbl = t
    BY <1>6, <1>7 DEF AmongOf
  <2>2. db.log[c] \in ColumnsBlock
    BY <1>7, <2>1, LogIs, BlockIs
  <2>3. db'.log[n + 1] = Recolumned(db.log[c], new)
    BY <1>8 DEF ColumnWritten
  <2> QED
    BY <2>1, <2>2, <2>3 DEF ColumnsBlock, Recolumned
<1>10. PICK L : L = db.live \ gone
  OBVIOUS
<1>11. Consistent(db'.log, L)
  <2>1. \A k \in AmongOf(db.log, L, "columns"), o \in AmongOf(db.log, db.live, "tables") :
          db.log[o].tbl = db.log[k].tbl => o \in L
    BY <1>5, <1>6, <1>10 DEF AmongOf
  <2>2. \A i \in AmongOf(db.log, L, "indexes"), k \in AmongOf(db.log, db.live, "columns") :
          db.log[k].tbl = db.log[i].tbl /\ db.log[k].column = db.log[i].column => k \in L
    BY <1>5, <1>6, <1>10 DEF AmongOf
  <2>3. L \subseteq db.live /\ L \subseteq DOMAIN db.log
    BY <1>7, <1>10
  <2>4. Consistent(db.log, L)
    BY <1>7, <2>1, <2>2, <2>3, ConsistentLess
  <2> QED
    BY <1>7, <2>3, <2>4, LiveMoves
<1>12. /\ \A p \in L : db'.log[p] = db.log[p] /\ p < n + 1 /\ p < n + 2 /\ p \in db.live
       /\ \A kind : AmongOf(db'.log, L, kind) = AmongOf(db.log, L, kind)
       /\ \A kind : AmongOf(db.log, L, kind) \subseteq AmongOf(db.log, db.live, kind)
  BY <1>7, <1>8, <1>10 DEF AmongOf, ColumnWritten
<1>13. Consistent(db'.log, L \cup {n + 1})
  <2>1. PICK h \in AmongOf(db.log, db.live, "tables") :
          db.log[h].tbl = t /\ db.log[c].field < db.log[h].nextfield
    BY <1>6, <1>7 DEF Consistent, ColumnsHome
  <2>2. h \in L
    BY <1>5, <1>6, <1>10, <2>1 DEF AmongOf
  <2>3. /\ h \in AmongOf(db'.log, L, "tables") /\ db'.log[h].tbl = db'.log[n + 1].tbl
        /\ db'.log[n + 1].field < db'.log[h].nextfield
    BY <1>9, <1>12, <2>1, <2>2 DEF AmongOf
  <2>4. ASSUME NEW k \in AmongOf(db.log, L, "columns"), db.log[k].tbl = t
        PROVE  db.log[k].column # new /\ db.log[k].field # db.log[c].field
    <3>1. k \in AmongOf(db.log, db.live, "columns") /\ k \notin column
      BY <1>5, <1>10, <1>12 DEF AmongOf
    <3>2. c \in AmongOf(db.log, db.live, "columns") /\ c # k /\ db.log[c].tbl = t
      BY <1>6, <3>1
    <3> QED
      BY <1>6, <1>7, <2>4, <3>1, <3>2 DEF Consistent, ColumnsApart
  <2>5. \A k \in AmongOf(db'.log, L, "columns") : db'.log[k].tbl = db'.log[n + 1].tbl =>
          db'.log[k].column # db'.log[n + 1].column /\ db'.log[k].field # db'.log[n + 1].field
    BY <1>9, <1>12, <2>4 DEF AmongOf
  <2>6. PICK i : i = n + 1
    OBVIOUS
  <2> QED
    BY <1>9, <1>11, <1>12, <2>3, <2>5, <2>6, ConsistentColumn
<1>14. NewIn(db, db') = DOMAIN db'.log \ DOMAIN db.log
  BY DEF NewIn
<1>15. db'.live = (db.live \cup NewIn(db, db')) \ gone
  BY <1>3, <1>5 DEF Edited
<1>16. gone \subseteq DOMAIN db.log
  BY <1>5, <1>6, <1>7 DEF AmongOf
<1>17. /\ Consistent(db'.log, db'.live)
       /\ \A p \in NewIn(db, db') : db'.log[p].kind # "tables"
  <2>1. CASE index = {}
    <3>1. NewIn(db, db') = {n + 1} /\ n + 1 \notin DOMAIN db.log
      BY <1>8, <1>14, <2>1
    <3>2. db'.live = L \cup {n + 1}
      BY <1>10, <1>15, <1>16, <3>1
    <3> QED
      BY <1>9, <1>13, <3>1, <3>2
  <2>2. CASE index # {}
    <3>1. PICK x \in index : NewIn(db, db') = {n + 1, n + 2} /\ db'.log[n + 2] = Recolumned(db.log[x], new)
      BY <1>8, <1>14, <2>2
    <3>2. n + 1 \notin DOMAIN db.log /\ n + 2 \notin DOMAIN db.log
      BY <3>1 DEF NewIn
    <3>3. db'.live = (L \cup {n + 1}) \cup {n + 2}
      BY <1>10, <1>15, <1>16, <3>1, <3>2
    <3>4. db'.log[n + 2].kind = "indexes" /\ db'.log[n + 2].tbl = t /\ db'.log[n + 2].column = new
      <4>1. x \in DOMAIN db.log /\ db.log[x].kind = "indexes" /\ db.log[x].tbl = t
        BY <1>6, <1>7 DEF AmongOf
      <4>2. db.log[x] \in IndexesBlock
        BY <1>7, <4>1, LogIs, BlockIs
      <4> QED
        BY <3>1, <4>1, <4>2 DEF IndexesBlock, Recolumned
    <3>5. PICK M : M = L \cup {n + 1}
      OBVIOUS
    <3>6. PICK i : i = n + 2
      OBVIOUS
    <3>7. n + 1 < n + 2
      BY <1>4, <1>7, LogIs
    <3>8. \A p \in M : p < i
      BY <1>12, <3>5, <3>6, <3>7
    <3>9. n + 1 \in AmongOf(db'.log, M, "columns")
      BY <1>9, <3>5 DEF AmongOf
    <3>10. \A y \in AmongOf(db'.log, M, "indexes") : db'.log[y].tbl = t => db'.log[y].column # new
      <4>1. \A y \in AmongOf(db'.log, M, "indexes") : y \in AmongOf(db.log, db.live, "indexes") /\ db'.log[y] = db.log[y]
        BY <1>9, <1>12, <3>5 DEF AmongOf
      <4>2. \A y \in AmongOf(db.log, db.live, "indexes") : db.log[y].tbl = t => db.log[y].column # new
        BY <1>6, <1>7 DEF Consistent, IndexesHome
      <4> QED
        BY <4>1, <4>2
    <3>11. Consistent(db'.log, M \cup {i})
      BY <1>9, <1>13, <3>4, <3>5, <3>6, <3>8, <3>9, <3>10, ConsistentIndex
    <3> QED
      BY <1>9, <3>1, <3>3, <3>4, <3>5, <3>6, <3>11
  <2> QED
    BY <2>1, <2>2
<1>18. \A o \in gone \cap db.live : db.log[o].kind # "tables"
  BY <1>5, <1>6 DEF AmongOf
<1>19. \A o \in Live(db, "tables") : db'.log[o].nrows = db.log[o].nrows
  BY <1>0, <1>8, LiveSchemaIs DEF ColumnWritten
<1>20. Edited(db, gone, db')
  BY <1>3, <1>5
<1> QED
  BY <1>0, <1>3, <1>17, <1>18, <1>19, <1>20, PartsRight

LEMMA SchemaRequestRight ==
  ASSUME TInv, PInv, plain, SchemaRequest
  PROVE  PInv'
<1>1. CASE \E name \in Names, col \in Columns : CreateTable(name, col)
  BY <1>1, CreateTableRight
<1>2. CASE \E name \in Names : CreateTableFails(name)
  BY <1>2, CreateTableFailsRight
<1>3. CASE \E t \in Tables(db) : DropTable(t)
  BY <1>3, DropTableRight
<1>4. CASE \E t \in Tables(db), name \in Names : RenameTable(t, name)
  BY <1>4, RenameTableRight
<1>5. CASE \E t \in Tables(db), col \in Columns : AddColumn(t, col)
  BY <1>5, AddColumnRight
<1>6. CASE \E t \in Tables(db), col \in Columns : RemoveColumn(t, col)
  BY <1>6, RemoveColumnRight
<1>7. CASE \E t \in Tables(db), col \in Columns : AddIndex(t, col)
  BY <1>7, AddIndexRight
<1>8. CASE \E t \in Tables(db), col \in Columns : RemoveIndex(t, col)
  BY <1>8, RemoveIndexRight
<1>9. CASE \E t \in Tables(db), col \in Columns, new \in Columns : RenameColumn(t, col, new)
  BY <1>9, RenameColumnRight
<1> QED
  BY <1>1, <1>2, <1>3, <1>4, <1>5, <1>6, <1>7, <1>8, <1>9 DEF SchemaRequest

-----------------------------------------------------------------------------
(* Requests for data *)

\* The offsets that an entry of table t leads to, but those in go.
OffsLeft(d, go, t) == {p \in DOMAIN d.log : <<t, p>> \in d.rows /\ p \notin go}

LEMMA RowsLeftCount ==
  ASSUME NEW d, DbFits(d), NEW go, NEW t
  PROVE  /\ IsFiniteSet(OffsLeft(d, go, t)) /\ Cardinality(OffsLeft(d, go, t)) \in Nat
         /\ Cardinality(RowsLeft(d, go, t)) = Cardinality(OffsLeft(d, go, t))
<1>1. d.log \in Logs /\ d.rows \subseteq Nat \X Nat /\ \A r \in d.rows : r[2] \in DOMAIN d.log
  BY DEF DbFits, Dbs, OfKind
<1>2. PICK A : A = OffsLeft(d, go, t)
  OBVIOUS
<1>3. IsFiniteSet(A) /\ Cardinality(A) \in Nat
  BY <1>1, <1>2, OffsetsFinite DEF OffsLeft
<1>4. RowsLeft(d, go, t) = {<<t, p>> : p \in A}
  <2>1. \A r \in RowsLeft(d, go, t) : r[2] \in A /\ r = <<t, r[2]>>
    BY <1>1, <1>2 DEF RowsLeft, OffsLeft
  <2>2. \A p \in A : <<t, p>> \in RowsLeft(d, go, t)
    BY <1>2 DEF RowsLeft, OffsLeft
  <2> QED
    BY <2>1, <2>2
<1>5. PICK B : B = RowsLeft(d, go, t)
  OBVIOUS
<1>6. B = {<<t, p>> : p \in A}
  BY <1>4, <1>5
<1>7. Cardinality(B) = Cardinality(A)
  BY <1>3, <1>6, PairsCount
<1> QED
  BY <1>2, <1>3, <1>5, <1>7

\* What a change of data leaves alone.
DataKept(d, d2) ==
  /\ SameCommitted(d.log, d2.log)
  /\ LiveSchema(d2) /\ Consistent(d2.log, d2.live)
  /\ Live(d2, "tables") = Live(d, "tables") /\ Tables(d2) = Tables(d)
  /\ \A o \in Live(d, "tables") : d2.log[o].tbl = d.log[o].tbl
  /\ \A p \in OfKind(d.log, "data") : d2.log[p] = d.log[p] /\ p \in DOMAIN d.log
  /\ OfKind(d2.log, "tables") = OfKind(d.log, "tables")
  /\ \A o \in OfKind(d.log, "tables") :
       d2.log[o].tbl = d.log[o].tbl /\ (Made(d2.log, o) <=> Made(d.log, o))

\* A change of the data of db that commits nothing.
DataStepOf ==
  /\ up /\ up' = up /\ plain' = plain /\ saved' = saved /\ nexttable' = nexttable
  /\ DbFits(db') /\ Grown(db.log, db'.log) /\ NoCommits(db.log, db'.log)
  /\ db'.live = db.live /\ db'.drops = db.drops
  /\ \A o \in NewIn(db, db') : db'.log[o].kind = "data"

LEMMA DataKeeps ==
  ASSUME TInv, PInv, plain, DataStepOf
  PROVE  DataKept(db, db') /\ LogRight(db'.log) /\ SavedIs(db'.log, saved')
<1>0. /\ up /\ up' = up /\ plain' = plain /\ saved' = saved /\ nexttable' = nexttable
      /\ DbFits(db') /\ Grown(db.log, db'.log) /\ NoCommits(db.log, db'.log)
      /\ db'.live = db.live /\ db'.drops = db.drops
      /\ \A o \in NewIn(db, db') : db'.log[o].kind = "data"
  BY DEF DataStepOf
<1>1. /\ LiveRight(db, fresh, going, nexttable) /\ Consistent(db.log, db.live) /\ DbFits(db)
      /\ db.log \in Logs /\ LogFits(db.log) /\ db.live \subseteq DOMAIN db.log
  BY <1>0, LiveSchemaIs
<1>2. LogRight(db.log) /\ SavedIs(db.log, saved)
  BY DEF PInv
<1>3. /\ DOMAIN db.log \subseteq DOMAIN db'.log
      /\ \A o \in DOMAIN db.log : db'.log[o].kind = db.log[o].kind
      /\ \A o \in DOMAIN db.log : db.log[o].kind # "tables" => db'.log[o] = db.log[o]
      /\ \A o \in DOMAIN db.log : db.log[o].kind \in SchemaKinds \cup {"data"} => db'.log[o].tbl = db.log[o].tbl
  BY <1>0, <1>1, GrownKinds
<1>4. LogRight(db'.log) /\ SameCommitted(db.log, db'.log) /\ SavedIs(db'.log, saved)
  <2>1. \A o \in DOMAIN db'.log \ DOMAIN db.log : db'.log[o].kind = "tables" => TableWhole(db'.log, o)
    BY <1>0 DEF NewIn
  <2> QED
    BY <1>0, <1>1, <1>2, <2>1, GrownRight
<1>5. LiveSchema(db')
  <2>1. Schema(db'.log) = Schema(db.log)
    BY <1>0, <1>3 DEF Schema, NewIn, SchemaKinds
  <2>2. Deleted(db'.log) = Deleted(db.log)
    BY <1>4 DEF SameCommitted
  <2> QED
    BY <1>0, <1>1, <2>1, <2>2 DEF LiveRight, LiveSchema
<1>6. Consistent(db'.log, db'.live)
  BY <1>0, <1>1, LiveMoves
<1>7. /\ Live(db', "tables") = Live(db, "tables")
      /\ \A o \in Live(db, "tables") : db'.log[o].tbl = db.log[o].tbl
  BY <1>0, <1>1, <1>3 DEF Live, SchemaKinds
<1>8. Tables(db') = Tables(db)
  BY <1>7 DEF Tables
<1>9. \A p \in OfKind(db.log, "data") : db'.log[p] = db.log[p] /\ p \in DOMAIN db.log
  BY <1>3 DEF OfKind
<1>10. OfKind(db'.log, "tables") = OfKind(db.log, "tables")
  BY <1>0, <1>3 DEF OfKind, NewIn
<1>11. \A o \in OfKind(db.log, "tables") :
         db'.log[o].tbl = db.log[o].tbl /\ (Made(db'.log, o) <=> Made(db.log, o))
  <2>1. \A o \in OfKind(db.log, "tables") : o \in DOMAIN db.log /\ db.log[o].kind = "tables"
    BY DEF OfKind
  <2>2. \A o \in OfKind(db.log, "tables") : db'.log[o].tbl = db.log[o].tbl
    BY <1>3, <2>1 DEF SchemaKinds
  <2>3. \A o \in OfKind(db.log, "tables") : Made(db'.log, o) <=> Made(db.log, o)
    BY <1>0, <1>1, <2>1, MadeStays
  <2> QED
    BY <2>2, <2>3
<1>12. DataKept(db, db')
  BY <1>4, <1>5, <1>6, <1>7, <1>8, <1>9, <1>10, <1>11 DEF DataKept
<1>13. SavedIs(db'.log, saved')
  BY <1>0, <1>4
<1> QED
  BY <1>4, <1>12, <1>13

\* The counts, when they have changed with the entries.
LEMMA CountsMove ==
  ASSUME TInv, PInv, plain, DataStepOf, NEW n, CountedBy(db, n, db'.log), NEW go,
         \A u \in Tables(db) : n[u] \in Int /\
           Cardinality(OffsLeft(db', go, u)) = Cardinality(OffsLeft(db, going, u)) + n[u]
  PROVE  CountsRight(db', go)
<1>1. DataKept(db, db')
  BY DataKeeps
<1>2. DbFits(db) /\ DbFits(db') /\ up
  BY DEF TInv, DataStepOf
<1> SUFFICES ASSUME NEW o \in Live(db, "tables")
             PROVE  db'.log[o].nrows = Cardinality(RowsLeft(db', go, db'.log[o].tbl))
  BY <1>1 DEF CountsRight, DataKept
<1>3. PICK t : t = db.log[o].tbl
  OBVIOUS
<1>4. t \in Tables(db) /\ db'.log[o].tbl = t
  BY <1>1, <1>3 DEF Tables, DataKept
<1>5. /\ o \in DOMAIN db.log /\ o \in db.live /\ db.log[o].kind = "tables"
      /\ LiveRight(db, fresh, going, nexttable) /\ db.log \in Logs
  BY <1>2, LiveSchemaIs
<1>6. db.log[o] \in TablesBlock
  BY <1>5, LogIs, BlockIs
<1>7. db'.log[o].nrows = db.log[o].nrows + n[t]
  BY <1>3, <1>5, <1>6 DEF CountedBy, TablesBlock
<1>8. db.log[o].nrows = Cardinality(RowsLeft(db, going, t))
  BY <1>3, <1>5 DEF LiveRight, CountsRight
<1>9. /\ Cardinality(RowsLeft(db, going, t)) = Cardinality(OffsLeft(db, going, t))
      /\ Cardinality(RowsLeft(db', go, t)) = Cardinality(OffsLeft(db', go, t))
  BY <1>2, RowsLeftCount
<1>10. Cardinality(OffsLeft(db', go, t)) = Cardinality(OffsLeft(db, going, t)) + n[t]
  BY <1>4
<1> QED
  BY <1>4, <1>7, <1>8, <1>9, <1>10

\* What is the case of the data, when a request comes.
LEMMA DataIs ==
  ASSUME TInv, PInv, plain, up
  PROVE  /\ fresh \cup going \subseteq OfKind(db.log, "data") /\ DOMAIN db.log = 1 .. Len(db.log)
         /\ \A p \in OfKind(db.log, "data") : p \in DOMAIN db.log /\ p \in Nat /\ db.log[p].tbl \in Nat
         /\ \A r \in db.rows : db.log[r[2]].tbl = r[1] /\ r[2] \in OfKind(db.log, "data")
                               /\ r[1] \in Tables(db) /\ r = <<r[1], r[2]>>
         /\ \A p \in fresh \cup going : db.log[p].tbl < nexttable
         /\ \A p \in fresh \cup going : db.log[p].tbl \in Tables(db) => <<db.log[p].tbl, p>> \in db.rows
         /\ fresh \cap (Created(db.log) \cup Deleted(db.log)) = {}
         /\ Created(db.log) \cup Deleted(db.log) \subseteq DOMAIN db.log
         /\ Created(db.log) \subseteq OfKind(db.log, "data")
<1>1. LiveRight(db, fresh, going, nexttable) /\ DbFits(db) /\ LogFits(db.log) /\ db.log \in Logs
  BY LiveSchemaIs
<1>2. fresh \cup going \subseteq OfKind(db.log, "data")
  BY DEF TInv
<1>3. DOMAIN db.log = 1 .. Len(db.log) /\ Len(db.log) \in Nat
  BY <1>1, LogIs
<1>4. \A p \in OfKind(db.log, "data") : p \in DOMAIN db.log /\ p \in Nat /\ db.log[p].tbl \in Nat
  BY <1>1, <1>3, TblIsNat DEF OfKind
<1>5. \A r \in db.rows : db.log[r[2]].tbl = r[1] /\ r[2] \in OfKind(db.log, "data") /\ r[1] \in Tables(db)
  BY <1>1 DEF LiveRight, RowsHome, DbFits
<1>6. \A r \in db.rows : r = <<r[1], r[2]>>
  BY <1>1 DEF DbFits, Dbs
<1>7. \A p \in fresh \cup going : db.log[p].tbl < nexttable
  BY <1>1 DEF LiveRight, Numbered
<1>8. \A p \in fresh \cup going : db.log[p].tbl \in Tables(db) => <<db.log[p].tbl, p>> \in db.rows
  BY <1>1 DEF LiveRight, RowsHome
<1>9. fresh \cap (Created(db.log) \cup Deleted(db.log)) = {}
  BY <1>1 DEF LiveRight, FreshApart
<1>10. Created(db.log) \subseteq OfKind(db.log, "data")
  BY <1>1 DEF LogFits, Created
<1>11. Deleted(db.log) \subseteq DOMAIN db.log
  <2>1. \A c \in Commits(db.log) : c \in DOMAIN db.log /\ db.log[c].deletes \subseteq 1 .. c - 1
    BY <1>1 DEF LogFits, Commits
  <2>2. \A c \in Commits(db.log) : db.log[c].deletes \subseteq DOMAIN db.log
    BY <1>3, <2>1
  <2> QED
    BY <2>2 DEF Deleted
<1> QED
  BY <1>2, <1>3, <1>4, <1>5, <1>6, <1>7, <1>8, <1>9, <1>10, <1>11 DEF OfKind

\* What a change of data has to keep.
LEMMA DataStepRight ==
  ASSUME TInv, PInv, plain, DataStepOf, CountsRight(db', going'),
         RowsHome(db', fresh', going'), \A p \in fresh' \cup going' : db'.log[p].tbl < nexttable,
         FreshApart(db'.log, fresh'), FreshLater(db'.log, fresh'), RowsHeld(db', fresh')
  PROVE  PInv'
<1>1. DataKept(db, db') /\ LogRight(db'.log) /\ SavedIs(db'.log, saved')
  BY DataKeeps
<1>2. /\ up /\ up' = up /\ plain' = plain /\ saved' = saved /\ nexttable' = nexttable
  BY DEF DataStepOf
<1>3. \A o \in Live(db, "tables") : db.log[o].tbl < nexttable
  BY <1>2, LiveSchemaIs
<1>4. Numbered(db', fresh', going', nexttable')
  BY <1>1, <1>2, <1>3 DEF DataKept, Numbered
<1>5. LiveRight(db', fresh', going', nexttable')
  BY <1>1, <1>4 DEF DataKept, LiveRight
<1> QED
  BY <1>1, <1>2, <1>5 DEF PInv

LEMMA AddRecordRight ==
  ASSUME TInv, PInv, plain, NEW t \in Tables(db), AddRecord(t)
  PROVE  PInv'
<1>1. PICK n : n = Len(db.log)
  OBVIOUS
<1>2. PICK rec : rec = DataRec(t, NewId)
  OBVIOUS
<1>3. PICK m : m = [u \in Tables(db) |-> IF u = t THEN 1 ELSE 0]
  OBVIOUS
<1>4. /\ DbFits(db') /\ Grown(db.log, db'.log) /\ NoCommits(db.log, db'.log)
      /\ db'.live = db.live /\ db'.drops = db.drops
      /\ db'.rows = db.rows \cup {<<t, n + 1>>}
      /\ Len(db'.log) = n + 1 /\ db'.log[n + 1] = rec
      /\ CountedBy(db, m, db'.log)
  BY <1>1, <1>2, <1>3, AddRecordIs
<1>5. /\ up /\ up' = up /\ plain' = plain /\ saved' = saved /\ nexttable' = nexttable
      /\ fresh' = fresh \cup {n + 1} /\ going' = going
  BY <1>1 DEF AddRecord, NewOff
<1>6. rec.kind = "data" /\ rec.tbl = t
  BY <1>2 DEF DataRec
<1>7. /\ DOMAIN db'.log = DOMAIN db.log \cup {n + 1} /\ n + 1 \notin DOMAIN db.log /\ NewIn(db, db') = {n + 1}
      /\ \A p \in DOMAIN db.log : p < n + 1
  <2>1. db.log \in Logs /\ db'.log \in Logs
    BY <1>4 DEF TInv, DbFits, LogFits
  <2>2. DOMAIN db.log = 1 .. n /\ DOMAIN db'.log = 1 .. n + 1 /\ n \in Nat
    BY <1>1, <1>4, <2>1, LogIs
  <2>3. 1 .. n + 1 = 1 .. n \cup {n + 1} /\ n + 1 \notin 1 .. n /\ \A p \in 1 .. n : p < n + 1
    BY <2>2
  <2> QED
    BY <2>2, <2>3 DEF NewIn
<1>8. DataStepOf
  BY <1>4, <1>5, <1>6, <1>7 DEF DataStepOf
<1>9. DataKept(db, db')
  BY <1>8, DataKeeps
<1>10. /\ fresh \cup going \subseteq OfKind(db.log, "data")
       /\ \A p \in OfKind(db.log, "data") : p \in DOMAIN db.log /\ p < n + 1 /\ db'.log[p] = db.log[p]
       /\ \A r \in db.rows : db.log[r[2]].tbl = r[1] /\ r[2] \in OfKind(db.log, "data")
       /\ Created(db'.log) = Created(db.log) /\ Deleted(db'.log) = Deleted(db.log)
       /\ Created(db.log) \cup Deleted(db.log) \subseteq DOMAIN db.log
       /\ Created(db.log) \subseteq OfKind(db.log, "data")
       /\ Tables(db') = Tables(db) /\ Live(db', "tables") = Live(db, "tables")
  BY <1>5, <1>7, <1>9, DataIs DEF DataKept, SameCommitted
<1>11. CountsRight(db', going')
  <2> SUFFICES ASSUME NEW u \in Tables(db)
               PROVE  /\ m[u] \in Int
                      /\ Cardinality(OffsLeft(db', going, u)) = Cardinality(OffsLeft(db, going, u)) + m[u]
    BY <1>4, <1>5, <1>8, CountsMove
  <2>1. PICK A : A = OffsLeft(db, going, u)
    OBVIOUS
  <2>2. IsFiniteSet(A) /\ Cardinality(A) \in Nat
    BY <2>1, RowsLeftCount DEF TInv
  <2>3. CASE u = t
    <3>1. OffsLeft(db', going, u) = A \cup {n + 1}
      BY <1>4, <1>7, <1>10, <2>1, <2>3 DEF OffsLeft
    <3>2. n + 1 \notin A
      BY <1>7, <2>1 DEF OffsLeft
    <3>3. Cardinality(A \cup {n + 1}) = Cardinality(A) + 1
      BY <2>2, <3>2, FS_AddElement
    <3>4. m[u] = 1
      BY <1>3, <2>3
    <3> QED
      BY <2>1, <3>1, <3>3, <3>4
  <2>4. CASE u # t
    <3>1. OffsLeft(db', going, u) = A
      BY <1>4, <1>7, <1>10, <2>1, <2>4 DEF OffsLeft
    <3>2. m[u] = 0
      BY <1>3, <2>4
    <3> QED
      BY <2>1, <2>2, <3>1, <3>2
  <2> QED
    BY <2>3, <2>4
<1>12. RowsHome(db', fresh', going')
  <2>1. \A r \in db'.rows : db'.log[r[2]].tbl = r[1]
    BY <1>4, <1>6, <1>10
  <2>2. \A p \in fresh \cup going : db.log[p].tbl \in Tables(db) => <<db.log[p].tbl, p>> \in db.rows
    BY <1>5, DataIs
  <2>3. \A p \in fresh' \cup going' : db'.log[p].tbl \in Tables(db') => <<db'.log[p].tbl, p>> \in db'.rows
    BY <1>4, <1>5, <1>6, <1>10, <2>2
  <2> QED
    BY <2>1, <2>3 DEF RowsHome
<1>13. \A p \in fresh' \cup going' : db'.log[p].tbl < nexttable
  <2>1. \A p \in fresh \cup going : db.log[p].tbl < nexttable
    BY <1>5, DataIs
  <2>2. t < nexttable
    BY <1>5, LiveSchemaIs
  <2> QED
    BY <1>4, <1>5, <1>6, <1>10, <2>1, <2>2
<1>14. FreshApart(db'.log, fresh')
  <2>1. fresh \cap (Created(db.log) \cup Deleted(db.log)) = {}
    BY <1>5, DataIs
  <2> QED
    BY <1>5, <1>7, <1>10, <2>1 DEF FreshApart
<1>15. FreshLater(db'.log, fresh')
  <2>1. FreshLater(db.log, fresh)
    BY <1>5, LiveSchemaIs DEF LiveRight
  <2>2. \A o \in OfKind(db'.log, "tables") : o < n + 1
    BY <1>7, <1>9 DEF DataKept, OfKind
  <2>3. ASSUME NEW o \in OfKind(db'.log, "tables"), NEW p \in fresh', Made(db'.log, o),
               db'.log[p].tbl = db'.log[o].tbl
        PROVE  o < p
    <3>1. CASE p = n + 1
      BY <2>2, <3>1
    <3>2. CASE p # n + 1
      <4>1. p \in fresh /\ db'.log[p] = db.log[p]
        BY <1>5, <1>10, <3>2
      <4>2. o \in OfKind(db.log, "tables") /\ Made(db.log, o) /\ db'.log[o].tbl = db.log[o].tbl
        BY <1>9, <2>3 DEF DataKept
      <4> QED
        BY <2>1, <2>3, <4>1, <4>2 DEF FreshLater
    <3> QED
      BY <3>1, <3>2
  <2> QED
    BY <2>3 DEF FreshLater
<1>16. RowsHeld(db', fresh')
  <2> SUFFICES ASSUME NEW o \in Live(db, "tables"), Made(db'.log, o)
               PROVE  RowsOf(db', db'.log[o].tbl)
                        = {db'.log[o].tbl} \X HeldOf(db'.log, o, Created(db'.log) \cup fresh')
    BY <1>10 DEF RowsHeld
  <2>1. PICK u : u = db.log[o].tbl
    OBVIOUS
  <2>2. /\ o \in DOMAIN db.log /\ db.log[o].kind = "tables" /\ o < n + 1
        /\ LiveRight(db, fresh, going, nexttable)
    BY <1>5, <1>7, LiveSchemaIs
  <2>3. o \in OfKind(db.log, "tables")
    BY <2>2 DEF OfKind
  <2>4. Made(db.log, o) /\ db'.log[o].tbl = u
    BY <1>9, <2>1, <2>3 DEF DataKept
  <2>5. PICK X : X = Created(db.log) \cup fresh
    OBVIOUS
  <2>6. RowsOf(db, u) = {u} \X HeldOf(db.log, o, X)
    BY <2>1, <2>2, <2>4, <2>5 DEF LiveRight, RowsHeld
  <2>7. \A p \in X : db'.log[p] = db.log[p] /\ p # n + 1
    BY <1>7, <1>10, <2>5
  <2>8. n + 1 \notin Deleted(db.log)
    BY <1>7, <1>10
  <2>9. CASE u = t
    <3>1. RowsOf(db', u) = RowsOf(db, u) \cup {<<u, n + 1>>}
      BY <1>4, <2>9 DEF RowsOf
    <3>2. HeldOf(db'.log, o, X \cup {n + 1}) = HeldOf(db.log, o, X) \cup {n + 1}
      BY <1>4, <1>6, <1>10, <2>1, <2>2, <2>4, <2>7, <2>8, <2>9 DEF HeldOf
    <3>3. RowsOf(db', u) = {u} \X HeldOf(db'.log, o, X \cup {n + 1})
      BY <2>6, <3>1, <3>2
    <3> QED
      BY <1>5, <1>10, <2>4, <2>5, <3>3
  <2>10. CASE u # t
    <3>1. RowsOf(db', u) = RowsOf(db, u)
      BY <1>4, <2>10 DEF RowsOf
    <3>2. HeldOf(db'.log, o, X \cup {n + 1}) = HeldOf(db.log, o, X)
      BY <1>4, <1>6, <1>10, <2>1, <2>4, <2>7, <2>10 DEF HeldOf
    <3> QED
      BY <1>5, <1>10, <2>4, <2>5, <2>6, <3>1, <3>2
  <2> QED
    BY <2>9, <2>10
<1> QED
  BY <1>8, <1>11, <1>12, <1>13, <1>14, <1>15, <1>16, DataStepRight

\* A change of data that leaves the blocks of the file, but the counts, alone.
LEMMA SameBlocksRight ==
  ASSUME TInv, PInv, plain, DataStepOf, NewIn(db, db') = {}, DOMAIN db'.log = DOMAIN db.log,
         fresh' \subseteq fresh, going' \subseteq OfKind(db.log, "data"), CountsRight(db', going'),
         db'.rows \subseteq db.rows,
         \A p \in going' : db.log[p].tbl < nexttable,
         \A p \in fresh' \cup going' : db.log[p].tbl \in Tables(db) => <<db.log[p].tbl, p>> \in db'.rows,
         \A t : RowsOf(db', t) = {r \in RowsOf(db, t) : r[2] \in Created(db.log) \cup fresh' \/ r[2] \notin fresh}
  PROVE  PInv'
<1>1. DataKept(db, db') /\ up
  BY DataKeeps DEF DataStepOf
<1>2. /\ fresh \cup going \subseteq OfKind(db.log, "data")
      /\ \A p \in OfKind(db.log, "data") : p \in DOMAIN db.log /\ db'.log[p] = db.log[p]
      /\ \A r \in db.rows : db.log[r[2]].tbl = r[1] /\ r[2] \in OfKind(db.log, "data") /\ r = <<r[1], r[2]>>
      /\ Created(db'.log) = Created(db.log) /\ Deleted(db'.log) = Deleted(db.log)
      /\ Created(db.log) \subseteq OfKind(db.log, "data")
      /\ Tables(db') = Tables(db) /\ Live(db', "tables") = Live(db, "tables")
  BY <1>1, DataIs DEF DataKept, SameCommitted
<1>3. RowsHome(db', fresh', going')
  <2>1. \A r \in db'.rows : db'.log[r[2]].tbl = r[1]
    BY <1>2
  <2>2. \A p \in fresh' \cup going' : db'.log[p] = db.log[p]
    BY <1>2
  <2> QED
    BY <1>2, <2>1, <2>2 DEF RowsHome
<1>4. \A p \in fresh' \cup going' : db'.log[p].tbl < nexttable
  <2>1. \A p \in fresh : db.log[p].tbl < nexttable
    BY <1>1, DataIs
  <2> QED
    BY <1>2, <2>1
<1>5. FreshApart(db'.log, fresh')
  <2>1. fresh \cap (Created(db.log) \cup Deleted(db.log)) = {}
    BY <1>1, DataIs
  <2> QED
    BY <1>2, <2>1 DEF FreshApart
<1>6. FreshLater(db'.log, fresh')
  <2>1. FreshLater(db.log, fresh)
    BY <1>1, LiveSchemaIs DEF LiveRight
  <2>2. \A p \in fresh' : p \in fresh /\ db'.log[p] = db.log[p]
    BY <1>2
  <2>3. \A o \in OfKind(db'.log, "tables") : /\ o \in OfKind(db.log, "tables")
                                             /\ db'.log[o].tbl = db.log[o].tbl
                                             /\ Made(db'.log, o) => Made(db.log, o)
    BY <1>1 DEF DataKept
  <2> QED
    BY <2>1, <2>2, <2>3 DEF FreshLater
<1>7. RowsHeld(db', fresh')
  <2> SUFFICES ASSUME NEW o \in Live(db, "tables"), Made(db'.log, o)
               PROVE  RowsOf(db', db'.log[o].tbl)
                        = {db'.log[o].tbl} \X HeldOf(db'.log, o, Created(db'.log) \cup fresh')
    BY <1>2 DEF RowsHeld
  <2>1. PICK u : u = db.log[o].tbl
    OBVIOUS
  <2>2. o \in OfKind(db.log, "tables") /\ LiveRight(db, fresh, going, nexttable)
    BY <1>1, LiveSchemaIs DEF OfKind
  <2>3. Made(db.log, o) /\ db'.log[o].tbl = u
    BY <1>1, <2>1, <2>2 DEF DataKept
  <2>4. PICK X : X = Created(db.log) \cup fresh
    OBVIOUS
  <2>5. PICK Y : Y = Created(db.log) \cup fresh'
    OBVIOUS
  <2>6. RowsOf(db, u) = {u} \X HeldOf(db.log, o, X)
    BY <2>1, <2>2, <2>3, <2>4 DEF LiveRight, RowsHeld
  <2>7. Y \subseteq X /\ \A p \in X : db'.log[p] = db.log[p] /\ (p \in Y \/ p \notin fresh => p \in Y)
    BY <1>2, <2>4, <2>5
  <2>8. RowsOf(db', u) = {r \in RowsOf(db, u) : r[2] \in Y}
    <3>1. RowsOf(db', u) = {r \in RowsOf(db, u) : r[2] \in Y \/ r[2] \notin fresh}
      BY <2>5
    <3>2. \A r \in RowsOf(db, u) : r[2] \in X
      BY <2>6 DEF HeldOf
    <3> QED
      BY <2>7, <3>1, <3>2
  <2>9. HeldOf(db'.log, o, Y) = {p \in HeldOf(db.log, o, X) : p \in Y}
    BY <1>2, <2>1, <2>3, <2>7 DEF HeldOf
  <2>10. RowsOf(db', u) = {u} \X HeldOf(db'.log, o, Y)
    BY <2>6, <2>8, <2>9
  <2> QED
    BY <1>2, <2>3, <2>5, <2>10
<1> QED
  BY <1>3, <1>4, <1>5, <1>6, <1>7, DataStepRight

LEMMA RemoveRecordRight ==
  ASSUME TInv, PInv, plain, NEW t \in Tables(db), NEW o, RemoveRecord(t, o)
  PROVE  PInv'
<1>1. PICK m : m = [u \in Tables(db) |-> IF u = t THEN -1 ELSE 0]
  OBVIOUS
<1>2. /\ DbFits(db') /\ Grown(db.log, db'.log) /\ NoCommits(db.log, db'.log)
      /\ db'.live = db.live /\ db'.drops = db.drops /\ db'.rows = db.rows
      /\ Recounted(db.log, db'.log) /\ CountedBy(db, m, db'.log)
  BY <1>1, RemoveRecordIs
<1>3. /\ up /\ up' = up /\ plain' = plain /\ saved' = saved /\ nexttable' = nexttable
      /\ fresh' = fresh /\ going' = going \cup {o} /\ <<t, o>> \in db.rows /\ o \notin going
  BY DEF RemoveRecord
<1>4. DOMAIN db'.log = DOMAIN db.log /\ NewIn(db, db') = {}
  <2>1. db.log \in Logs
    BY DEF TInv, DbFits, LogFits
  <2> QED
    BY <1>2, <2>1, RecountedIsGrown DEF NewIn
<1>5. DataStepOf
  BY <1>2, <1>3, <1>4 DEF DataStepOf
<1>6. /\ going \subseteq OfKind(db.log, "data")
      /\ \A r \in db.rows : db.log[r[2]].tbl = r[1] /\ r[2] \in OfKind(db.log, "data")
      /\ \A p \in OfKind(db.log, "data") : p \in DOMAIN db.log
      /\ \A p \in fresh \cup going : db.log[p].tbl < nexttable
      /\ \A p \in fresh \cup going : db.log[p].tbl \in Tables(db) => <<db.log[p].tbl, p>> \in db.rows
  BY <1>3, DataIs
<1>7. db.log[o].tbl = t /\ o \in OfKind(db.log, "data") /\ o \in DOMAIN db.log
  <2>1. <<t, o>>[1] = t /\ <<t, o>>[2] = o
    OBVIOUS
  <2> QED
    BY <1>3, <1>6, <2>1
<1>8. t < nexttable
  BY <1>3, LiveSchemaIs
<1>9. CountsRight(db', going')
  <2> SUFFICES ASSUME NEW u \in Tables(db)
               PROVE  /\ m[u] \in Int
                      /\ Cardinality(OffsLeft(db', going', u)) = Cardinality(OffsLeft(db, going, u)) + m[u]
    BY <1>2, <1>5, CountsMove
  <2>1. PICK A : A = OffsLeft(db, going, u)
    OBVIOUS
  <2>2. IsFiniteSet(A) /\ Cardinality(A) \in Nat
    BY <2>1, RowsLeftCount DEF TInv
  <2>3. OffsLeft(db', going', u) = A \ {o}
    BY <1>2, <1>3, <1>4, <2>1 DEF OffsLeft
  <2>4. CASE u = t
    <3>1. o \in A
      BY <1>3, <1>7, <2>1, <2>4 DEF OffsLeft
    <3>2. Cardinality(A \ {o}) = Cardinality(A) - 1
      BY <2>2, <3>1, FS_RemoveElement
    <3>3. m[u] = -1
      BY <1>1, <2>4
    <3> QED
      BY <2>1, <2>2, <2>3, <3>2, <3>3
  <2>5. CASE u # t
    <3>1. o \notin A
      <4>1. <<u, o>> \notin db.rows
        <5>1. <<u, o>>[1] = u /\ <<u, o>>[2] = o
          OBVIOUS
        <5> QED
          BY <1>6, <1>7, <2>5, <5>1
      <4> QED
        BY <2>1, <4>1 DEF OffsLeft
    <3>2. A \ {o} = A
      BY <3>1
    <3>3. m[u] = 0
      BY <1>1, <2>5
    <3> QED
      BY <2>1, <2>2, <2>3, <3>2, <3>3
  <2> QED
    BY <2>4, <2>5
<1>10. \A p \in fresh' \cup going' : db.log[p].tbl \in Tables(db) => <<db.log[p].tbl, p>> \in db'.rows
  BY <1>2, <1>3, <1>6, <1>7
<1>11. \A u : RowsOf(db', u) = {r \in RowsOf(db, u) : r[2] \in Created(db.log) \cup fresh' \/ r[2] \notin fresh}
  BY <1>2, <1>3 DEF RowsOf
<1>12. /\ fresh' \subseteq fresh /\ going' \subseteq OfKind(db.log, "data") /\ db'.rows \subseteq db.rows
       /\ \A p \in going' : db.log[p].tbl < nexttable
  BY <1>2, <1>3, <1>6, <1>7, <1>8
<1> QED
  BY <1>4, <1>5, <1>9, <1>10, <1>11, <1>12, SameBlocksRight

\* Two ways to divide a set.
LEMMA TwoCounts ==
  ASSUME NEW A, IsFiniteSet(A), NEW B, IsFiniteSet(B), NEW C, IsFiniteSet(C), NEW D, IsFiniteSet(D),
         A \cap B = {}, C \cap D = {}, A \cup B = C \cup D
  PROVE  /\ Cardinality(A) + Cardinality(B) = Cardinality(C) + Cardinality(D)
         /\ Cardinality(A) \in Nat /\ Cardinality(B) \in Nat
         /\ Cardinality(C) \in Nat /\ Cardinality(D) \in Nat
<1>1. Cardinality(A \cup B) = Cardinality(A) + Cardinality(B)
  BY DisjointCount
<1>2. Cardinality(C \cup D) = Cardinality(C) + Cardinality(D)
  BY DisjointCount
<1> QED
  BY <1>1, <1>2, FS_CardinalityType

LEMMA AbortRight ==
  ASSUME TInv, PInv, plain, NEW creates \in SUBSET fresh, NEW deletes \in SUBSET going, Abort(creates, deletes)
  PROVE  PInv'
<1>1. PICK m : m = [u \in Tables(db) |-> OfTable(db, deletes, u) - OfTable(db, creates, u)]
  OBVIOUS
<1>2. /\ DbFits(db') /\ Grown(db.log, db'.log) /\ NoCommits(db.log, db'.log)
      /\ db'.live = db.live /\ db'.drops = db.drops /\ db'.rows = {r \in db.rows : r[2] \notin creates}
      /\ Recounted(db.log, db'.log) /\ CountedBy(db, m, db'.log)
  BY <1>1, AbortIs
<1>3. /\ up /\ up' = up /\ plain' = plain /\ saved' = saved /\ nexttable' = nexttable
      /\ fresh' = fresh \ creates /\ going' = going \ deletes /\ creates \cap going \subseteq deletes
  BY DEF Abort, Transaction
<1>4. DOMAIN db'.log = DOMAIN db.log /\ NewIn(db, db') = {}
  <2>1. db.log \in Logs
    BY DEF TInv, DbFits, LogFits
  <2> QED
    BY <1>2, <2>1, RecountedIsGrown DEF NewIn
<1>5. DataStepOf
  BY <1>2, <1>3, <1>4 DEF DataStepOf
<1>6. /\ fresh \cup going \subseteq OfKind(db.log, "data")
      /\ \A r \in db.rows : db.log[r[2]].tbl = r[1] /\ r[2] \in OfKind(db.log, "data")
      /\ \A p \in OfKind(db.log, "data") : p \in DOMAIN db.log
      /\ \A p \in fresh \cup going : db.log[p].tbl < nexttable
      /\ \A p \in fresh \cup going : db.log[p].tbl \in Tables(db) => <<db.log[p].tbl, p>> \in db.rows
      /\ fresh \cap Created(db.log) = {}
  BY <1>3, DataIs
<1>7. CountsRight(db', going')
  <2> SUFFICES ASSUME NEW u \in Tables(db)
               PROVE  /\ m[u] \in Int
                      /\ Cardinality(OffsLeft(db', going', u)) = Cardinality(OffsLeft(db, going, u)) + m[u]
    BY <1>2, <1>5, CountsMove
  <2>1. PICK A : A = OffsLeft(db, going, u)
    OBVIOUS
  <2>2. PICK N : N = OffsLeft(db', going', u)
    OBVIOUS
  <2>3. PICK D : D = {p \in deletes : db.log[p].tbl = u}
    OBVIOUS
  <2>4. PICK C : C = {p \in creates : db.log[p].tbl = u}
    OBVIOUS
  <2>5. IsFiniteSet(A) /\ IsFiniteSet(N) /\ IsFiniteSet(C) /\ IsFiniteSet(D)
    <3>1. db.log \in Logs /\ DbFits(db)
      BY DEF TInv, DbFits, LogFits
    <3>2. IsFiniteSet(A) /\ IsFiniteSet(N)
      BY <1>2, <2>1, <2>2, <3>1, RowsLeftCount
    <3>3. C \subseteq DOMAIN db.log /\ D \subseteq DOMAIN db.log
      BY <1>6, <2>3, <2>4
    <3> QED
      BY <3>1, <3>2, <3>3, OffsetsFinite
  <2>6. \A p : p \in N <=> /\ p \in DOMAIN db.log /\ <<u, p>> \in db.rows /\ p \notin creates
                           /\ (p \notin going \/ p \in deletes)
    BY <1>2, <1>3, <1>4, <2>2 DEF OffsLeft
  <2>7. \A p : p \in A <=> p \in DOMAIN db.log /\ <<u, p>> \in db.rows /\ p \notin going
    BY <2>1 DEF OffsLeft
  <2>8. \A p : <<u, p>> \in db.rows => db.log[p].tbl = u /\ p \in DOMAIN db.log
    <3>1. \A p : <<u, p>>[1] = u /\ <<u, p>>[2] = p
      OBVIOUS
    <3> QED
      BY <1>6, <3>1
  <2>9. \A p \in C \cup D : <<u, p>> \in db.rows /\ p \in DOMAIN db.log
    BY <1>6, <2>3, <2>4
  <2>10. N \cap C = {} /\ A \cap D = {} /\ N \cup C = A \cup D
    <3>1. N \cap C = {} /\ A \cap D = {}
      BY <2>3, <2>4, <2>6, <2>7
    <3>2. N \cup C \subseteq A \cup D
      BY <1>3, <2>3, <2>4, <2>6, <2>7, <2>8, <2>9
    <3>3. A \cup D \subseteq N \cup C
      BY <1>3, <2>3, <2>4, <2>6, <2>7, <2>8, <2>9
    <3> QED
      BY <3>1, <3>2, <3>3
  <2>11. /\ Cardinality(N) + Cardinality(C) = Cardinality(A) + Cardinality(D)
         /\ Cardinality(N) \in Nat /\ Cardinality(C) \in Nat
         /\ Cardinality(A) \in Nat /\ Cardinality(D) \in Nat
    BY <2>5, <2>10, TwoCounts
  <2>12. m[u] = Cardinality(D) - Cardinality(C)
    BY <1>1, <2>3, <2>4 DEF OfTable
  <2> QED
    BY <2>1, <2>2, <2>11, <2>12
<1>8. \A p \in fresh' \cup going' : db.log[p].tbl \in Tables(db) => <<db.log[p].tbl, p>> \in db'.rows
  BY <1>2, <1>3, <1>6
<1>9. \A u : RowsOf(db', u) = {r \in RowsOf(db, u) : r[2] \in Created(db.log) \cup fresh' \/ r[2] \notin fresh}
  BY <1>2, <1>3, <1>6 DEF RowsOf
<1>10. /\ fresh' \subseteq fresh /\ going' \subseteq OfKind(db.log, "data") /\ db'.rows \subseteq db.rows
       /\ \A p \in going' : db.log[p].tbl < nexttable
  BY <1>2, <1>3, <1>6
<1> QED
  BY <1>4, <1>5, <1>7, <1>8, <1>9, <1>10, SameBlocksRight

-----------------------------------------------------------------------------
(* Commits *)

\* log2 has one more commit record, of creates and deletes.
CommitAdded(log, creates, deletes, log2) ==
  /\ Commits(log2) = Commits(log) \cup {Len(log) + 1} /\ Len(log) + 1 \notin Commits(log)
  /\ \A c \in Commits(log) : log2[c] = log[c]
  /\ log2[Len(log) + 1].creates = creates
  /\ Created(log2) = Created(log) \cup creates /\ Deleted(log2) = Deleted(log) \cup deletes
  /\ Before(log2) = DOMAIN log /\ Schema(log2) = Schema(log)
  /\ \A o \in DOMAIN log : log2[o] = log[o] /\ (Made(log2, o) <=> Made(log, o))
  /\ DOMAIN log2 = DOMAIN log \cup {Len(log) + 1} /\ Len(log) + 1 \notin DOMAIN log
  /\ log2[Len(log) + 1].kind = "commit" /\ Grown(log, log2)

LEMMA CommitAddedIs ==
  ASSUME NEW log, log \in Logs, NEW creates, NEW deletes, CommitRec(creates, deletes) \in Block,
         NEW log2, Longer(log, CommitRec(creates, deletes), log2)
  PROVE  CommitAdded(log, creates, deletes, log2)
<1>1. PICK b : b = CommitRec(creates, deletes)
  OBVIOUS
<1>2. PICK n : n = Len(log)
  OBVIOUS
<1>3. OneMore(log, b, log2, n) /\ Grown(log, log2)
  BY <1>1, <1>2, OneMoreIs, LongerIsGrown
<1>4. b.kind = "commit" /\ b.creates = creates /\ b.deletes = deletes
  BY <1>1 DEF CommitRec
<1>5. /\ n \in Nat /\ DOMAIN log = 1 .. n /\ DOMAIN log2 = DOMAIN log \cup {n + 1} /\ n + 1 \notin DOMAIN log
      /\ \A o \in DOMAIN log : log2[o] = log[o] /\ o < n + 1
      /\ log2[n + 1] = b
  BY <1>3 DEF OneMore
<1>6. Commits(log2) = Commits(log) \cup {n + 1} /\ n + 1 \notin Commits(log)
  BY <1>4, <1>5 DEF Commits
<1>7. \A c \in Commits(log) : c \in DOMAIN log /\ log2[c] = log[c]
  BY <1>5 DEF Commits
<1>8. Created(log2) = Created(log) \cup creates
  BY <1>4, <1>5, <1>6, <1>7 DEF Created
<1>9. Deleted(log2) = Deleted(log) \cup deletes
  BY <1>4, <1>5, <1>6, <1>7 DEF Deleted
<1>10. Before(log2) = DOMAIN log
  <2>1. \A o \in DOMAIN log : o \in DOMAIN log2 /\ o < n + 1 /\ n + 1 \in Commits(log2)
    BY <1>5, <1>6
  <2>2. \A c \in Commits(log2) : c \in 1 .. n + 1
    <3>1. \A o \in 1 .. n : o \in 1 .. n + 1
      BY <1>5
    <3>2. n + 1 \in 1 .. n + 1
      BY <1>5
    <3> QED
      BY <1>5, <1>6, <1>7, <3>1, <3>2
  <2>3. \A o \in DOMAIN log2 : ~ (o \in DOMAIN log) => o = n + 1
    BY <1>5
  <2>4. \A c \in 1 .. n + 1 : ~ (n + 1 < c)
    BY <1>5
  <2> QED
    BY <2>1, <2>2, <2>3, <2>4 DEF Before
<1>11. Schema(log2) = Schema(log)
  BY <1>4, <1>5 DEF Schema, SchemaKinds
<1>12. \A o \in DOMAIN log : Made(log2, o) <=> Made(log, o)
  BY <1>3, MadeStays
<1> QED
  BY <1>2, <1>3, <1>4, <1>5, <1>6, <1>7, <1>8, <1>9, <1>10, <1>11, <1>12 DEF CommitAdded

\* A commit of creates and deletes: a transaction's, or that of a shutdown.
CommitStepOf(creates, deletes) ==
  /\ up /\ up' = up /\ plain' = plain /\ nexttable' = nexttable
  /\ DbFits(db') /\ Longer(db.log, CommitRec(creates, deletes \cup db.drops), db'.log)
  /\ CommitRec(creates, deletes \cup db.drops) \in Block
  /\ db'.live = db.live /\ db'.drops = {} /\ db'.rows = {r \in db.rows : r[2] \notin deletes}
  /\ creates \subseteq fresh /\ deletes \subseteq going /\ fresh \cap deletes \subseteq creates
  /\ fresh' = fresh \ creates /\ going' = going \ deletes
  /\ saved' = Contents(db', fresh')

LEMMA CommitRight ==
  ASSUME TInv, PInv, plain, NEW creates, NEW deletes, CommitStepOf(creates, deletes)
  PROVE  PInv'
<1>0. /\ up /\ up' = up /\ plain' = plain /\ nexttable' = nexttable
      /\ DbFits(db') /\ Longer(db.log, CommitRec(creates, deletes \cup db.drops), db'.log)
      /\ CommitRec(creates, deletes \cup db.drops) \in Block
      /\ db'.live = db.live /\ db'.drops = {} /\ db'.rows = {r \in db.rows : r[2] \notin deletes}
      /\ creates \subseteq fresh /\ deletes \subseteq going /\ fresh \cap deletes \subseteq creates
      /\ fresh' = fresh \ creates /\ going' = going \ deletes
      /\ saved' = Contents(db', fresh')
  BY DEF CommitStepOf
<1>1. /\ LiveRight(db, fresh, going, nexttable) /\ Consistent(db.log, db.live) /\ DbFits(db)
      /\ db.log \in Logs /\ LogFits(db.log) /\ db.live \subseteq DOMAIN db.log
  BY <1>0, LiveSchemaIs
<1>2. LogRight(db.log)
  BY DEF PInv
<1>3. PICK n : n = Len(db.log) + 1
  OBVIOUS
<1>4. PICK dels : dels = deletes \cup db.drops
  OBVIOUS
<1>5. CommitAdded(db.log, creates, dels, db'.log)
  BY <1>0, <1>1, <1>4, CommitAddedIs
<1>6. /\ Commits(db'.log) = Commits(db.log) \cup {n} /\ n \notin Commits(db.log)
      /\ \A c \in Commits(db.log) : db'.log[c] = db.log[c]
      /\ db'.log[n].creates = creates /\ db'.log[n].kind = "commit"
      /\ Created(db'.log) = Created(db.log) \cup creates /\ Deleted(db'.log) = Deleted(db.log) \cup dels
      /\ Before(db'.log) = DOMAIN db.log /\ Schema(db'.log) = Schema(db.log)
      /\ \A o \in DOMAIN db.log : db'.log[o] = db.log[o] /\ (Made(db'.log, o) <=> Made(db.log, o))
      /\ DOMAIN db'.log = DOMAIN db.log \cup {n} /\ n \notin DOMAIN db.log
      /\ Grown(db.log, db'.log)
  BY <1>3, <1>5 DEF CommitAdded
<1>7. /\ fresh \cup going \subseteq OfKind(db.log, "data")
      /\ \A p \in OfKind(db.log, "data") : p \in DOMAIN db.log /\ db'.log[p] = db.log[p]
      /\ \A r \in db.rows : db.log[r[2]].tbl = r[1] /\ r[2] \in OfKind(db.log, "data") /\ r = <<r[1], r[2]>>
      /\ \A p \in fresh \cup going : db.log[p].tbl < nexttable
      /\ \A p \in fresh \cup going : db.log[p].tbl \in Tables(db) => <<db.log[p].tbl, p>> \in db.rows
      /\ fresh \cap (Created(db.log) \cup Deleted(db.log)) = {}
      /\ Created(db.log) \subseteq OfKind(db.log, "data")
  BY <1>0, <1>6, DataIs
<1>8. Schema(db.log) \subseteq DOMAIN db.log /\ Schema(db.log) \cap OfKind(db.log, "data") = {}
  BY DEF Schema, OfKind, SchemaKinds
<1>9. db.live = Schema(db.log) \ (db.drops \cup Deleted(db.log)) /\ db.drops \subseteq Schema(db.log)
  BY <1>1 DEF LiveRight, LiveSchema
<1>10. db'.live = Schema(db'.log) \ Deleted(db'.log) /\ db'.live = Undeleted(db'.log)
  BY <1>0, <1>4, <1>6, <1>7, <1>8, <1>9 DEF Undeleted, Kept
<1>11. Consistent(db'.log, db'.live)
  BY <1>0, <1>1, <1>6, LiveMoves
<1>12. \A o \in OfKind(db'.log, "tables") : o \in OfKind(db.log, "tables") /\ o \in DOMAIN db.log
  BY <1>6 DEF OfKind
<1>13. MadeWhole(db'.log) /\ NoneHidden(db'.log)
  <2>1. \A o \in DOMAIN db'.log \ DOMAIN db.log : db'.log[o].kind = "tables" => TableWhole(db'.log, o)
    BY <1>6
  <2> QED
    BY <1>1, <1>2, <1>6, <2>1, GrownWhole DEF LogRight
<1>14. CreatedLater(db'.log)
  <2> SUFFICES ASSUME NEW o \in OfKind(db'.log, "tables"), NEW c \in Commits(db'.log),
                      Made(db'.log, o), o < c, NEW p \in db'.log[c].creates, db'.log[p].tbl = db'.log[o].tbl
               PROVE  o < p
    BY DEF CreatedLater
  <2>1. o \in OfKind(db.log, "tables") /\ Made(db.log, o) /\ db'.log[o] = db.log[o]
    BY <1>6, <1>12
  <2>2. CASE c = n
    <3>1. p \in fresh /\ db'.log[p] = db.log[p]
      BY <1>0, <1>6, <1>7, <2>2
    <3> QED
      BY <1>1, <2>1, <3>1 DEF LiveRight, FreshLater
  <2>3. CASE c # n
    <3>1. c \in Commits(db.log) /\ p \in db.log[c].creates
      BY <1>6, <2>3
    <3>2. p \in Created(db.log)
      BY <3>1 DEF Created
    <3>3. db'.log[p] = db.log[p]
      BY <1>7, <3>2
    <3> QED
      BY <1>2, <2>1, <3>1, <3>3 DEF LogRight, CreatedLater
  <2> QED
    BY <2>2, <2>3
<1>15. CreatedOnce(db'.log)
  <2>1. \A c \in Commits(db.log) : db.log[c].creates \cap creates = {}
    BY <1>0, <1>7 DEF Created
  <2> QED
    BY <1>2, <1>6, <2>1 DEF LogRight, CreatedOnce
<1>16. LogRight(db'.log)
  BY <1>10, <1>11, <1>13, <1>14, <1>15 DEF LogRight
<1>17. /\ Live(db', "tables") = Live(db, "tables") /\ Tables(db') = Tables(db)
       /\ \A o \in Live(db, "tables") : db'.log[o] = db.log[o] /\ o \in DOMAIN db.log
  <2>1. \A o \in db.live : db'.log[o] = db.log[o]
    BY <1>1, <1>6
  <2>2. Live(db', "tables") = Live(db, "tables")
    BY <1>0, <2>1 DEF Live
  <2>3. \A o \in Live(db, "tables") : o \in db.live
    BY DEF Live
  <2> QED
    BY <1>1, <2>1, <2>2, <2>3 DEF Tables
<1>18. RowsHeld(db', fresh')
  <2> SUFFICES ASSUME NEW o \in Live(db, "tables"), Made(db'.log, o)
               PROVE  RowsOf(db', db'.log[o].tbl)
                        = {db'.log[o].tbl} \X HeldOf(db'.log, o, Created(db'.log) \cup fresh')
    BY <1>17 DEF RowsHeld
  <2>1. PICK u : u = db.log[o].tbl
    OBVIOUS
  <2>2. Made(db.log, o) /\ db'.log[o].tbl = u
    BY <1>6, <1>17, <2>1
  <2>3. PICK X : X = Created(db.log) \cup fresh
    OBVIOUS
  <2>4. Created(db'.log) \cup fresh' = X
    BY <1>0, <1>6, <2>3
  <2>5. RowsOf(db, u) = {u} \X HeldOf(db.log, o, X)
    BY <1>1, <2>1, <2>2, <2>3 DEF LiveRight, RowsHeld
  <2>6. RowsOf(db', u) = {r \in RowsOf(db, u) : r[2] \notin deletes}
    BY <1>0 DEF RowsOf
  <2>7. \A p \in X : db'.log[p] = db.log[p] /\ p \notin db.drops
    BY <1>7, <1>8, <1>9, <2>3
  <2>8. HeldOf(db'.log, o, X) = {p \in HeldOf(db.log, o, X) : p \notin deletes}
    BY <1>4, <1>6, <2>1, <2>2, <2>7 DEF HeldOf
  <2>9. RowsOf(db', u) = {u} \X HeldOf(db'.log, o, X)
    BY <2>5, <2>6, <2>8
  <2> QED
    BY <2>2, <2>4, <2>9
<1>19. SavedIs(db'.log, saved')
  <2> SUFFICES ASSUME AllMade(db'.log)
               PROVE  Contents(db', fresh') = Static(db'.log)
    BY <1>0 DEF SavedIs
  <2>1. fresh' \cap Created(db'.log) = {}
    BY <1>0, <1>6, <1>7
  <2> QED
    BY <1>0, <1>10, <1>11, <1>18, <2>1, ContentsAreStatic
<1>20. LiveSchema(db')
  BY <1>0, <1>10 DEF LiveSchema
<1>21. Numbered(db', fresh', going', nexttable')
  <2>1. \A o \in Live(db', "tables") : db'.log[o].tbl < nexttable
    BY <1>0, <1>17, LiveSchemaIs
  <2>2. \A p \in fresh' \cup going' : db'.log[p].tbl < nexttable
    BY <1>0, <1>7
  <2> QED
    BY <1>0, <2>1, <2>2 DEF Numbered
<1>22. RowsHome(db', fresh', going')
  <2>1. \A r \in db'.rows : db'.log[r[2]].tbl = r[1]
    BY <1>0, <1>7
  <2>2. \A p \in fresh' \cup going' : p \notin deletes /\ p \in fresh \cup going /\ db'.log[p] = db.log[p]
    BY <1>0, <1>7
  <2>3. \A p \in fresh' \cup going' : db'.log[p].tbl \in Tables(db') => <<db'.log[p].tbl, p>> \in db'.rows
    <3> SUFFICES ASSUME NEW p \in fresh' \cup going', db'.log[p].tbl \in Tables(db')
                 PROVE  <<db'.log[p].tbl, p>> \in db'.rows
      OBVIOUS
    <3>1. <<db.log[p].tbl, p>> \in db.rows /\ db'.log[p] = db.log[p] /\ p \notin deletes
      BY <1>7, <1>17, <2>2
    <3> QED
      BY <1>0, <3>1
  <2> QED
    BY <2>1, <2>3 DEF RowsHome
<1>23. CountsRight(db', going')
  <2> SUFFICES ASSUME NEW o \in Live(db, "tables")
               PROVE  db'.log[o].nrows = Cardinality(RowsLeft(db', going', db'.log[o].tbl))
    BY <1>17 DEF CountsRight
  <2>1. \A t : RowsLeft(db', going', t) = RowsLeft(db, going, t)
    BY <1>0 DEF RowsLeft
  <2>2. db.log[o].nrows = Cardinality(RowsLeft(db, going, db.log[o].tbl))
    BY <1>1 DEF LiveRight, CountsRight
  <2> QED
    BY <1>17, <2>1, <2>2
<1>24. FreshApart(db'.log, fresh')
  BY <1>0, <1>4, <1>6, <1>7, <1>8, <1>9 DEF FreshApart
<1>25. FreshLater(db'.log, fresh')
  <2>1. \A p \in fresh' : p \in fresh /\ db'.log[p] = db.log[p]
    BY <1>0, <1>7
  <2> QED
    BY <1>1, <1>6, <1>12, <2>1 DEF LiveRight, FreshLater
<1>26. LiveRight(db', fresh', going', nexttable')
  BY <1>11, <1>18, <1>20, <1>21, <1>22, <1>23, <1>24, <1>25 DEF LiveRight
<1> QED
  BY <1>0, <1>16, <1>19, <1>26 DEF PInv

LEMMA DataRequestRight ==
  ASSUME TInv, PInv, plain, DataRequest
  PROVE  PInv'
<1>1. CASE \E t \in Tables(db) : AddRecord(t)
  BY <1>1, AddRecordRight
<1>2. CASE \E r \in db.rows : RemoveRecord(r[1], r[2])
  <2>1. PICK r \in db.rows : RemoveRecord(r[1], r[2])
    BY <1>2
  <2>2. r[1] \in Tables(db)
    BY DEF TInv, DbFits
  <2> QED
    BY <2>1, <2>2, RemoveRecordRight
<1>3. ASSUME NEW creates \in SUBSET fresh, NEW deletes \in SUBSET going, Commit(creates, deletes)
      PROVE  PInv'
  <2>1. /\ DbFits(db') /\ Longer(db.log, CommitRec(creates, deletes \cup db.drops), db'.log)
        /\ CommitRec(creates, deletes \cup db.drops) \in Block
        /\ db'.live = db.live /\ db'.drops = {}
        /\ db'.rows = {r \in db.rows : r[2] \notin deletes}
    BY <1>3, CommitIs
  <2>2. /\ up /\ up' = up /\ plain' = plain /\ nexttable' = nexttable /\ fresh \cap deletes \subseteq creates
        /\ fresh' = fresh \ creates /\ going' = going \ deletes /\ saved' = Contents(db', fresh')
    BY <1>3 DEF Commit, Transaction
  <2>3. CommitStepOf(creates, deletes)
    BY <2>1, <2>2 DEF CommitStepOf
  <2> QED
    BY <2>3, CommitRight
<1>4. ASSUME NEW creates \in SUBSET fresh, NEW deletes \in SUBSET going, Abort(creates, deletes)
      PROVE  PInv'
  BY <1>4, AbortRight
<1> QED
  BY <1>1, <1>2, <1>3, <1>4 DEF DataRequest

LEMMA RestartRight ==
  ASSUME TInv, PInv, plain, Restart
  PROVE  PInv'
<1>1. /\ DbFits(db') /\ Longer(db.log, CommitRec({}, db.drops), db'.log) /\ CommitRec({}, db.drops) \in Block
      /\ db'.live = db.live /\ db'.drops = {} /\ db'.rows = db.rows
  BY RestartIs
<1>2. /\ up /\ up' = up /\ plain' = plain /\ nexttable' = nexttable /\ fresh = {} /\ going = {}
      /\ fresh' = fresh /\ going' = going /\ saved' = Contents(db', {})
  BY DEF Restart
<1>3. {} \cup db.drops = db.drops /\ fresh' = fresh \ {} /\ going' = going \ {}
      /\ db'.rows = {r \in db.rows : r[2] \notin {}}
  BY <1>1, <1>2
<1>4. CommitStepOf({}, {})
  <2>1. saved' = Contents(db', fresh')
    BY <1>2
  <2> QED
    BY <1>1, <1>2, <1>3, <2>1 DEF CommitStepOf
<1> QED
  BY <1>4, CommitRight

-----------------------------------------------------------------------------
(* The first database, and a crash *)

\* A file that begins with the record of a table, and has no other.
LEMMA FirstRight ==
  ASSUME NEW log, log \in Logs, NEW name, NEW col, FirstBlocks(log, name, col)
  PROVE  /\ Commits(log) = {4} /\ Created(log) = {} /\ Deleted(log) = {}
         /\ Schema(log) = {1, 2, 3} /\ Before(log) = {1, 2, 3} /\ Undeleted(log) = {1, 2, 3}
         /\ OfKind(log, "tables") = {1} /\ OfKind(log, "columns") = {2} /\ OfKind(log, "indexes") = {3}
         /\ log[1].tbl = 5 /\ log[2].tbl = 5 /\ log[3].tbl = 5 /\ log[1].nrows = 0
         /\ log[1].hidden = FALSE /\ log[1].nextfield = 1 /\ log[2].field = 0
         /\ log[2].column = col /\ log[3].column = col
<1>1. /\ DOMAIN log = {1, 2, 3, 4}
      /\ log[1] = [TablesRec(5, name) EXCEPT !.nextfield = 1]
      /\ log[2] = ColumnsRec(5, col, 0) /\ log[3] = IndexesRec(5, col)
      /\ log[4] = CommitRec({}, {})
  BY DEF FirstBlocks
<1>2. /\ log[1].kind = "tables" /\ log[1].tbl = 5 /\ log[1].nrows = 0
      /\ log[1].hidden = FALSE /\ log[1].nextfield = 1
  BY <1>1 DEF TablesRec
<1>3. log[2].kind = "columns" /\ log[2].tbl = 5 /\ log[2].field = 0 /\ log[2].column = col
  BY <1>1 DEF ColumnsRec
<1>4. log[3].kind = "indexes" /\ log[3].tbl = 5 /\ log[3].column = col
  BY <1>1 DEF IndexesRec
<1>5. log[4].kind = "commit" /\ log[4].creates = {} /\ log[4].deletes = {}
  BY <1>1 DEF CommitRec
<1>6. Commits(log) = {4}
  BY <1>1, <1>2, <1>3, <1>4, <1>5 DEF Commits
<1>7. Created(log) = {} /\ Deleted(log) = {}
  BY <1>5, <1>6 DEF Created, Deleted
<1>8. Schema(log) = {1, 2, 3}
  BY <1>1, <1>2, <1>3, <1>4, <1>5 DEF Schema, SchemaKinds
<1>9. Before(log) = {1, 2, 3}
  BY <1>1, <1>6 DEF Before
<1>10. OfKind(log, "tables") = {1} /\ OfKind(log, "columns") = {2} /\ OfKind(log, "indexes") = {3}
  BY <1>1, <1>2, <1>3, <1>4, <1>5 DEF OfKind
<1>11. Undeleted(log) = {1, 2, 3}
  BY <1>7, <1>8, <1>9 DEF Undeleted, Kept
<1> QED
  BY <1>2, <1>3, <1>4, <1>6, <1>7, <1>8, <1>9, <1>10, <1>11

LEMMA FirstConsistent ==
  ASSUME NEW log, log \in Logs, NEW name, NEW col, FirstBlocks(log, name, col)
  PROVE  Consistent(log, {1, 2, 3}) /\ MadeWhole(log) /\ NoneHidden(log)
<1>1. /\ OfKind(log, "tables") = {1} /\ OfKind(log, "columns") = {2} /\ OfKind(log, "indexes") = {3}
      /\ log[1].tbl = 5 /\ log[2].tbl = 5 /\ log[3].tbl = 5
      /\ log[1].hidden = FALSE /\ log[1].nextfield = 1 /\ log[2].field = 0
      /\ log[2].column = col /\ log[3].column = col
  BY FirstRight
<1>2. DOMAIN log = {1, 2, 3, 4}
  BY DEF FirstBlocks
<1>3. /\ AmongOf(log, {1, 2, 3}, "tables") = {1} /\ AmongOf(log, {1, 2, 3}, "columns") = {2}
      /\ AmongOf(log, {1, 2, 3}, "indexes") = {3}
  BY <1>1, <1>2 DEF AmongOf, OfKind
<1>4. TablesApart(log, {1, 2, 3})
  BY <1>1, <1>3 DEF TablesApart, TN_VIEWS
<1>5. ColumnsHome(log, {1, 2, 3}) /\ ColumnsApart(log, {1, 2, 3})
  BY <1>1, <1>3 DEF ColumnsHome, ColumnsApart
<1>6. IndexesHome(log, {1, 2, 3}) /\ IndexesApart(log, {1, 2, 3}) /\ PartsLater(log, {1, 2, 3})
  BY <1>1, <1>3 DEF IndexesHome, IndexesApart, PartsLater
<1>7. MadeWhole(log)
  <2>1. 2 \in OfKind(log, "columns") /\ 3 \in OfKind(log, "indexes")
    BY <1>1
  <2>2. log[2].kind = "columns" /\ log[3].kind = "indexes"
    BY <2>1 DEF OfKind
  <2>3. 1 + 1 = 2 /\ 1 + 2 = 3
    OBVIOUS
  <2> QED
    BY <1>1, <1>2, <2>2, <2>3 DEF MadeWhole
<1>8. NoneHidden(log)
  BY <1>1 DEF NoneHidden
<1> QED
  BY <1>4, <1>5, <1>6, <1>7, <1>8 DEF Consistent

LEMMA InitRight == Init => PInv
<1> SUFFICES ASSUME Init
             PROVE  PInv
  OBVIOUS
<1>1. PICK name \in Names, col \in Columns : db = FirstDb(name, col)
  BY DEF Init
<1>2. PICK log : log = db.log
  OBVIOUS
<1>3. DbFits(db) /\ FirstBlocks(log, name, col) /\ db.live = {1, 2, 3} /\ db.rows = {} /\ db.drops = {}
  BY <1>1, <1>2, FirstDbIs
<1>4. log \in Logs
  BY <1>3 DEF FirstBlocks
<1>5. /\ Commits(log) = {4} /\ Created(log) = {} /\ Deleted(log) = {}
      /\ Schema(log) = {1, 2, 3} /\ Before(log) = {1, 2, 3} /\ Undeleted(log) = {1, 2, 3}
      /\ OfKind(log, "tables") = {1} /\ log[1].tbl = 5 /\ log[1].nrows = 0
  BY <1>3, <1>4, FirstRight
<1>6. Consistent(log, {1, 2, 3}) /\ MadeWhole(log) /\ NoneHidden(log)
  BY <1>3, <1>4, FirstConsistent
<1>7. CreatedLater(log) /\ CreatedOnce(log)
  <2>1. \A c \in Commits(log) : log[c].creates = {}
    BY <1>5 DEF Created
  <2> QED
    BY <2>1 DEF CreatedLater, CreatedOnce
<1>8. LogRight(log)
  BY <1>5, <1>6, <1>7 DEF LogRight
<1>9. Live(db, "tables") = {1}
  BY <1>2, <1>3, <1>5, <1>4 DEF Live, OfKind, FirstBlocks
<1>10. fresh = {} /\ going = {} /\ nexttable = 6 /\ up /\ saved = Contents(db, {})
  BY DEF Init, TN_VIEWS
<1>11. LiveSchema(db) /\ Consistent(db.log, db.live)
  BY <1>2, <1>3, <1>5, <1>6 DEF LiveSchema
<1>12. Numbered(db, {}, {}, 6)
  BY <1>2, <1>5, <1>9 DEF Numbered
<1>13. RowsHome(db, {}, {}) /\ CountsRight(db, {})
  <2>1. RowsHome(db, {}, {})
    BY <1>3 DEF RowsHome
  <2>2. \A t : RowsLeft(db, {}, t) = {}
    BY <1>3 DEF RowsLeft
  <2>3. Cardinality({}) = 0
    BY FS_EmptySet
  <2> QED
    BY <1>2, <1>5, <1>9, <2>1, <2>2, <2>3 DEF CountsRight
<1>14. FreshApart(db.log, {}) /\ FreshLater(db.log, {})
  BY DEF FreshApart, FreshLater
<1>15. RowsHeld(db, {})
  <2>1. \A o : HeldOf(db.log, o, Created(db.log) \cup {}) = {}
    BY <1>2, <1>5 DEF HeldOf
  <2>2. \A t : RowsOf(db, t) = {}
    BY <1>3 DEF RowsOf
  <2>3. \A t : {t} \X {} = {}
    OBVIOUS
  <2> QED
    BY <2>1, <2>2, <2>3 DEF RowsHeld
<1>16. LiveRight(db, {}, {}, 6)
  BY <1>11, <1>12, <1>13, <1>14, <1>15 DEF LiveRight
<1>17. SavedIs(db.log, saved)
  <2> SUFFICES ASSUME AllMade(db.log)
               PROVE  saved = Static(db.log)
    BY DEF SavedIs
  <2>1. db.live = Undeleted(db.log) /\ {} \cap Created(db.log) = {}
    BY <1>2, <1>3, <1>5
  <2>2. Contents(db, {}) = Static(db.log)
    BY <1>3, <1>11, <1>15, <2>1, ContentsAreStatic
  <2> QED
    BY <1>10, <2>2
<1> QED
  BY <1>2, <1>8, <1>10, <1>16, <1>17 DEF PInv

\* The process ends: what the last commit record committed stays.
LEMMA CrashRight ==
  ASSUME TInv, PInv, plain, Crash
  PROVE  PInv'
<1>1. PICK log : log = db.log
  OBVIOUS
<1>2. PICK log2 : log2 = db'.log
  OBVIOUS
<1>3. LogFits(log) /\ LogRight(log) /\ SavedIs(log, saved) /\ log \in Logs
  BY <1>1 DEF TInv, PInv, DbFits, LogFits
<1>4. DbFits(db') /\ CutOff(log, log2) /\ db'.live = {}
  BY <1>1, <1>2, CrashIs
<1>5. SameCommitted(log, log2) /\ Grown(log2, log) /\ Len(log2) \in Commits(log2)
  BY <1>3, <1>4, SameWhenCut
<1>6. log2 \in Logs /\ DOMAIN log2 = 1 .. Len(log2) /\ Len(log2) \in Nat
  BY <1>2, <1>4, LogIs DEF DbFits, LogFits
<1>7. /\ \A o \in DOMAIN log2 : log2[o] = log[o] /\ o \in DOMAIN log
  <2>1. PICK k \in Commits(log) : Len(log2) = k /\ \A o \in 1 .. k : o \in DOMAIN log /\ log2[o] = log[o]
    BY <1>4 DEF CutOff
  <2> QED
    BY <1>6, <2>1
<1>8. MadeWhole(log2)
  <2> SUFFICES ASSUME NEW o \in OfKind(log2, "tables"), Made(log2, o)
               PROVE  /\ o + 2 \in DOMAIN log2
                      /\ log2[o + 1].kind = "columns" /\ log2[o + 1].tbl = log2[o].tbl
                      /\ log2[o + 2].kind = "indexes" /\ log2[o + 2].tbl = log2[o].tbl
    BY DEF MadeWhole
  <2>1. o \in DOMAIN log2 /\ log2[o].kind = "tables" /\ o \in OfKind(log, "tables")
    BY <1>7 DEF OfKind
  <2>2. Made(log, o)
    BY <1>5, <1>6, <2>1, MadeStays
  <2>3. /\ o + 2 \in DOMAIN log
        /\ log[o + 1].kind = "columns" /\ log[o + 1].tbl = log[o].tbl
        /\ log[o + 2].kind = "indexes" /\ log[o + 2].tbl = log[o].tbl
    BY <1>3, <2>1, <2>2 DEF LogRight, MadeWhole
  <2>4. PICK n \in Nat : n = Len(log2) /\ n \in DOMAIN log2 /\ log2[n].kind = "commit"
    BY <1>5, <1>6 DEF Commits
  <2>5. log[n].kind = "commit"
    BY <1>7, <2>4
  <2>6. n # o /\ n # o + 1 /\ n # o + 2
    BY <2>1, <2>3, <2>4, <2>5
  <2>7. o \in Nat /\ 1 <= o /\ o <= n
    BY <1>6, <2>1, <2>4
  <2>8. o + 1 \in 1 .. n /\ o + 2 \in 1 .. n
    BY <2>4, <2>6, <2>7
  <2> QED
    BY <1>6, <1>7, <2>1, <2>3, <2>4, <2>8
<1>9. NoneHidden(log2)
  BY <1>3, <1>7 DEF LogRight, NoneHidden, OfKind
<1>10. LogRight(log2)
  BY <1>3, <1>5, <1>6, <1>8, <1>9, SameRight
<1>11. SavedIs(log2, saved)
  BY <1>3, <1>5, SameStatic DEF SavedIs
<1>12. saved' = saved /\ up' = FALSE /\ plain' = plain
  BY DEF Crash
<1> QED
  BY <1>2, <1>4, <1>5, <1>10, <1>11, <1>12 DEF PInv, Settled

-----------------------------------------------------------------------------
(* A rebuild *)

\* What a crash leaves can be rebuilt, if it is Plain.
LEMMA SettledIs ==
  ASSUME NEW log, LogFits(log), LogRight(log), Settled(log), Plain(log)
  PROVE  Restorable(log) /\ CreatedOnce(log) /\ Kept(log) = Undeleted(log)
<1>1. Len(log) \in Nat /\ DOMAIN log = 1 .. Len(log)
  BY LogIs DEF LogFits
<1>2. PICK n \in Nat : n = Len(log) /\ n \in Commits(log) /\ log[n].kind = "commit"
  BY <1>1 DEF Settled, Commits
<1>3. \A o \in Schema(log) : o \in 1 .. n /\ o # n
  BY <1>1, <1>2 DEF Schema, SchemaKinds
<1>4. \A o \in Schema(log) : o \in Before(log)
  <2>1. \A o \in Schema(log) : o < n
    BY <1>2, <1>3
  <2> QED
    BY <1>2, <2>1 DEF Before, Schema
<1>5. Kept(log) = Undeleted(log)
  BY <1>4 DEF Kept, Undeleted
<1>6. Consistent(log, Kept(log)) /\ MadeWhole(log) /\ NoneHidden(log) /\ CreatedOnce(log)
  BY <1>5 DEF LogRight
<1> QED
  BY <1>5, <1>6 DEF Restorable

\* The records that a rebuild enters for a table.
LEMMA HeldOfKept ==
  ASSUME NEW log, Restorable(log), CreatedLater(log), NEW n, n = Len(log),
         NEW o \in AmongOf(log, Kept(log), "tables")
  PROVE  HeldOfAt(log, n, log[o].tbl) = HeldOf(log, o, Created(log))
<1>1. /\ LogFits(log) /\ log \in Logs /\ TablesApart(log, Kept(log)) /\ Plain(log)
      /\ n \in Nat /\ DOMAIN log = 1 .. n
  BY LogIs DEF Restorable, LogFits, Consistent
<1>2. o \in DOMAIN log /\ log[o].kind = "tables" /\ log[o].tbl > TN_VIEWS
  BY <1>1 DEF AmongOf, Kept, Schema, TablesApart
<1>3. Made(log, o) /\ o \in OfKind(log, "tables")
  BY <1>1, <1>2 DEF Plain, OfKind
<1>4. \A q \in AmongOf(log, Kept(log), "tables") : log[q].tbl = log[o].tbl => q = o
  BY <1>1 DEF TablesApart
<1>5. ASSUME NEW p \in HeldOfAt(log, n, log[o].tbl)
      PROVE  p \in HeldOf(log, o, Created(log))
  <2>1. p \in DOMAIN log \ Deleted(log) /\ log[p].tbl = log[o].tbl
    BY <1>5 DEF HeldOfAt, HeldAt
  <2>2. PICK c \in Commits(log), q \in AmongOf(log, Kept(log), "tables") :
               c <= n /\ p \in log[c].creates /\ q < c /\ log[q].tbl = log[p].tbl
    BY <1>5 DEF HeldOfAt, HeldAt
  <2>3. q = o
    BY <1>4, <2>1, <2>2
  <2>4. o < p
    BY <1>3, <2>1, <2>2, <2>3 DEF CreatedLater
  <2>5. p \in Created(log)
    BY <2>2 DEF Created
  <2> QED
    BY <2>1, <2>4, <2>5 DEF HeldOf
<1>6. ASSUME NEW p \in HeldOf(log, o, Created(log))
      PROVE  p \in HeldOfAt(log, n, log[o].tbl)
  <2>1. p \in Created(log) /\ p \notin Deleted(log) /\ log[p].tbl = log[o].tbl /\ o < p
    BY <1>6 DEF HeldOf
  <2>2. PICK c \in Commits(log) : p \in log[c].creates
    BY <2>1 DEF Created
  <2>3. p \in 1 .. c - 1 /\ c \in 1 .. n
    BY <1>1, <2>2 DEF LogFits, Commits
  <2>4. o \in 1 .. n
    BY <1>1, <1>2
  <2>5. c <= n /\ p \in 1 .. n /\ o < c
    BY <1>1, <2>1, <2>3, <2>4
  <2>6. p \in HeldAt(log, n)
    BY <1>1, <2>1, <2>2, <2>5 DEF HeldAt
  <2> QED
    BY <2>1, <2>6 DEF HeldOfAt
<1> QED
  BY <1>5, <1>6 DEF HeldOfAt, HeldOf

\* A rebuild of what a crash left has copied all of it.
LEMMA RestoredIs ==
  ASSUME NEW log, LogFits(log), LogRight(log), Settled(log), Plain(log), NEW r, r = Replayed(log)
  PROVE  /\ r.failed = FALSE /\ r.alerts = FALSE /\ r.new.drops = {}
         /\ Restores(log, r, Len(log)) /\ DbFits(r.new) /\ r.new.live = Undeleted(log)
         /\ Grown(log, r.new.log) /\ NoCommits(log, r.new.log) /\ DOMAIN r.new.log = DOMAIN log
         /\ Settled(r.new.log)
<1>1. Restorable(log) /\ CreatedOnce(log) /\ Kept(log) = Undeleted(log)
  BY SettledIs
<1>2. Restores(log, r, Len(log))
  BY <1>1, PlainReplay
<1>3. RFits(r, log, Len(log))
  BY ReplayedFits
<1>4. DbFits(r.new)
  BY <1>3 DEF RFits, RCore
<1>5. Len(log) \in Nat /\ DOMAIN log = 1 .. Len(log) /\ log \in Logs
  BY LogIs DEF LogFits
<1>6. PICK n \in Nat : n = Len(log)
  BY <1>5
<1>7. /\ Len(r.new.log) = n /\ \A j \in 1 .. n : AlikeBlock(log[j], r.new.log[j])
      /\ r.new.live = KeptAt(log, n) /\ r.new.drops = {}
  BY <1>2, <1>6 DEF Restores, Copies
<1>8. r.new.log \in Logs /\ DOMAIN r.new.log = 1 .. n
  BY <1>4, <1>7, LogIs DEF DbFits, LogFits
<1>9. Grown(log, r.new.log)
  BY <1>5, <1>6, <1>7, <1>8 DEF Grown
<1>10. NoCommits(log, r.new.log)
  BY <1>5, <1>6, <1>8 DEF NoCommits
<1>11. r.new.live = Undeleted(log)
  <2>1. Kept(log) \subseteq 1 .. n
    BY <1>5, <1>6 DEF Kept, Schema
  <2> QED
    BY <1>1, <1>7, <2>1 DEF KeptAt
<1>12. Settled(r.new.log)
  <2>1. n \in DOMAIN log /\ log[n].kind = "commit"
    BY <1>6 DEF Settled, Commits
  <2>2. r.new.log[n].kind = "commit"
    BY <1>5, <1>6, <1>7, <2>1 DEF AlikeBlock
  <2> QED
    BY <1>5, <1>6, <1>7, <1>8, <2>1, <2>2 DEF Settled, Commits
<1> QED
  BY <1>2, <1>4, <1>5, <1>6, <1>7, <1>8, <1>9, <1>10, <1>11, <1>12 DEF Restores

\* The new database says of itself what is true of it, and what its file committed
\* is what the old one did.
LEMMA RestoredRight ==
  ASSUME NEW log, LogFits(log), LogRight(log), Settled(log), Plain(log), NEW r, r = Replayed(log),
         NEW d, d = r.new
  PROVE  /\ LogRight(d.log) /\ SameCommitted(log, d.log) /\ d.live = Undeleted(d.log)
         /\ \A s : SavedIs(log, s) => SavedIs(d.log, s)
         /\ LiveRight(d, {}, {}, r.top + 1)
<1>1. PICK n : n = Len(log)
  OBVIOUS
<1>2. /\ d.drops = {} /\ Restores(log, r, n) /\ DbFits(d) /\ d.live = Undeleted(log)
      /\ Grown(log, d.log) /\ NoCommits(log, d.log) /\ DOMAIN d.log = DOMAIN log
  BY <1>1, RestoredIs
<1>3. Restorable(log) /\ Kept(log) = Undeleted(log)
  BY SettledIs
<1>4. n \in Nat /\ DOMAIN log = 1 .. n /\ log \in Logs /\ d.log \in Logs
  BY <1>1, <1>2, LogIs DEF LogFits, Grown
<1>5. LogRight(d.log) /\ SameCommitted(log, d.log) /\ \A s : SavedIs(log, s) => SavedIs(d.log, s)
  BY <1>2, GrownRight
<1>6. /\ Undeleted(d.log) = Undeleted(log) /\ Deleted(d.log) = Deleted(log) /\ Created(d.log) = Created(log)
      /\ \A o \in Before(log) : Made(d.log, o) <=> Made(log, o)
  BY <1>5 DEF SameCommitted
<1>7. \A o \in DOMAIN log : AlikeBlock(log[o], d.log[o])
  BY <1>1, <1>2, <1>4 DEF Grown
<1>8. \A o \in DOMAIN log : /\ d.log[o].kind = log[o].kind
                            /\ log[o].kind # "tables" => d.log[o] = log[o]
                            /\ log[o].kind = "tables" => d.log[o].tbl = log[o].tbl
  BY <1>7 DEF AlikeBlock
<1>9. Live(d, "tables") = TablesAt(log, n) /\ TablesAt(log, n) = AmongOf(log, Kept(log), "tables")
  <2>1. Kept(log) \subseteq 1 .. n /\ Kept(log) \subseteq DOMAIN log
    BY <1>4 DEF Kept, Schema
  <2>2. KeptAt(log, n) = Kept(log)
    BY <2>1 DEF KeptAt
  <2> QED
    BY <1>2, <1>3, <1>8, <2>1, <2>2 DEF TablesAt, AmongOf, Live
<1>10. \A o \in Live(d, "tables") : /\ o \in DOMAIN log /\ log[o].kind = "tables" /\ o \in Before(log)
                                    /\ d.log[o].tbl = log[o].tbl /\ o \in AmongOf(log, Kept(log), "tables")
  <2>1. \A o \in Live(d, "tables") : o \in Kept(log) /\ log[o].kind = "tables" /\ o \in AmongOf(log, Kept(log), "tables")
    BY <1>9 DEF AmongOf
  <2>2. \A o \in Kept(log) : o \in DOMAIN log /\ o \in Before(log)
    BY <1>3 DEF Kept, Schema, Undeleted
  <2> QED
    BY <1>8, <2>1, <2>2
<1>11. d.rows = RowsAt(log, n)
       /\ \A o \in TablesAt(log, n) : d.log[o].nrows = Cardinality({x \in d.rows : x[1] = log[o].tbl})
  BY <1>2 DEF Restores, RowsAre
<1>12. HeldAt(log, n) \subseteq OfKind(log, "data")
  BY <1>3 DEF HeldAt, Restorable, LogFits
<1>13. \A p \in OfKind(log, "data") : p \in DOMAIN log /\ d.log[p] = log[p]
  BY <1>8 DEF OfKind
<1>14. LiveSchema(d)
  <2>1. Schema(d.log) = Schema(log)
    BY <1>2, <1>8 DEF Schema
  <2> QED
    BY <1>2, <1>3, <1>6, <2>1 DEF LiveSchema, Kept
<1>15. Consistent(d.log, d.live)
  BY <1>2, <1>5, <1>6 DEF LogRight
<1>16. Numbered(d, {}, {}, r.top + 1)
  <2>1. r.top \in Nat
    <3>1. RFits(r, log, n)
      BY <1>1, ReplayedFits
    <3> QED
      BY <3>1 DEF RFits, RCore
  <2>2. \A o \in TablesAt(log, n) : log[o].tbl <= r.top
    BY <1>2 DEF Restores, NamesAre
  <2>3. \A o \in Live(d, "tables") : log[o].tbl \in Nat
    BY <1>4, <1>10, TblIsNat
  <2>4. \A o \in Live(d, "tables") : log[o].tbl < r.top + 1
    BY <1>9, <2>1, <2>2, <2>3
  <2> QED
    BY <1>10, <2>4 DEF Numbered
<1>17. RowsHome(d, {}, {})
  <2>1. \A x \in RowsAt(log, n) : log[x[2]].tbl = x[1] /\ x[2] \in HeldAt(log, n)
    BY DEF RowsAt
  <2>2. \A x \in d.rows : d.log[x[2]].tbl = x[1]
    BY <1>11, <1>12, <1>13, <2>1
  <2> QED
    BY <2>2 DEF RowsHome
<1>18. CountsRight(d, {})
  <2>1. \A t : RowsLeft(d, {}, t) = {x \in d.rows : x[1] = t}
    BY DEF RowsLeft
  <2> QED
    BY <1>9, <1>10, <1>11, <2>1 DEF CountsRight
<1>19. FreshApart(d.log, {}) /\ FreshLater(d.log, {})
  BY DEF FreshApart, FreshLater
<1>20. RowsHeld(d, {})
  <2> SUFFICES ASSUME NEW o \in Live(d, "tables"), Made(d.log, o)
               PROVE  RowsOf(d, d.log[o].tbl) = {d.log[o].tbl} \X HeldOf(d.log, o, Created(d.log) \cup {})
    BY DEF RowsHeld
  <2>1. PICK t : t = log[o].tbl
    OBVIOUS
  <2>2. d.log[o].tbl = t
    BY <1>10, <2>1
  <2>3. CreatedLater(log) /\ o \in AmongOf(log, Kept(log), "tables")
    BY <1>10 DEF LogRight
  <2>4. HeldOfAt(log, n, t) = HeldOf(log, o, Created(log))
    BY <1>1, <1>3, <2>1, <2>3, HeldOfKept
  <2>5. Created(log) \subseteq OfKind(log, "data")
    BY <1>3 DEF Restorable, LogFits, Created
  <2>6. HeldOf(d.log, o, Created(d.log) \cup {}) = HeldOf(log, o, Created(log))
    BY <1>6, <1>13, <2>1, <2>2, <2>5 DEF HeldOf
  <2>7. \A p : p \in HeldAt(log, n) => (log[p].tbl = t <=> p \in HeldOfAt(log, n, t))
    BY DEF HeldOfAt
  <2>8. RowsOf(d, t) = {t} \X HeldOfAt(log, n, t)
    <3>1. \A x \in RowsOf(d, t) : x = <<t, x[2]>> /\ x[2] \in HeldOfAt(log, n, t)
      BY <1>11, <2>7 DEF RowsOf, RowsAt
    <3>2. \A p \in HeldOfAt(log, n, t) : <<t, p>> \in RowsOf(d, t)
      BY <1>11 DEF RowsOf, RowsAt, HeldOfAt
    <3> QED
      BY <3>1, <3>2
  <2> QED
    BY <2>2, <2>4, <2>6, <2>8
<1>21. LiveRight(d, {}, {}, r.top + 1)
  BY <1>14, <1>15, <1>16, <1>17, <1>18, <1>19, <1>20 DEF LiveRight
<1> QED
  BY <1>2, <1>5, <1>6, <1>21

LEMMA RebuildRight ==
  ASSUME TInv, PInv, plain, plain', Rebuild
  PROVE  PInv'
<1>1. ~ up /\ up' = TRUE /\ plain' = (plain /\ Plain(db.log)) /\ saved' = saved /\ fresh' = fresh /\ going' = going
  BY DEF Rebuild
<1>2. fresh' = {} /\ going' = {} /\ DbFits(db)
  BY <1>1 DEF TInv
<1>3. PICK log : log = db.log
  OBVIOUS
<1>4. LogFits(log) /\ LogRight(log) /\ Settled(log) /\ Plain(log) /\ SavedIs(log, saved)
  BY <1>1, <1>2, <1>3 DEF PInv, DbFits
<1>5. PICK r : r = Replayed(log)
  OBVIOUS
<1>6. r.new.drops = {}
  BY <1>4, <1>5, RestoredIs
<1>7. db' = r.new /\ nexttable' = r.top + 1
  BY <1>3, <1>5, <1>6, RebuildIs
<1>8. /\ LogRight(db'.log) /\ LiveRight(db', {}, {}, r.top + 1)
      /\ \A s : SavedIs(log, s) => SavedIs(db'.log, s)
  BY <1>4, <1>5, <1>7, RestoredRight
<1>9. SavedIs(db'.log, saved')
  BY <1>1, <1>4, <1>8
<1> QED
  BY <1>1, <1>2, <1>7, <1>8, <1>9 DEF PInv

-----------------------------------------------------------------------------
(* What is said of the database stays true *)

LEMMA NextRight == TInv /\ PInv /\ [Next]_vars => PInv'
<1> SUFFICES ASSUME TInv, PInv, [Next]_vars, plain'
             PROVE  PInv'
  BY DEF PInv
<1>1. CASE SchemaRequest
  <2>1. plain' = plain
    <3>1. \A name, col : CreateTable(name, col) \/ CreateTableFails(name) => plain' = plain
      BY DEF CreateTable, CreateTableFails
    <3>2. \A t, name : DropTable(t) \/ RenameTable(t, name) => plain' = plain
      BY DEF DropTable, RenameTable
    <3>3. \A t, col : AddColumn(t, col) \/ RemoveColumn(t, col) => plain' = plain
      BY DEF AddColumn, RemoveColumn
    <3>4. \A t, col : AddIndex(t, col) \/ RemoveIndex(t, col) => plain' = plain
      BY DEF AddIndex, RemoveIndex
    <3>5. \A t, col, new : RenameColumn(t, col, new) => plain' = plain
      BY DEF RenameColumn
    <3> QED
      BY <1>1, <3>1, <3>2, <3>3, <3>4, <3>5 DEF SchemaRequest
  <2> QED
    BY <1>1, <2>1, SchemaRequestRight
<1>2. CASE DataRequest
  <2>1. plain' = plain
    BY <1>2 DEF DataRequest, AddRecord, RemoveRecord, Commit, Abort
  <2> QED
    BY <1>2, <2>1, DataRequestRight
<1>3. CASE Restart
  <2>1. plain' = plain
    BY <1>3 DEF Restart
  <2> QED
    BY <1>3, <2>1, RestartRight
<1>4. CASE Crash
  <2>1. plain' = plain
    BY <1>4 DEF Crash
  <2> QED
    BY <1>4, <2>1, CrashRight
<1>5. CASE Rebuild
  <2>1. plain
    BY <1>5 DEF Rebuild
  <2> QED
    BY <1>5, <2>1, RebuildRight
<1>6. CASE UNCHANGED vars
  <2>1. /\ db' = db /\ nexttable' = nexttable /\ fresh' = fresh /\ going' = going
        /\ up' = up /\ saved' = saved /\ plain' = plain
    BY <1>6 DEF vars
  <2> QED
    BY <2>1 DEF PInv
<1> QED
  BY <1>1, <1>2, <1>3, <1>4, <1>5, <1>6 DEF Next

LEMMA RebuildPInv == Spec => []PInv
<1>1. TInv /\ PInv /\ [Next]_vars => PInv'
  BY NextRight
<1>2. Spec => []TInv
  BY RebuildTInv
<1> QED
  BY <1>1, <1>2, InitRight, PTL DEF Spec

\* What the record of a table says of it stays true, through schema requests of
\* database.cpp, transactions, crashes and the rebuilds of recover.cpp, while the
\* rebuilt files are Plain: the number of its records, without those that active
\* transactions removed, and fields of its columns that are apart and below the
\* next field.
THEOREM RebuildRecordsTrue == Spec => []SchemaRecordsTrue
<1>1. TInv /\ PInv => SchemaRecordsTrue
  <2> SUFFICES ASSUME TInv, PInv, plain, NEW o \in Live(db, "tables"), NEW t, t = db.log[o].tbl,
                      NEW columns, columns = LiveOf(db, "columns", t)
               PROVE  /\ db.log[o].nrows = Cardinality({r \in db.rows : r[1] = t /\ r[2] \notin going})
                      /\ \A c1 \in columns :
                           /\ db.log[c1].field < db.log[o].nextfield
                           /\ \A c2 \in columns \ {c1} : db.log[c2].field # db.log[c1].field
    BY DEF SchemaRecordsTrue
  <2>1. up
    BY DEF PInv, Live
  <2>2. LiveRight(db, fresh, going, nexttable)
    BY <2>1 DEF PInv
  <2>3. CountsRight(db, going) /\ TablesApart(db.log, db.live) /\ ColumnsHome(db.log, db.live)
        /\ ColumnsApart(db.log, db.live)
    BY <2>2 DEF LiveRight, Consistent
  <2>4. db.log[o].nrows = Cardinality({r \in db.rows : r[1] = t /\ r[2] \notin going})
    BY <2>3 DEF CountsRight, RowsLeft
  <2>5. /\ columns = {c \in AmongOf(db.log, db.live, "columns") : db.log[c].tbl = t}
        /\ o \in AmongOf(db.log, db.live, "tables")
    BY LiveIs
  <2>6. \A c \in columns : db.log[c].field < db.log[o].nextfield
    BY <2>3, <2>5 DEF ColumnsHome, TablesApart
  <2>7. \A c1 \in columns : \A c2 \in columns \ {c1} : db.log[c2].field # db.log[c1].field
    BY <2>3, <2>5 DEF ColumnsApart
  <2> QED
    BY <2>4, <2>6, <2>7
<1> QED
  BY <1>1, RebuildTInv, RebuildPInv, PTL

\* rebuild_copy of recover.cpp gets through every Plain file that a crash leaves,
\* and ignores nothing in it, neither a table whose number or name is in use nor a
\* record whose table it does not know.
THEOREM RebuildNothingIgnored == Spec => []RebuildIgnoresNothing
<1>1. TInv /\ PInv => RebuildIgnoresNothing
  <2> SUFFICES ASSUME TInv, PInv, plain, ~ up, Plain(db.log), NEW r, r = Replayed(db.log)
               PROVE  ~ r.failed /\ ~ r.alerts
    BY DEF RebuildIgnoresNothing
  <2>1. LogFits(db.log) /\ LogRight(db.log) /\ Settled(db.log)
    BY DEF PInv, TInv, DbFits
  <2>2. r.failed = FALSE /\ r.alerts = FALSE
    BY <2>1, RestoredIs
  <2> QED
    BY <2>2
<1> QED
  BY <1>1, RebuildTInv, RebuildPInv, PTL

\* A rebuild counts itself, and nothing else does.
LEMMA OnlyRebuilds == [Next]_vars /\ rebuilds' # rebuilds => Rebuild
<1>1. \A name, col : CreateTable(name, col) \/ CreateTableFails(name) => rebuilds' = rebuilds
  BY DEF CreateTable, CreateTableFails
<1>2. \A t, name : DropTable(t) \/ RenameTable(t, name) => rebuilds' = rebuilds
  BY DEF DropTable, RenameTable
<1>3. \A t, col : AddColumn(t, col) \/ RemoveColumn(t, col) => rebuilds' = rebuilds
  BY DEF AddColumn, RemoveColumn
<1>4. \A t, col : AddIndex(t, col) \/ RemoveIndex(t, col) => rebuilds' = rebuilds
  BY DEF AddIndex, RemoveIndex
<1>5. \A t, col, new : RenameColumn(t, col, new) => rebuilds' = rebuilds
  BY DEF RenameColumn
<1>6. SchemaRequest => rebuilds' = rebuilds
  BY <1>1, <1>2, <1>3, <1>4, <1>5 DEF SchemaRequest
<1>7. DataRequest => rebuilds' = rebuilds
  BY DEF DataRequest, AddRecord, RemoveRecord, Commit, Abort
<1>8. Restart \/ Crash \/ UNCHANGED vars => rebuilds' = rebuilds
  BY DEF Restart, Crash, vars
<1> QED
  BY <1>6, <1>7, <1>8 DEF Next

\* What Plain says, AllMade says of the records before the last commit.
LEMMA PlainAllMade ==
  ASSUME NEW log, Plain(log)
  PROVE  AllMade(log)
BY DEF Plain, AllMade, Before

\* rebuild_copy of recover.cpp, of a Plain file that a crash leaves, restores what
\* the last commit record committed, as were those rebuilt before: the tables with their names,
\* columns, fields and indexes, and the records in them.
THEOREM RebuildRestored == Spec => RebuildRestores
<1>1. TInv /\ PInv /\ [Next]_vars =>
        [rebuilds' # rebuilds /\ plain /\ Plain(db.log) => Contents(db', {}) = saved]_vars
  <2> SUFFICES ASSUME TInv, PInv, [Next]_vars, rebuilds' # rebuilds, plain, Plain(db.log)
               PROVE  Contents(db', {}) = saved
    OBVIOUS
  <2>1. Rebuild
    BY OnlyRebuilds
  <2>2. ~ up
    BY <2>1 DEF Rebuild
  <2>3. PICK log : log = db.log
    OBVIOUS
  <2>4. LogFits(log) /\ LogRight(log) /\ Settled(log) /\ Plain(log) /\ SavedIs(log, saved)
    BY <2>2, <2>3 DEF PInv, TInv, DbFits
  <2>5. PICK r : r = Replayed(log)
    OBVIOUS
  <2>6. r.new.drops = {} /\ DbFits(r.new)
    BY <2>4, <2>5, RestoredIs
  <2>7. db' = r.new
    BY <2>1, <2>3, <2>5, <2>6, RebuildIs
  <2>8. /\ SameCommitted(log, db'.log) /\ db'.live = Undeleted(db'.log)
        /\ LiveRight(db', {}, {}, r.top + 1)
    BY <2>4, <2>5, <2>7, RestoredRight
  <2>9. AllMade(log)
    BY <2>4, PlainAllMade
  <2>10. Static(db'.log) = Static(log) /\ AllMade(db'.log)
    BY <2>4, <2>8, <2>9, SameStatic
  <2>11. Consistent(db'.log, db'.live) /\ RowsHeld(db', {}) /\ {} \cap Created(db'.log) = {} /\ DbFits(db')
    BY <2>6, <2>7, <2>8 DEF LiveRight
  <2>12. Contents(db', {}) = Static(db'.log)
    BY <2>8, <2>10, <2>11, ContentsAreStatic
  <2>13. saved = Static(log)
    BY <2>4, <2>9 DEF SavedIs
  <2> QED
    BY <2>10, <2>12, <2>13
<1> QED
  BY <1>1, RebuildTInv, RebuildPInv, PTL DEF Spec, RebuildRestores
=============================================================================
