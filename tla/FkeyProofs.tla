----------------------------- MODULE FkeyProofs -----------------------------
(***************************************************************************)
(* Proofs about Fkey, for any number of clients, keys, versions and        *)
(* statements: keys stay unique, and references hold, with cascades and    *)
(* triggers inside concurrent transactions.                                *)
(***************************************************************************)
EXTENDS Fkey, SequenceTheorems, WellFoundedInduction, TLAPS

-----------------------------------------------------------------------------
(* The inductive invariant.  Its parts take the committed versions d, the   *)
(* file f and a transaction t as arguments, since a statement hands these   *)
(* from one operator to the next.                                           *)

Indexes == {"id", "name", "no", "pid"}
Values == Ids \cup Names \cup Nos \cup {EMPTY}
TxnType ==
  [view : SUBSET Nat, creates : SUBSET Nat, deletes : SUBSET Nat,
   reads : SUBSET (Indexes \X Values),
   since : SUBSET Nat, conflict : BOOLEAN]

\* A transaction has read the keys of what it created.
KeysRead(f, t) ==
  \A o \in t.creates, k \in {"id", "name", "no"} :
    k \in IndexesOf(f[o]) => <<k, f[o][k]>> \in t.reads

\* What t sees is what was committed when it started, and its own acts.
ViewFits(d, t) ==
  /\ t.view \subseteq d \cup t.since \cup t.creates
  /\ (d \ t.since) \ t.deletes \subseteq t.view
  /\ t.creates \ t.deletes \subseteq t.view
  /\ t.view \cap t.deletes = {}
  /\ t.deletes \subseteq d \cup t.creates
  /\ t.creates \cap d = {}

Own(d, f, t) ==
  /\ t.view \cup t.since \subseteq DOMAIN f
  /\ t.creates \cup t.deletes \subseteq DOMAIN f
  /\ ViewFits(d, t)
  /\ UniqueIn(f, t.view)
  /\ KeysRead(f, t)

\* Other transactions have neither created nor deleted what t has.
Apart(c, t) ==
  \A u \in DOMAIN txn \ {c} : /\ t.creates \cap txn[u].creates = {}
                              /\ t.deletes \cap txn[u].deletes = {}

ParentAt(f, o, v) == f[o].tbl = "parents" /\ f[o].id = v
LineAt(f, o, v) == f[o].tbl = "lines" /\ f[o].pid = v

HasParent(f, t, v) == /\ <<"id", v>> \in t.reads
                      /\ \E p \in t.view : ParentAt(f, p, v)
HasNoLines(f, t, v) == /\ <<"pid", v>> \in t.reads
                       /\ \A o \in t.view : ~ LineAt(f, o, v)
DeletedLine(d, f, t, v) == \E q \in t.deletes \cap d : LineAt(f, q, v)

\* A line that t creates with pid v has a parent, for t has seen one or a line
\* that had one; a parent that t deletes is replaced, or has no lines, for t
\* has looked for them.
Refers(d, f, t, v) ==
  /\ (\E o \in t.creates \ t.deletes : LineAt(f, o, v)) =>
       HasParent(f, t, v) \/ DeletedLine(d, f, t, v)
  /\ (\E p \in t.deletes : ParentAt(f, p, v)) =>
       HasParent(f, t, v) \/ HasNoLines(f, t, v)

Firm(d, f, v) ==
  (\E o \in d : LineAt(f, o, v)) => \E p \in d : ParentAt(f, p, v)

\* the ids for which one of the known gaps was met
Exempt == {v \in Ids : \E why \in {"failure", "trigger", "index"} : <<v, why>> \in loose}

FInv ==
  /\ TypeOK
  /\ UniqueIn(file, db)
  /\ \A c \in DOMAIN txn : /\ txn[c] \in TxnType
                           /\ Own(db, file, txn[c])
                           /\ Apart(c, txn[c])
  /\ fkey => \A v \in Ids \ Exempt :
               /\ Firm(db, file, v)
               /\ \A c \in DOMAIN txn : Refers(db, file, txn[c], v)

-----------------------------------------------------------------------------
(* Inside a statement of client c *)

States == [file : Seq(Records), t : TxnType, failed : BOOLEAN]

Base(c, s) ==
  /\ s \in States
  /\ Len(file) <= Len(s.file)
  /\ \A i \in DOMAIN file : s.file[i] = file[i]
  /\ Own(db, s.file, s.t)
  /\ Apart(c, s.t)

Good(c, s, ex) ==
  /\ Base(c, s)
  /\ fkey => \A v \in Ids \ ex : Refers(db, s.file, s.t, v)

\* x is s, but for more reads and an exception.
Alike(s, x) ==
  /\ x \in States
  /\ x.file = s.file
  /\ x.t.view = s.t.view /\ x.t.since = s.t.since
  /\ x.t.creates = s.t.creates /\ x.t.deletes = s.t.deletes
  /\ s.t.reads \subseteq x.t.reads

DroppedIn(c, s, o, x) ==
  /\ x \in States
  /\ x.file = s.file
  /\ x.t.view = s.t.view \ {o} /\ x.t.since = s.t.since
  /\ x.t.creates = s.t.creates /\ x.t.deletes = s.t.deletes \cup {o}
  /\ s.t.reads \subseteq x.t.reads
  /\ ~ Taken(c, o, s)

\* The keys of r are not those of a version in view.
NewIn(s, r, reads) ==
  \A k \in {"id", "name", "no"} : k \in IndexesOf(r) =>
    /\ <<k, r[k]>> \in reads
    /\ \A p \in s.t.view : k \in IndexesOf(s.file[p]) => s.file[p][k] # r[k]

PutIn(s, r, x) ==
  /\ x \in States
  /\ x.file = Append(s.file, r)
  /\ x.t.view = s.t.view \cup {Len(s.file) + 1} /\ x.t.since = s.t.since
  /\ x.t.creates = s.t.creates \cup {Len(s.file) + 1}
  /\ x.t.deletes = s.t.deletes
  /\ s.t.reads \subseteq x.t.reads
  /\ NewIn(s, r, x.t.reads)

\* A line with pid v may be created.
MayRefer(d, f, t, v) ==
  /\ HasParent(f, t, v) \/ DeletedLine(d, f, t, v)
  /\ (\E p \in t.deletes : ParentAt(f, p, v)) => HasParent(f, t, v)

LEMMA StateTypes ==
  ASSUME NEW s \in States
  PROVE  /\ s.file \in Seq(Records) /\ s.t \in TxnType /\ s.failed \in BOOLEAN
         /\ Len(s.file) \in Nat
         /\ DOMAIN s.file = 1 .. Len(s.file)
         /\ \A i \in 1 .. Len(s.file) : s.file[i] \in Records
<1>1. s.file \in Seq(Records) /\ s.t \in TxnType /\ s.failed \in BOOLEAN
  BY DEF States
<1> QED
  BY <1>1, LenProperties, ElementOfSeq

LEMMA AppendRecord ==
  ASSUME NEW f \in Seq(Records), NEW r \in Records
  PROVE  /\ Append(f, r) \in Seq(Records)
         /\ Len(f) \in Nat
         /\ Len(Append(f, r)) = Len(f) + 1
         /\ DOMAIN f = 1 .. Len(f)
         /\ DOMAIN Append(f, r) = 1 .. Len(f) + 1
         /\ \A i \in 1 .. Len(f) : Append(f, r)[i] = f[i]
         /\ Append(f, r)[Len(f) + 1] = r
<1>1. Append(f, r) \in Seq(Records)
  OBVIOUS
<1>2. Len(Append(f, r)) = Len(f) + 1 /\ Len(f) \in Nat
  OBVIOUS
<1>3. DOMAIN f = 1 .. Len(f) /\ DOMAIN Append(f, r) = 1 .. Len(f) + 1
  BY <1>1, <1>2, LenProperties
<1>4. \A i \in 1 .. Len(f) : Append(f, r)[i] = f[i]
  OBVIOUS
<1>5. Append(f, r)[Len(f) + 1] = r
  OBVIOUS
<1> QED
  BY <1>1, <1>2, <1>3, <1>4, <1>5

LEMMA AlikeGood ==
  ASSUME NEW c, NEW s, NEW x, NEW ex, Good(c, s, ex), Alike(s, x)
  PROVE  Good(c, x, ex)
<1>1. Own(db, x.file, x.t)
  BY DEF Good, Base, Alike, Own, ViewFits, KeysRead
<1>2. Base(c, x)
  BY <1>1 DEF Good, Base, Alike, Apart
<1>3. ASSUME NEW v, Refers(db, s.file, s.t, v) PROVE Refers(db, x.file, x.t, v)
  BY <1>3 DEF Alike, Refers, HasParent, HasNoLines, DeletedLine
<1> QED
  BY <1>2, <1>3 DEF Good

-----------------------------------------------------------------------------
(* What the two elementary edits keep: a version is dropped, a version put  *)

LEMMA DropBase ==
  ASSUME NEW c \in DOMAIN txn, NEW s, NEW x, NEW o \in s.t.view,
         Base(c, s), DroppedIn(c, s, o, x)
  PROVE  Base(c, x)
<1>1. o \in db \cup s.t.creates /\ \A u \in DOMAIN txn \ {c} : o \notin txn[u].deletes
  BY DEF DroppedIn, Taken
<1>2. ViewFits(db, x.t)
  BY <1>1 DEF Base, DroppedIn, Own, ViewFits
<1>3. UniqueIn(x.file, x.t.view)
  BY DEF Base, DroppedIn, Own, UniqueIn
<1>4. KeysRead(x.file, x.t)
  BY DEF Base, DroppedIn, Own, KeysRead
<1>5. Own(db, x.file, x.t)
  BY <1>2, <1>3, <1>4 DEF Base, DroppedIn, Own
<1>6. Apart(c, x.t)
  BY <1>1 DEF Base, DroppedIn, Apart
<1> QED
  BY <1>5, <1>6 DEF Base, DroppedIn

LEMMA PutBase ==
  ASSUME FInv, NEW c \in DOMAIN txn, NEW s, NEW x, NEW r \in Records,
         Base(c, s), PutIn(s, r, x)
  PROVE  Base(c, x)
<1> DEFINE off == Len(s.file) + 1
<1>1. /\ s \in States /\ x \in States
      /\ s.file \in Seq(Records)
      /\ Len(s.file) \in Nat
      /\ DOMAIN s.file = 1 .. Len(s.file)
  BY StateTypes DEF Base, PutIn
<1>2. /\ DOMAIN x.file = 1 .. Len(s.file) + 1
      /\ Len(x.file) = Len(s.file) + 1
      /\ \A i \in 1 .. Len(s.file) : x.file[i] = s.file[i]
      /\ x.file[off] = r
  BY <1>1, AppendRecord DEF PutIn
<1>3. off \notin DOMAIN s.file /\ off \in DOMAIN x.file /\ DOMAIN s.file \subseteq DOMAIN x.file
  BY <1>1, <1>2
<1>4. Len(file) \in Nat /\ DOMAIN file = 1 .. Len(file) /\ DOMAIN file \subseteq DOMAIN s.file
  BY <1>1, LenProperties DEF FInv, TypeOK, Base
<1>5. off \notin db
  BY <1>3, <1>4 DEF FInv, TypeOK
<1>6. ASSUME NEW u \in DOMAIN txn PROVE off \notin txn[u].creates
  BY <1>3, <1>4 DEF FInv, Own
<1>7. \A i \in DOMAIN s.file : x.file[i] = s.file[i]
  BY <1>1, <1>2
<1>8. /\ s.t.view \subseteq DOMAIN s.file /\ s.t.creates \subseteq DOMAIN s.file
      /\ s.t.deletes \subseteq DOMAIN s.file /\ s.t.since \subseteq DOMAIN s.file
  BY DEF Base, Own
<1>9. /\ x.t.view = s.t.view \cup {off} /\ x.t.creates = s.t.creates \cup {off}
      /\ x.t.deletes = s.t.deletes /\ x.t.since = s.t.since
      /\ s.t.reads \subseteq x.t.reads
  BY DEF PutIn
<1> HIDE DEF off
<1>10. ViewFits(db, x.t)
  BY <1>3, <1>5, <1>8, <1>9 DEF Base, Own, ViewFits
<1>11. UniqueIn(x.file, x.t.view)
  <2> SUFFICES ASSUME NEW o \in x.t.view, NEW p \in x.t.view, o # p,
                      NEW i \in {"id", "name", "no"},
                      i \in IndexesOf(x.file[o]) \cap IndexesOf(x.file[p])
               PROVE  x.file[o][i] # x.file[p][i]
    BY DEF UniqueIn
  <2>1. CASE o = off
    <3>1. p \in s.t.view /\ x.file[p] = s.file[p]
      BY <2>1, <1>7, <1>8, <1>9
    <3> QED
      BY <2>1, <3>1, <1>2 DEF PutIn, NewIn
  <2>2. CASE p = off
    <3>1. o \in s.t.view /\ x.file[o] = s.file[o]
      BY <2>2, <1>7, <1>8, <1>9
    <3> QED
      BY <2>2, <3>1, <1>2 DEF PutIn, NewIn
  <2>3. CASE o # off /\ p # off
    <3>1. o \in s.t.view /\ p \in s.t.view
          /\ x.file[o] = s.file[o] /\ x.file[p] = s.file[p]
      BY <2>3, <1>7, <1>8, <1>9
    <3> QED
      BY <3>1 DEF Base, Own, UniqueIn
  <2> QED
    BY <2>1, <2>2, <2>3
<1>12. KeysRead(x.file, x.t)
  <2> SUFFICES ASSUME NEW o \in x.t.creates, NEW k \in {"id", "name", "no"},
                      k \in IndexesOf(x.file[o])
               PROVE  <<k, x.file[o][k]>> \in x.t.reads
    BY DEF KeysRead
  <2>1. CASE o = off
    BY <2>1, <1>2 DEF PutIn, NewIn
  <2>2. CASE o # off
    <3>1. o \in s.t.creates /\ x.file[o] = s.file[o]
      BY <2>2, <1>7, <1>8, <1>9
    <3> QED
      BY <3>1, <1>9 DEF Base, Own, KeysRead
  <2> QED
    BY <2>1, <2>2
<1>13. Own(db, x.file, x.t)
  BY <1>3, <1>8, <1>9, <1>10, <1>11, <1>12 DEF Own
<1>14. Apart(c, x.t)
  BY <1>6, <1>9 DEF Base, Apart
<1>15. Len(file) <= Len(x.file) /\ \A i \in DOMAIN file : x.file[i] = file[i]
  BY <1>1, <1>2, <1>4, <1>7 DEF Base
<1> QED
  BY <1>1, <1>13, <1>14, <1>15 DEF Base

LEMMA DropLineRefers ==
  ASSUME NEW c, NEW s, NEW x, NEW o \in s.t.view, NEW v,
         Base(c, s), DroppedIn(c, s, o, x), s.file[o].tbl = "lines",
         Refers(db, s.file, s.t, v)
  PROVE  /\ Refers(db, x.file, x.t, v)
         /\ LineAt(s.file, o, v) => MayRefer(db, x.file, x.t, v)
<1>1. o \notin s.t.deletes /\ (o \in db \/ o \in s.t.creates)
  BY DEF Base, Own, ViewFits, DroppedIn, Taken
<1>2. ~ ParentAt(s.file, o, v)
  BY DEF ParentAt
<1>3. HasParent(s.file, s.t, v) => HasParent(x.file, x.t, v)
  BY <1>2 DEF HasParent, DroppedIn
<1>4. HasNoLines(s.file, s.t, v) => HasNoLines(x.file, x.t, v)
  BY DEF HasNoLines, DroppedIn
<1>5. DeletedLine(db, s.file, s.t, v) => DeletedLine(db, x.file, x.t, v)
  BY DEF DeletedLine, DroppedIn
<1>6. (\E p \in x.t.deletes : ParentAt(x.file, p, v)) =>
        \E p \in s.t.deletes : ParentAt(s.file, p, v)
  BY <1>2 DEF DroppedIn
<1>7. (\E p \in x.t.creates \ x.t.deletes : LineAt(x.file, p, v)) =>
        \E p \in s.t.creates \ s.t.deletes : LineAt(s.file, p, v)
  BY DEF DroppedIn
<1>8. Refers(db, x.file, x.t, v)
  BY <1>3, <1>4, <1>5, <1>6, <1>7 DEF Refers
<1>9. ASSUME LineAt(s.file, o, v) PROVE MayRefer(db, x.file, x.t, v)
  <2>1. ~ HasNoLines(s.file, s.t, v)
    BY <1>9 DEF HasNoLines
  <2>2. HasParent(s.file, s.t, v) \/ DeletedLine(db, x.file, x.t, v)
    <3>1. CASE o \in db
      BY <3>1, <1>9 DEF DeletedLine, DroppedIn
    <3>2. CASE o \in s.t.creates
      BY <3>2, <1>1, <1>5, <1>9 DEF Refers
    <3> QED
      BY <1>1, <3>1, <3>2
  <2> QED
    BY <2>1, <2>2, <1>3, <1>6 DEF MayRefer, Refers
<1> QED
  BY <1>8, <1>9

LEMMA DropParentRefers ==
  ASSUME NEW c, NEW s, NEW x, NEW o \in s.t.view, NEW v,
         Base(c, s), DroppedIn(c, s, o, x), s.file[o].tbl = "parents",
         ParentAt(s.file, o, v) => HasNoLines(s.file, s.t, v),
         Refers(db, s.file, s.t, v)
  PROVE  Refers(db, x.file, x.t, v)
<1>1. HasNoLines(s.file, s.t, v) => HasNoLines(x.file, x.t, v)
  BY DEF HasNoLines, DroppedIn
<1>2. DeletedLine(db, s.file, s.t, v) => DeletedLine(db, x.file, x.t, v)
  BY DEF DeletedLine, DroppedIn
<1>3. (\E p \in x.t.creates \ x.t.deletes : LineAt(x.file, p, v)) =>
        /\ \E p \in s.t.creates \ s.t.deletes : LineAt(s.file, p, v)
        /\ ~ HasNoLines(s.file, s.t, v)
  BY DEF DroppedIn, HasNoLines, Base, Own, ViewFits
<1>4. CASE ParentAt(s.file, o, v)
  BY <1>1, <1>3, <1>4 DEF Refers
<1>5. CASE ~ ParentAt(s.file, o, v)
  <2>1. HasParent(s.file, s.t, v) => HasParent(x.file, x.t, v)
    BY <1>5 DEF HasParent, DroppedIn
  <2>2. (\E p \in x.t.deletes : ParentAt(x.file, p, v)) =>
          \E p \in s.t.deletes : ParentAt(s.file, p, v)
    BY <1>5 DEF DroppedIn
  <2> QED
    BY <2>1, <2>2, <1>1, <1>2, <1>3 DEF Refers
<1> QED
  BY <1>4, <1>5

\* What is known of the versions before a put is known after it.
LEMMA PutSees ==
  ASSUME NEW c, NEW s, NEW x, NEW r \in Records, NEW v, Base(c, s), PutIn(s, r, x)
  PROVE  /\ HasParent(s.file, s.t, v) => HasParent(x.file, x.t, v)
         /\ HasNoLines(s.file, s.t, v) /\ ~ (r.tbl = "lines" /\ r.pid = v) =>
              HasNoLines(x.file, x.t, v)
         /\ DeletedLine(db, s.file, s.t, v) => DeletedLine(db, x.file, x.t, v)
         /\ (\E p \in x.t.deletes : ParentAt(x.file, p, v)) =>
              \E p \in s.t.deletes : ParentAt(s.file, p, v)
         /\ (\E o \in x.t.creates \ x.t.deletes : LineAt(x.file, o, v)) =>
              \/ \E o \in s.t.creates \ s.t.deletes : LineAt(s.file, o, v)
              \/ r.tbl = "lines" /\ r.pid = v
<1> DEFINE off == Len(s.file) + 1
<1>1. s \in States /\ s.file \in Seq(Records)
  BY StateTypes DEF Base
<1>2. DOMAIN s.file = 1 .. Len(s.file)
      /\ (\A i \in DOMAIN s.file : x.file[i] = s.file[i])
      /\ x.file[off] = r
  BY <1>1, AppendRecord DEF PutIn
<1>3. /\ s.t.view \subseteq DOMAIN s.file /\ s.t.creates \subseteq DOMAIN s.file
      /\ s.t.deletes \subseteq DOMAIN s.file
  BY DEF Base, Own
<1>4. /\ x.t.view = s.t.view \cup {off} /\ x.t.creates = s.t.creates \cup {off}
      /\ x.t.deletes = s.t.deletes /\ s.t.reads \subseteq x.t.reads
  BY DEF PutIn
<1> HIDE DEF off
<1>5. ASSUME NEW o \in DOMAIN s.file
      PROVE  /\ ParentAt(x.file, o, v) <=> ParentAt(s.file, o, v)
             /\ LineAt(x.file, o, v) <=> LineAt(s.file, o, v)
  BY <1>2 DEF ParentAt, LineAt
<1>6. LineAt(x.file, off, v) <=> r.tbl = "lines" /\ r.pid = v
  BY <1>2 DEF LineAt
<1>7. HasParent(s.file, s.t, v) => HasParent(x.file, x.t, v)
  BY <1>3, <1>4, <1>5 DEF HasParent
<1>8. HasNoLines(s.file, s.t, v) /\ ~ (r.tbl = "lines" /\ r.pid = v) =>
        HasNoLines(x.file, x.t, v)
  BY <1>3, <1>4, <1>5, <1>6 DEF HasNoLines
<1>9. DeletedLine(db, s.file, s.t, v) => DeletedLine(db, x.file, x.t, v)
  BY <1>3, <1>4, <1>5 DEF DeletedLine
<1>10. (\E p \in x.t.deletes : ParentAt(x.file, p, v)) =>
         \E p \in s.t.deletes : ParentAt(s.file, p, v)
  BY <1>3, <1>4, <1>5
<1>11. (\E o \in x.t.creates \ x.t.deletes : LineAt(x.file, o, v)) =>
         \/ \E o \in s.t.creates \ s.t.deletes : LineAt(s.file, o, v)
         \/ r.tbl = "lines" /\ r.pid = v
  BY <1>3, <1>4, <1>5, <1>6
<1> QED
  BY <1>7, <1>8, <1>9, <1>10, <1>11

LEMMA PutLineRefers ==
  ASSUME NEW c, NEW s, NEW x, NEW r \in Records, NEW v, Base(c, s), PutIn(s, r, x),
         r.tbl = "lines" /\ r.pid = v => MayRefer(db, s.file, s.t, v),
         Refers(db, s.file, s.t, v)
  PROVE  Refers(db, x.file, x.t, v)
BY PutSees DEF Refers, MayRefer

LEMMA PutParentRefers ==
  ASSUME NEW c, NEW s, NEW x, NEW r \in Records, NEW v, Base(c, s), PutIn(s, r, x),
         r.tbl = "parents"
  PROVE  /\ Refers(db, s.file, s.t, v) => Refers(db, x.file, x.t, v)
         /\ r.id = v => Refers(db, x.file, x.t, v) /\ HasParent(x.file, x.t, v)
<1>1. Refers(db, s.file, s.t, v) => Refers(db, x.file, x.t, v)
  BY PutSees DEF Refers
<1>2. ASSUME r.id = v PROVE HasParent(x.file, x.t, v)
  <2>1. s \in States /\ s.file \in Seq(Records)
    BY StateTypes DEF Base
  <2>2. x.file[Len(s.file) + 1] = r /\ Len(s.file) + 1 \in x.t.view
    BY <2>1, AppendRecord DEF PutIn
  <2>3. "id" \in IndexesOf(r)
    BY DEF IndexesOf, Records
  <2>4. <<"id", v>> \in x.t.reads
    BY <2>3, <1>2 DEF PutIn, NewIn
  <2> QED
    BY <2>2, <2>4, <1>2 DEF HasParent, ParentAt
<1> QED
  BY <1>1, <1>2 DEF Refers

-----------------------------------------------------------------------------
(* The operators of a statement, one after the other                        *)

LEMMA ReadingIs ==
  ASSUME NEW s \in States, NEW idx \in Indexes, NEW v \in Values
  PROVE  /\ Alike(s, Reading(s, idx, v))
         /\ <<idx, v>> \in Reading(s, idx, v).t.reads
         /\ Reading(s, idx, v).failed = s.failed
         /\ Reading(s, idx, v) \in States
<1> DEFINE t == [s.t EXCEPT !.reads = @ \cup {<<idx, v>>}]
<1>1. s.t \in TxnType
  BY DEF States
<1>2. t \in TxnType
  BY <1>1 DEF TxnType
<1>3. /\ t.view = s.t.view /\ t.since = s.t.since
      /\ t.creates = s.t.creates /\ t.deletes = s.t.deletes
      /\ t.reads = s.t.reads \cup {<<idx, v>>}
  BY <1>1 DEF TxnType
<1>4. Reading(s, idx, v) = [s EXCEPT !.t = t]
  BY DEF Reading
<1> HIDE DEF t
<1>5. /\ Reading(s, idx, v) \in States /\ Reading(s, idx, v).t = t
      /\ Reading(s, idx, v).file = s.file /\ Reading(s, idx, v).failed = s.failed
  BY <1>2, <1>4 DEF States
<1> QED
  BY <1>3, <1>5 DEF Alike

LEMMA FailingIs ==
  ASSUME NEW s \in States
  PROVE  Alike(s, Failing(s)) /\ Failing(s).failed /\ Failing(s) \in States
BY DEF Alike, Failing, States

LEMMA AlikeSelf ==
  ASSUME NEW s \in States
  PROVE  Alike(s, s)
BY DEF Alike

LEMMA AlikeTrans ==
  ASSUME NEW s, NEW x, NEW y, Alike(s, x), Alike(x, y)
  PROVE  Alike(s, y)
BY DEF Alike

LEMMA RecordFacts ==
  ASSUME NEW r \in Records
  PROVE  /\ r.tbl \in {"parents", "lines"}
         /\ r.tbl = "parents" => /\ IndexesOf(r) = {"id", "name"}
                                 /\ r.id \in Ids /\ r.name \in Names
         /\ r.tbl = "lines" => /\ IndexesOf(r) = {"no", "pid"}
                               /\ r.no \in Nos /\ r.pid \in Ids \cup {EMPTY}
         /\ \A k \in IndexesOf(r) : k \in Indexes /\ r[k] \in Values
<1>1. CASE r \in [tbl : {"parents"}, id : Ids, name : Names]
  BY <1>1 DEF IndexesOf, Indexes, Values
<1>2. CASE r \in [tbl : {"lines"}, no : Nos, pid : Ids \cup {EMPTY}]
  BY <1>2 DEF IndexesOf, Indexes, Values
<1> QED
  BY <1>1, <1>2 DEF Records

\* What an index finds.
LEMMA SeesAre ==
  ASSUME NEW s \in States, s.t.view \subseteq DOMAIN s.file, NEW v
  PROVE  /\ Sees(s, "id", v) = {o \in s.t.view : ParentAt(s.file, o, v)}
         /\ Sees(s, "pid", v) = {o \in s.t.view : LineAt(s.file, o, v)}
         /\ Sees(s, "no", v) = {o \in s.t.view : s.file[o].tbl = "lines" /\ s.file[o].no = v}
<1>1. \A o \in s.t.view : s.file[o] \in Records
  BY StateTypes
<1>2. \A o \in s.t.view : /\ "id" \in IndexesOf(s.file[o]) <=> s.file[o].tbl = "parents"
                          /\ "pid" \in IndexesOf(s.file[o]) <=> s.file[o].tbl = "lines"
                          /\ "no" \in IndexesOf(s.file[o]) <=> s.file[o].tbl = "lines"
  BY <1>1, RecordFacts
<1> QED
  BY <1>2 DEF Sees, Found, ParentAt, LineAt

LEMMA DeleteActIs ==
  ASSUME NEW c, NEW s \in States, NEW o \in s.t.view, ~ s.failed, NEW x, x = DeleteAct(c, s, o)
  PROVE  \/ x.failed /\ Alike(s, x)
         \/ ~ x.failed /\ DroppedIn(c, s, o, x)
<1>1. s.t \in TxnType /\ s.t.view \subseteq Nat /\ o \in Nat
  BY DEF States, TxnType
<1>2. CASE Taken(c, o, s)
  <2> DEFINE y == [s EXCEPT !.t = [s.t EXCEPT !.conflict = TRUE]]
  <2>1. [s.t EXCEPT !.conflict = TRUE] \in TxnType
    BY <1>1 DEF TxnType
  <2>2. y \in States /\ Alike(s, y)
    BY <1>1, <2>1 DEF States, Alike, TxnType
  <2>3. x = Failing(y)
    BY <1>2 DEF DeleteAct
  <2> HIDE DEF y
  <2> QED
    BY <2>2, <2>3, FailingIs, AlikeTrans
<1>3. CASE ~ Taken(c, o, s)
  <2> DEFINE t == [s.t EXCEPT !.view = @ \ {o}, !.deletes = @ \cup {o}]
  <2>1. t \in TxnType
    BY <1>1 DEF TxnType
  <2>2. x = [s EXCEPT !.t = t]
    BY <1>3 DEF DeleteAct
  <2>3. x \in States /\ x.t = t /\ x.file = s.file /\ x.failed = s.failed
    BY <2>1, <2>2 DEF States
  <2> QED
    BY <1>1, <1>3, <2>3 DEF DroppedIn, TxnType
<1> QED
  BY <1>2, <1>3

LEMMA CheckedIs ==
  ASSUME NEW s \in States, NEW r \in Records, NEW k \in IndexesOf(r), NEW x,
         x = Checked(s, r, k), ~ s.failed
  PROVE  /\ Alike(s, x)
         /\ ~ x.failed =>
              /\ <<k, r[k]>> \in x.t.reads
              /\ \A p \in s.t.view : k \in IndexesOf(s.file[p]) => s.file[p][k] # r[k]
<1>1. k \in Indexes /\ r[k] \in Values
  BY RecordFacts
<1> DEFINE y == Reading(s, k, r[k])
<1>2. y \in States /\ Alike(s, y) /\ <<k, r[k]>> \in y.t.reads /\ ~ y.failed
  BY <1>1, ReadingIs
<1>3. x = IF Sees(s, k, r[k]) = {} THEN y ELSE Failing(y)
  BY DEF Checked
<1> HIDE DEF y
<1>4. Failing(y).failed /\ Alike(s, Failing(y))
  BY <1>2, FailingIs, AlikeTrans
<1>5. Sees(s, k, r[k]) = {} =>
        \A p \in s.t.view : k \in IndexesOf(s.file[p]) => s.file[p][k] # r[k]
  BY DEF Sees, Found
<1> QED
  BY <1>2, <1>3, <1>4, <1>5

\* Both keys of a parent, or the key of a line, have been checked in x.
LEMMA EnteredIs ==
  ASSUME NEW s \in States, NEW r \in Records, NEW x, x = Entered(s, r), ~ s.failed
  PROVE  \/ x.failed /\ Alike(s, x)
         \/ ~ x.failed /\ PutIn(s, r, x)
<1> DEFINE w == IF r.tbl = "parents"
                THEN Checked(Checked(s, r, "id"), r, "name")
                ELSE Checked(s, r, "no")
<1>1. Alike(s, w) /\ (~ w.failed => NewIn(s, r, w.t.reads))
  <2>1. CASE r.tbl = "parents"
    <3> DEFINE y == Checked(s, r, "id")
    <3>1. IndexesOf(r) = {"id", "name"}
      BY <2>1, RecordFacts
    <3>2. /\ Alike(s, y)
          /\ ~ y.failed =>
               /\ <<"id", r["id"]>> \in y.t.reads
               /\ \A p \in s.t.view : "id" \in IndexesOf(s.file[p]) => s.file[p]["id"] # r["id"]
      BY <3>1, CheckedIs
    <3>3. w = Checked(y, r, "name")
      BY <2>1
    <3> HIDE DEF y, w
    <3>4. CASE y.failed
      <4>1. w = y
        BY <3>3, <3>4 DEF Checked
      <4> QED
        BY <4>1, <3>2, <3>4
    <3>5. CASE ~ y.failed
      <4>1. y \in States
        BY <3>2 DEF Alike
      <4>2. /\ Alike(y, w)
            /\ ~ w.failed =>
                 /\ <<"name", r["name"]>> \in w.t.reads
                 /\ \A p \in y.t.view : "name" \in IndexesOf(y.file[p]) =>
                                          y.file[p]["name"] # r["name"]
        BY <3>1, <3>3, <3>5, <4>1, CheckedIs
      <4>3. Alike(s, w)
        BY <3>2, <4>2, AlikeTrans
      <4>4. y.t.view = s.t.view /\ y.file = s.file /\ y.t.reads \subseteq w.t.reads
        BY <3>2, <4>2 DEF Alike
      <4>5. ASSUME ~ w.failed PROVE NewIn(s, r, w.t.reads)
        BY <3>1, <3>2, <3>5, <4>2, <4>4, <4>5 DEF NewIn
      <4> QED
        BY <4>3, <4>5
    <3> QED
      BY <3>4, <3>5
  <2>2. CASE r.tbl # "parents"
    <3>1. IndexesOf(r) = {"no", "pid"}
      BY <2>2, RecordFacts
    <3>2. w = Checked(s, r, "no")
      BY <2>2
    <3> HIDE DEF w
    <3>3. /\ Alike(s, w)
          /\ ~ w.failed =>
               /\ <<"no", r["no"]>> \in w.t.reads
               /\ \A p \in s.t.view : "no" \in IndexesOf(s.file[p]) => s.file[p]["no"] # r["no"]
      BY <3>1, <3>2, CheckedIs
    <3> QED
      BY <3>1, <3>3 DEF NewIn
  <2> QED
    BY <2>1, <2>2
<1>2. x = IF w.failed THEN w
          ELSE [w EXCEPT !.file = Append(@, r), !.t.view = @ \cup {Len(s.file) + 1},
                         !.t.creates = @ \cup {Len(s.file) + 1}]
  BY DEF Entered
<1> HIDE DEF w
<1>3. CASE w.failed
  BY <1>1, <1>2, <1>3
<1>4. CASE ~ w.failed
  <2> DEFINE off == Len(s.file) + 1
             t == [w.t EXCEPT !.view = @ \cup {off}, !.creates = @ \cup {off}]
  <2>1. w \in States /\ w.file = s.file /\ off \in Nat
    BY <1>1, StateTypes DEF Alike
  <2>2. w.t \in TxnType /\ w.file \in Seq(Records)
    BY <2>1, StateTypes
  <2>3. t \in TxnType
    BY <2>1, <2>2 DEF TxnType
  <2>4. /\ t.view = w.t.view \cup {off} /\ t.creates = w.t.creates \cup {off}
        /\ t.deletes = w.t.deletes /\ t.since = w.t.since /\ t.reads = w.t.reads
    BY <2>2 DEF TxnType
  <2>5. x = [w EXCEPT !.file = Append(@, r), !.t = t]
    BY <1>2, <1>4
  <2>6. Append(w.file, r) \in Seq(Records)
    BY <2>2, AppendRecord
  <2> HIDE DEF t
  <2>7. x \in States /\ x.file = Append(s.file, r) /\ x.t = t /\ x.failed = w.failed
    BY <2>1, <2>3, <2>5, <2>6 DEF States
  <2> HIDE DEF off
  <2>8. PutIn(s, r, x)
    BY <1>1, <1>4, <2>4, <2>7 DEF PutIn, Alike, off
  <2> QED
    BY <1>4, <2>7, <2>8
<1> QED
  BY <1>3, <1>4

\* The version o gives way to the record r.
Rewritten(c, s, o, r, x) ==
  \E y \in States : DroppedIn(c, s, o, y) /\ PutIn(y, r, x)

LEMMA ReplacedIs ==
  ASSUME NEW c, NEW s \in States, NEW o \in s.t.view, NEW r \in Records, NEW x,
         ~ s.failed, o \notin s.t.deletes, x = Replaced(c, s, o, r)
  PROVE  \/ x.failed /\ Alike(s, x)
         \/ ~ x.failed /\ Rewritten(c, s, o, r, x)
<1> DEFINE y == DeleteAct(c, s, o)
           z == Entered(y, r)
<1>1. x = IF y.failed THEN y ELSE IF z.failed THEN UndoDeleteAct(z, o) ELSE z
  BY DEF Replaced
<1>2. \/ y.failed /\ Alike(s, y)
      \/ ~ y.failed /\ DroppedIn(c, s, o, y)
  BY DeleteActIs
<1> HIDE DEF y
<1>3. CASE y.failed
  BY <1>1, <1>2, <1>3
<1>4. CASE ~ y.failed
  <2>1. y \in States /\ DroppedIn(c, s, o, y)
    BY <1>2, <1>4 DEF DroppedIn
  <2>2. \/ z.failed /\ Alike(y, z)
        \/ ~ z.failed /\ PutIn(y, r, z)
    BY <1>4, <2>1, EnteredIs
  <2> HIDE DEF z
  <2>3. CASE ~ z.failed
    BY <1>1, <1>4, <2>1, <2>2, <2>3 DEF Rewritten
  <2>4. CASE z.failed
    <3> DEFINE t == [z.t EXCEPT !.view = @ \cup {o}, !.deletes = @ \ {o}]
    <3>1. z \in States /\ z.t \in TxnType /\ o \in Nat
      BY <2>2, <2>4 DEF Alike, States, TxnType
    <3>2. t \in TxnType
      BY <3>1 DEF TxnType
    <3>3. /\ t.view = z.t.view \cup {o} /\ t.deletes = z.t.deletes \ {o}
          /\ t.creates = z.t.creates /\ t.since = z.t.since /\ t.reads = z.t.reads
      BY <3>1 DEF TxnType
    <3>4. x = [z EXCEPT !.t = t]
      BY <1>1, <1>4, <2>4 DEF UndoDeleteAct
    <3> HIDE DEF t
    <3>5. x \in States /\ x.t = t /\ x.file = z.file /\ x.failed
      BY <2>4, <3>1, <3>2, <3>4 DEF States
    <3>6. /\ z.file = s.file /\ z.t.view = s.t.view \ {o} /\ z.t.since = s.t.since
          /\ z.t.creates = s.t.creates /\ z.t.deletes = s.t.deletes \cup {o}
          /\ s.t.reads \subseteq z.t.reads
      BY <2>1, <2>2, <2>4 DEF Alike, DroppedIn
    <3>7. /\ (s.t.view \ {o}) \cup {o} = s.t.view
          /\ (s.t.deletes \cup {o}) \ {o} = s.t.deletes
      OBVIOUS
    <3>8. Alike(s, x)
      BY <3>3, <3>5, <3>6, <3>7 DEF Alike
    <3> QED
      BY <3>5, <3>8
  <2> QED
    BY <2>3, <2>4
<1> QED
  BY <1>3, <1>4

\* What a trigger may be told to do.
EventType ==
  {ev \in [at : Ids \cup Nos \cup {EMPTY}, does : {"nothing", "throw", "rewrite"},
           line : Nos \cup {EMPTY}] :
     /\ ev.does = "nothing" => ev.at = EMPTY
     /\ ev.does = "rewrite" => ev.line \in Nos}

LEMMA EventsTyped ==
  ASSUME NEW ats, ats \subseteq Ids \cup Nos
  PROVE  Events(ats) \subseteq EventType
<1> SUFFICES ASSUME NEW ev \in Events(ats) PROVE ev \in EventType
  OBVIOUS
<1>1. CASE ev = [at |-> EMPTY, does |-> "nothing", line |-> EMPTY]
  BY <1>1 DEF EventType
<1>2. CASE ev \in [at : ats, does : {"throw"}, line : {EMPTY}]
  BY <1>2 DEF EventType
<1>3. CASE ev \in [at : ats, does : {"rewrite"}, line : Nos]
  BY <1>3 DEF EventType
<1> QED
  BY <1>1, <1>2, <1>3 DEF Events

\* There is one line with a key in view: it is what a trigger rewrites.
LEMMA OneLine ==
  ASSUME NEW c, NEW s, Base(c, s), NEW no, Sees(s, "no", no) # {}
  PROVE  /\ Max(Sees(s, "no", no)) \in s.t.view
         /\ s.file[Max(Sees(s, "no", no))].tbl = "lines"
<1>1. s \in States /\ s.t.view \subseteq DOMAIN s.file /\ UniqueIn(s.file, s.t.view)
  BY DEF Base, Own
<1>2. Sees(s, "no", no) = {o \in s.t.view : s.file[o].tbl = "lines" /\ s.file[o].no = no}
  BY <1>1, SeesAre
<1>3. PICK o \in s.t.view : o \in Sees(s, "no", no) /\ s.file[o].tbl = "lines" /\ s.file[o].no = no
  BY <1>2
<1>4. ASSUME NEW p \in Sees(s, "no", no) PROVE p = o
  <2>1. p \in s.t.view /\ s.file[p].tbl = "lines" /\ s.file[p].no = no
    BY <1>2
  <2>2. s.file[p] \in Records /\ s.file[o] \in Records
    BY <1>1, <2>1, StateTypes
  <2>3. "no" \in IndexesOf(s.file[p]) \cap IndexesOf(s.file[o])
    BY <1>3, <2>1, <2>2, RecordFacts
  <2>4. s.file[p]["no"] = s.file[o]["no"]
    BY <1>3, <2>1
  <2> QED
    BY <1>1, <1>3, <2>1, <2>3, <2>4 DEF UniqueIn
<1>5. Sees(s, "no", no) = {o}
  BY <1>3, <1>4
<1>6. o \in Nat
  BY <1>1 DEF States, TxnType
<1>7. Max({o}) = o
  BY <1>6 DEF Max
<1> QED
  BY <1>3, <1>5, <1>7

LEMMA TriggeredIs ==
  ASSUME NEW c, NEW s, Base(c, s), NEW ev \in EventType, NEW at, at # EMPTY,
         NEW x, x = Triggered(c, s, at, ev)
  PROVE  \/ Alike(s, x) /\ (s.failed => x.failed)
         \/ /\ ~ s.failed /\ ~ x.failed /\ ev.does = "rewrite"
            /\ \E o \in s.t.view : /\ s.file[o].tbl = "lines"
                                   /\ Rewritten(c, s, o, s.file[o], x)
<1>1. s \in States /\ s.t.view \cap s.t.deletes = {}
  BY DEF Base, Own, ViewFits
<1>2. CASE s.failed \/ ev.at # at
  BY <1>1, <1>2, AlikeSelf DEF Triggered
<1>3. CASE ~ s.failed /\ ev.at = at /\ ev.does = "throw"
  BY <1>1, <1>3, FailingIs DEF Triggered
<1>4. CASE ~ s.failed /\ ev.at = at /\ ev.does # "throw"
  <2>1. ev.does = "rewrite" /\ ev.line \in Nos
    BY <1>4 DEF EventType
  <2> DEFINE z == Reading(s, "no", ev.line)
  <2>2. z \in States /\ Alike(s, z) /\ ~ z.failed
    <3>1. "no" \in Indexes /\ ev.line \in Values
      BY <2>1 DEF Indexes, Values
    <3> QED
      BY <1>1, <1>4, <3>1, ReadingIs
  <2>3. Base(c, z)
    <3>1. Good(c, s, Ids) 
      BY DEF Good
    <3> QED
      BY <2>2, <3>1, AlikeGood DEF Good
  <2>4. x = IF Sees(z, "no", ev.line) = {} THEN s
            ELSE Replaced(c, z, Max(Sees(z, "no", ev.line)), s.file[Max(Sees(z, "no", ev.line))])
    BY <1>4 DEF Triggered
  <2> HIDE DEF z
  <2>5. CASE Sees(z, "no", ev.line) = {}
    BY <1>1, <1>4, <2>4, <2>5, AlikeSelf
  <2>6. CASE Sees(z, "no", ev.line) # {}
    <3> DEFINE o == Max(Sees(z, "no", ev.line))
    <3>1. o \in z.t.view /\ z.file[o].tbl = "lines"
      BY <2>3, <2>6, OneLine
    <3>2. x = Replaced(c, z, o, z.file[o])
      BY <2>2, <2>4, <2>6 DEF Alike
    <3> HIDE DEF o
    <3>3. z.file[o] \in Records /\ o \notin z.t.deletes
      BY <2>2, <2>3, <3>1, StateTypes DEF Base, Own, ViewFits
    <3>4. \/ x.failed /\ Alike(z, x)
          \/ ~ x.failed /\ Rewritten(c, z, o, z.file[o], x)
      BY <2>2, <3>1, <3>2, <3>3, ReplacedIs
    <3>5. o \in s.t.view /\ s.file[o] = z.file[o]
      BY <2>2, <3>1 DEF Alike
    <3>6. CASE Alike(z, x)
      BY <1>4, <2>2, <3>6, AlikeTrans
    <3>7. CASE ~ x.failed /\ Rewritten(c, z, o, z.file[o], x)
      <4>1. PICK y \in States : DroppedIn(c, z, o, y) /\ PutIn(y, z.file[o], x)
        BY <3>7 DEF Rewritten
      <4>2. DroppedIn(c, s, o, y)
        BY <2>2, <4>1 DEF DroppedIn, Alike, Taken
      <4>3. Rewritten(c, s, o, s.file[o], x)
        BY <3>5, <4>1, <4>2 DEF Rewritten
      <4> QED
        BY <1>4, <2>1, <3>1, <3>5, <3>7, <4>3
    <3> QED
      BY <3>4, <3>6, <3>7
  <2> QED
    BY <2>5, <2>6
<1> QED
  BY <1>2, <1>3, <1>4

-----------------------------------------------------------------------------
(* Changes of lines                                                         *)

\* What only grows, and that parents stay.
Onward(s, x) ==
  /\ Len(s.file) <= Len(x.file)
  /\ \A i \in DOMAIN s.file : x.file[i] = s.file[i]
  /\ s.t.reads \subseteq x.t.reads
  /\ \A p \in s.t.view : s.file[p].tbl = "parents" => p \in x.t.view

LEMMA OnwardTrans ==
  ASSUME NEW s \in States, NEW x \in States, NEW y \in States,
         s.t.view \subseteq DOMAIN s.file, Onward(s, x), Onward(x, y)
  PROVE  Onward(s, y)
<1>1. /\ Len(s.file) \in Nat /\ Len(x.file) \in Nat /\ Len(y.file) \in Nat
      /\ DOMAIN s.file = 1 .. Len(s.file) /\ DOMAIN x.file = 1 .. Len(x.file)
  BY StateTypes
<1>2. DOMAIN s.file \subseteq DOMAIN x.file /\ Len(s.file) <= Len(y.file)
  BY <1>1 DEF Onward
<1> QED
  BY <1>2 DEF Onward

LEMMA AlikeOnward ==
  ASSUME NEW s \in States, NEW x, Alike(s, x)
  PROVE  Onward(s, x)
<1>1. Len(s.file) \in Nat
  BY StateTypes
<1> QED
  BY <1>1 DEF Onward, Alike

\* The pid of a line may become pid.
MayMove(s, o, pid, ex) ==
  fkey => \A v \in Ids \ ex : pid = v =>
            LineAt(s.file, o, v) \/ HasParent(s.file, s.t, v)

LEMMA RewrittenIs ==
  ASSUME FInv, NEW c \in DOMAIN txn, NEW s, NEW ex, Good(c, s, ex), NEW o \in s.t.view,
         s.file[o].tbl = "lines", NEW r \in Records, r.tbl = "lines",
         MayMove(s, o, r.pid, ex), NEW x, Rewritten(c, s, o, r, x)
  PROVE  /\ Good(c, x, ex)
         /\ Onward(s, x)
         /\ Len(x.file) = Len(s.file) + 1
         /\ x.file[Len(s.file) + 1] = r
         /\ x.t.view = (s.t.view \ {o}) \cup {Len(s.file) + 1}
<1>1. PICK y \in States : DroppedIn(c, s, o, y) /\ PutIn(y, r, x)
  BY DEF Rewritten
<1>2. Base(c, s) /\ s \in States /\ x \in States
  BY <1>1 DEF Good, Base, PutIn
<1>3. Base(c, y)
  BY <1>1, <1>2, DropBase
<1>4. Base(c, x)
  BY <1>1, <1>3, PutBase
<1>5. ASSUME fkey, NEW v \in Ids \ ex PROVE Refers(db, x.file, x.t, v)
  <2>1. Refers(db, s.file, s.t, v)
    BY <1>5 DEF Good
  <2>2. /\ Refers(db, y.file, y.t, v)
        /\ LineAt(s.file, o, v) => MayRefer(db, y.file, y.t, v)
    BY <1>1, <1>2, <2>1, DropLineRefers
  <2>3. HasParent(s.file, s.t, v) => MayRefer(db, y.file, y.t, v)
    BY <1>1 DEF HasParent, MayRefer, DroppedIn, ParentAt
  <2>4. r.pid = v => MayRefer(db, y.file, y.t, v)
    BY <1>5, <2>2, <2>3 DEF MayMove
  <2> QED
    BY <1>1, <1>3, <2>2, <2>4, PutLineRefers
<1>6. Good(c, x, ex)
  BY <1>4, <1>5 DEF Good
<1>7. y.file = s.file /\ s.file \in Seq(Records) /\ Len(s.file) \in Nat
      /\ x.file = Append(s.file, r)
  BY <1>1, <1>2, StateTypes DEF DroppedIn, PutIn
<1>8. /\ Len(x.file) = Len(s.file) + 1 /\ x.file[Len(s.file) + 1] = r
      /\ Len(s.file) <= Len(x.file)
      /\ \A i \in DOMAIN s.file : x.file[i] = s.file[i]
  BY <1>7, AppendRecord
<1>9. x.t.view = (s.t.view \ {o}) \cup {Len(s.file) + 1} /\ s.t.reads \subseteq x.t.reads
  BY <1>1, <1>7 DEF DroppedIn, PutIn
<1>10. Onward(s, x)
  BY <1>8, <1>9 DEF Onward
<1> QED
  BY <1>6, <1>8, <1>9, <1>10

\* A trigger: it rewrites a line, or does nothing to the versions.
LEMMA TriggeredGood ==
  ASSUME FInv, NEW c \in DOMAIN txn, NEW s, NEW ex, Good(c, s, ex),
         NEW ev \in EventType, NEW at, at # EMPTY, NEW x, x = Triggered(c, s, at, ev)
  PROVE  /\ Good(c, x, ex)
         /\ Onward(s, x)
         /\ s.failed => x.failed
         /\ Alike(s, x) \/ Len(x.file) = Len(s.file) + 1
         /\ \A v : \A q \in x.t.view : LineAt(x.file, q, v) =>
              \/ q \in s.t.view /\ LineAt(s.file, q, v)
              \/ /\ q = Len(s.file) + 1 /\ ev.does = "rewrite"
                 /\ \E o \in s.t.view : LineAt(s.file, o, v)
         /\ \A v : (\E q \in s.t.view : LineAt(s.file, q, v)) =>
                     \E q \in x.t.view : LineAt(x.file, q, v)
<1>1. s \in States /\ s.t.view \subseteq DOMAIN s.file /\ Base(c, s)
  BY DEF Good, Base, Own
<1>2. CASE Alike(s, x) /\ (s.failed => x.failed)
  BY <1>1, <1>2, AlikeGood, AlikeOnward DEF Alike
<1>3. CASE /\ ~ s.failed /\ ~ x.failed /\ ev.does = "rewrite"
           /\ \E o \in s.t.view : /\ s.file[o].tbl = "lines"
                                  /\ Rewritten(c, s, o, s.file[o], x)
  <2>1. PICK o \in s.t.view : s.file[o].tbl = "lines" /\ Rewritten(c, s, o, s.file[o], x)
    BY <1>3
  <2>2. s.file[o] \in Records
    BY <1>1, StateTypes
  <2>3. MayMove(s, o, s.file[o].pid, ex)
    BY <2>1 DEF MayMove, LineAt
  <2>4. /\ Good(c, x, ex)
        /\ Onward(s, x)
        /\ Len(x.file) = Len(s.file) + 1
        /\ x.file[Len(s.file) + 1] = s.file[o]
        /\ x.t.view = (s.t.view \ {o}) \cup {Len(s.file) + 1}
    BY <2>1, <2>2, <2>3, RewrittenIs
  <2>5. ASSUME NEW v, NEW q \in x.t.view, LineAt(x.file, q, v)
        PROVE  \/ q \in s.t.view /\ LineAt(s.file, q, v)
               \/ /\ q = Len(s.file) + 1 /\ ev.does = "rewrite"
                  /\ \E p \in s.t.view : LineAt(s.file, p, v)
    <3>1. CASE q = Len(s.file) + 1
      BY <1>3, <2>4, <2>5, <3>1 DEF LineAt
    <3>2. CASE q \in s.t.view
      <4>1. x.file[q] = s.file[q]
        BY <1>1, <2>4, <3>2 DEF Onward
      <4> QED
        BY <2>5, <3>2, <4>1 DEF LineAt
    <3> QED
      BY <2>4, <3>1, <3>2
  <2>6. ASSUME NEW v, NEW q \in s.t.view, LineAt(s.file, q, v)
        PROVE  \E p \in x.t.view : LineAt(x.file, p, v)
    <3>1. CASE q = o
      BY <2>4, <2>6, <3>1 DEF LineAt
    <3>2. CASE q # o
      <4>1. q \in x.t.view /\ x.file[q] = s.file[q]
        BY <1>1, <2>4, <3>2 DEF Onward
      <4> QED
        BY <2>6, <4>1 DEF LineAt
    <3> QED
      BY <3>1, <3>2
  <2> QED
    BY <1>3, <2>4, <2>5, <2>6
<1> QED
  BY <1>1, <1>2, <1>3, TriggeredIs

\* The lines with pid v after a change: they were there, or a trigger has
\* rewritten them.
LinesLeft(s, x, o, v, ev) ==
  \A q \in x.t.view : LineAt(x.file, q, v) =>
    \/ q \in s.t.view /\ LineAt(s.file, q, v) /\ q # o
    \/ Len(s.file) < q /\ ev.does = "rewrite"

LEMMA LineRemovedIs ==
  ASSUME FInv, NEW c \in DOMAIN txn, NEW s, NEW ex, Good(c, s, ex), ~ s.failed,
         NEW o \in s.t.view, s.file[o].tbl = "lines",
         NEW ev \in EventType, NEW x, x = LineRemoved(c, s, o, ev)
  PROVE  /\ Good(c, x, ex)
         /\ Onward(s, x)
         /\ ~ x.failed => \A v : LinesLeft(s, x, o, v, ev)
<1> DEFINE y == DeleteAct(c, s, o)
<1>1. s \in States /\ s.t.view \subseteq DOMAIN s.file /\ Base(c, s)
  BY DEF Good, Base, Own
<1>2. s.file[o] \in Records /\ s.file[o].no # EMPTY
  BY <1>1, StateTypes, RecordFacts, EmptyAssumption
<1>3. x = Triggered(c, y, s.file[o].no, ev)
  BY DEF LineRemoved
<1>4. \/ y.failed /\ Alike(s, y)
      \/ ~ y.failed /\ DroppedIn(c, s, o, y)
  BY <1>1, DeleteActIs
<1> HIDE DEF y
<1>5. CASE y.failed
  <2>1. x = y
    BY <1>3, <1>5 DEF Triggered
  <2> QED
    BY <2>1, <1>1, <1>4, <1>5, AlikeGood, AlikeOnward
<1>6. CASE ~ y.failed
  <2>1. Base(c, y) /\ DroppedIn(c, s, o, y)
    BY <1>1, <1>4, <1>6, DropBase
  <2>2. ASSUME fkey, NEW v \in Ids \ ex PROVE Refers(db, y.file, y.t, v)
    <3>1. Refers(db, s.file, s.t, v)
      BY <2>2 DEF Good
    <3> QED
      BY <1>1, <2>1, <3>1, DropLineRefers
  <2>3. Good(c, y, ex)
    BY <2>1, <2>2 DEF Good
  <2>4. Len(s.file) \in Nat
    BY <1>1, StateTypes
  <2>5. Onward(s, y)
    BY <2>1, <2>4 DEF Onward, DroppedIn
  <2>6. /\ Good(c, x, ex)
        /\ Onward(y, x)
        /\ \A v : \A q \in x.t.view : LineAt(x.file, q, v) =>
             \/ q \in y.t.view /\ LineAt(y.file, q, v)
             \/ q = Len(y.file) + 1 /\ ev.does = "rewrite"
    BY <1>2, <1>3, <2>3, TriggeredGood
  <2>7. Onward(s, x)
    BY <1>1, <2>1, <2>5, <2>6, OnwardTrans DEF Good, Base
  <2>8. \A v : LinesLeft(s, x, o, v, ev)
    BY <2>1, <2>4, <2>6 DEF LinesLeft, DroppedIn
  <2> QED
    BY <2>6, <2>7, <2>8
<1> QED
  BY <1>5, <1>6

LEMMA LineMovedIs ==
  ASSUME FInv, NEW c \in DOMAIN txn, NEW s, NEW ex, Good(c, s, ex), ~ s.failed,
         NEW o \in s.t.view, s.file[o].tbl = "lines",
         NEW pid \in Ids \cup {EMPTY}, MayMove(s, o, pid, ex),
         NEW ev \in EventType, NEW x, x = LineMoved(c, s, o, pid, ev)
  PROVE  /\ Good(c, x, ex)
         /\ Onward(s, x)
         /\ Alike(s, x) \/ Len(s.file) < Len(x.file)
         /\ ~ x.failed => \A v : v # pid => LinesLeft(s, x, o, v, ev)
<1> DEFINE r == Line(s.file[o].no, pid)
           y == Replaced(c, s, o, r)
<1>1. s \in States /\ s.t.view \subseteq DOMAIN s.file /\ Base(c, s) /\ o \notin s.t.deletes
  BY DEF Good, Base, Own, ViewFits
<1>2. s.file[o] \in Records /\ s.file[o].no # EMPTY /\ s.file[o].no \in Nos
  BY <1>1, StateTypes, RecordFacts, EmptyAssumption
<1>3. r \in Records /\ r.tbl = "lines" /\ r.pid = pid
  BY <1>2 DEF Records, Line
<1>4. x = Triggered(c, y, s.file[o].no, ev)
  BY DEF LineMoved
<1> HIDE DEF r
<1>5. \/ y.failed /\ Alike(s, y)
      \/ ~ y.failed /\ Rewritten(c, s, o, r, y)
  BY <1>1, <1>3, ReplacedIs
<1> HIDE DEF y
<1>6. CASE y.failed
  <2>1. x = y
    BY <1>4, <1>6 DEF Triggered
  <2> QED
    BY <2>1, <1>1, <1>5, <1>6, AlikeGood, AlikeOnward
<1>7. CASE ~ y.failed
  <2>1. /\ Good(c, y, ex)
        /\ Onward(s, y)
        /\ Len(y.file) = Len(s.file) + 1
        /\ y.file[Len(s.file) + 1] = r
        /\ y.t.view = (s.t.view \ {o}) \cup {Len(s.file) + 1}
    BY <1>3, <1>5, <1>7, RewrittenIs
  <2>2. /\ Good(c, x, ex)
        /\ Onward(y, x)
        /\ \A v : \A q \in x.t.view : LineAt(x.file, q, v) =>
             \/ q \in y.t.view /\ LineAt(y.file, q, v)
             \/ q = Len(y.file) + 1 /\ ev.does = "rewrite"
    BY <1>2, <1>4, <2>1, TriggeredGood
  <2>3. x \in States /\ y \in States
    BY <2>1, <2>2 DEF Good, Base
  <2>4. Len(s.file) \in Nat /\ Len(x.file) \in Nat
    BY <1>1, <2>3, StateTypes
  <2>5. Onward(s, x)
    BY <1>1, <2>1, <2>2, <2>3, OnwardTrans
  <2>6. Len(s.file) < Len(x.file)
    BY <2>1, <2>2, <2>4 DEF Onward
  <2>7. ASSUME NEW v, v # pid PROVE LinesLeft(s, x, o, v, ev)
    <3> SUFFICES ASSUME NEW q \in x.t.view, LineAt(x.file, q, v)
                 PROVE  \/ q \in s.t.view /\ LineAt(s.file, q, v) /\ q # o
                        \/ Len(s.file) < q /\ ev.does = "rewrite"
      BY DEF LinesLeft
    <3>1. CASE q \in y.t.view /\ LineAt(y.file, q, v)
      <4>1. q # Len(s.file) + 1
        BY <1>3, <2>1, <2>7, <3>1 DEF LineAt
      <4>2. q \in s.t.view /\ q # o
        BY <2>1, <3>1, <4>1
      <4>3. y.file[q] = s.file[q]
        BY <1>1, <2>1, <4>2 DEF Onward
      <4> QED
        BY <3>1, <4>2, <4>3 DEF LineAt
    <3>2. CASE q = Len(y.file) + 1 /\ ev.does = "rewrite"
      BY <2>1, <2>4, <3>2
    <3> QED
      BY <2>2, <3>1, <3>2
  <2> QED
    BY <2>2, <2>5, <2>6, <2>7
<1> QED
  BY <1>6, <1>7

-----------------------------------------------------------------------------
(* Cascades over lines                                                      *)

\* a is how the first n offsets are passed.
Passes(c, s, pid, new, ev, n, a) ==
  a = [o \in 0 .. n |-> IF o = 0 THEN s ELSE Passed(c, a[o - 1], pid, new, o, ev)]

LEMMA PassesExist ==
  ASSUME NEW c, NEW s, NEW pid, NEW new, NEW ev, NEW n \in Nat
  PROVE  \E a : Passes(c, s, pid, new, ev, n, a)
<1> DEFINE T == {m \in Nat : ~ \E a : Passes(c, s, pid, new, ev, m, a)}
<1> SUFFICES ASSUME T # {} PROVE FALSE
  OBVIOUS
<1>1. PICK m \in T : \A l \in T : <<l, m>> \notin OpToRel(<, Nat)
  <2>1. T \subseteq Nat
    OBVIOUS
  <2> HIDE DEF T
  <2> QED
    BY <2>1, NatLessThanWellFounded, WFMin
<1>2. CASE m = 0
  <2> DEFINE a == [o \in 0 .. 0 |-> s]
  <2>1. Passes(c, s, pid, new, ev, 0, a)
    BY DEF Passes
  <2> QED
    BY <1>2, <2>1
<1>3. CASE m # 0
  <2>1. m \in Nat /\ m - 1 \in Nat /\ m - 1 < m
    BY <1>3
  <2>2. m - 1 \notin T
    BY <1>1, <2>1 DEF OpToRel
  <2>3. PICK a : Passes(c, s, pid, new, ev, m - 1, a)
    BY <2>1, <2>2
  <2> DEFINE b == [o \in 0 .. m |-> IF o = 0 THEN s ELSE Passed(c, a[o - 1], pid, new, o, ev)]
  <2>4. \A o \in 0 .. m - 1 : b[o] = a[o]
    BY <2>1, <2>3 DEF Passes
  <2>5. \A o \in 0 .. m : o # 0 => o - 1 \in 0 .. m - 1
    BY <2>1
  <2>6. b = [o \in 0 .. m |-> IF o = 0 THEN s ELSE Passed(c, b[o - 1], pid, new, o, ev)]
    BY <2>4, <2>5
  <2>7. Passes(c, s, pid, new, ev, m, b)
    BY <2>6 DEF Passes
  <2> QED
    BY <1>1, <2>7
<1> QED
  BY <1>2, <1>3

LEMMA OverLinesIs ==
  ASSUME NEW c, NEW s, NEW pid, NEW new, NEW ev, NEW size \in Nat
  PROVE  \E a : /\ a[0] = s
                /\ \A o \in 1 .. size : a[o] = Passed(c, a[o - 1], pid, new, o, ev)
                /\ OverLines(c, s, pid, new, size, ev) = a[size]
<1> DEFINE a == CHOOSE a : Passes(c, s, pid, new, ev, size, a)
<1>1. Passes(c, s, pid, new, ev, size, a)
  BY PassesExist
<1>2. OverLines(c, s, pid, new, size, ev) = a[size]
  BY DEF OverLines, Passes
<1> HIDE DEF a
<1>3. a[0] = s
  BY <1>1 DEF Passes
<1>4. \A o \in 1 .. size : a[o] = Passed(c, a[o - 1], pid, new, o, ev)
  BY <1>1 DEF Passes
<1> QED
  BY <1>2, <1>3, <1>4

\* Lines with pid that are still there when the iterator has passed offset n
\* are behind it: lines there were, or lines that a trigger has rewritten.
Cascading(c, s, pid, new, ev, ex, n, a) ==
  /\ Good(c, a, ex)
  /\ Onward(s, a)
  /\ new # EMPTY => Alike(s, a) \/ Len(s.file) < Len(a.file)
  /\ ~ a.failed => \A q \in a.t.view : LineAt(a.file, q, pid) =>
                     n < q /\ (q <= Len(s.file) \/ ev.does = "rewrite")

LEMMA CascadePasses ==
  ASSUME FInv, NEW c \in DOMAIN txn, NEW s \in States, NEW pid \in Ids,
         NEW new \in Ids \cup {EMPTY}, new # pid, NEW ev \in EventType,
         NEW ex, new \notin Ids \ ex, s.t.view \subseteq DOMAIN s.file,
         NEW n \in Nat, NEW a, NEW x,
         Cascading(c, s, pid, new, ev, ex, n, a), x = Passed(c, a, pid, new, n + 1, ev)
  PROVE  Cascading(c, s, pid, new, ev, ex, n + 1, x)
<1> DEFINE o == n + 1
<1>1. /\ Good(c, a, ex) /\ Base(c, a) /\ a \in States
      /\ a.t.view \subseteq DOMAIN a.file /\ a.t.view \subseteq Nat
  BY DEF Cascading, Good, Base, Own, States, TxnType
<1>2. Sees(a, "pid", pid) = {q \in a.t.view : LineAt(a.file, q, pid)}
  BY <1>1, SeesAre
<1>3. CASE a.failed
  BY <1>3 DEF Cascading, Passed
<1>4. CASE ~ a.failed /\ o \notin Sees(a, "pid", pid)
  <2>1. x = a
    BY <1>4 DEF Passed
  <2>2. ASSUME NEW q \in a.t.view, LineAt(a.file, q, pid) PROVE o < q
    <3>1. n < q /\ q # o /\ q \in Nat
      BY <1>1, <1>2, <1>4, <2>2 DEF Cascading
    <3> QED
      BY <3>1
  <2> QED
    BY <2>1, <2>2 DEF Cascading
<1>5. CASE ~ a.failed /\ o \in Sees(a, "pid", pid)
  <2>1. o \in a.t.view /\ a.file[o].tbl = "lines"
    BY <1>2, <1>5 DEF LineAt
  <2>2. x = IF new = EMPTY THEN LineRemoved(c, a, o, ev) ELSE LineMoved(c, a, o, new, ev)
    BY <1>5 DEF Passed
  <2>3. MayMove(a, o, new, ex)
    BY DEF MayMove
  <2> HIDE DEF o
  <2>4. /\ Good(c, x, ex)
        /\ Onward(a, x)
        /\ new # EMPTY => Alike(a, x) \/ Len(a.file) < Len(x.file)
        /\ ~ x.failed => LinesLeft(a, x, o, pid, ev)
    <3>1. CASE new = EMPTY
      BY <1>1, <1>5, <2>1, <2>2, <3>1, LineRemovedIs
    <3>2. CASE new # EMPTY
      <4>1. x = LineMoved(c, a, o, new, ev)
        BY <2>2, <3>2
      <4> QED
        BY <1>1, <1>5, <2>1, <2>3, <4>1, LineMovedIs
    <3> QED
      BY <3>1, <3>2
  <2>5. x \in States
    BY <2>4 DEF Good, Base
  <2>6. /\ Len(s.file) \in Nat /\ Len(a.file) \in Nat /\ Len(x.file) \in Nat
        /\ DOMAIN a.file = 1 .. Len(a.file) /\ o <= Len(a.file)
    BY <1>1, <2>1, <2>5, StateTypes
  <2>7. Onward(s, x)
    BY <1>1, <2>4, <2>5, OnwardTrans DEF Cascading
  <2>8. ASSUME new # EMPTY PROVE Alike(s, x) \/ Len(s.file) < Len(x.file)
    <3>1. CASE Alike(s, a) /\ Alike(a, x)
      BY <3>1, AlikeTrans
    <3>2. CASE Len(s.file) < Len(a.file) \/ Len(a.file) < Len(x.file)
      <4>1. Len(s.file) <= Len(a.file) /\ Len(a.file) <= Len(x.file)
        BY <2>4 DEF Cascading, Onward
      <4> QED
        BY <2>6, <3>2, <4>1
    <3> QED
      BY <2>4, <2>8, <3>1, <3>2 DEF Cascading
  <2>9. ASSUME ~ x.failed, NEW q \in x.t.view, LineAt(x.file, q, pid)
        PROVE  n + 1 < q /\ (q <= Len(s.file) \/ ev.does = "rewrite")
    <3>1. q \in Nat
      BY <2>5 DEF States, TxnType
    <3>2. CASE q \in a.t.view /\ LineAt(a.file, q, pid) /\ q # o
      <4>1. n < q /\ (q <= Len(s.file) \/ ev.does = "rewrite")
        BY <1>5, <3>2 DEF Cascading
      <4> QED
        BY <3>1, <3>2, <4>1 DEF o
    <3>3. CASE Len(a.file) < q /\ ev.does = "rewrite"
      BY <2>6, <3>1, <3>3 DEF o
    <3> QED
      BY <2>4, <2>9, <3>2, <3>3 DEF LinesLeft
  <2> QED
    BY <2>4, <2>7, <2>8, <2>9 DEF Cascading
<1> QED
  BY <1>3, <1>4, <1>5

LEMMA CascadeEnds ==
  ASSUME FInv, NEW c \in DOMAIN txn, NEW s, NEW pid \in Ids,
         NEW new \in Ids \cup {EMPTY}, new # pid, NEW ev \in EventType,
         NEW ex, new \notin Ids \ ex, Good(c, s, ex), NEW size \in Nat
  PROVE  Cascading(c, s, pid, new, ev, ex, size, OverLines(c, s, pid, new, size, ev))
<1>1. PICK a : /\ a[0] = s
               /\ \A o \in 1 .. size : a[o] = Passed(c, a[o - 1], pid, new, o, ev)
               /\ OverLines(c, s, pid, new, size, ev) = a[size]
  BY OverLinesIs
<1>2. s \in States /\ s.t.view \subseteq DOMAIN s.file
  BY DEF Good, Base, Own
<1>3. Cascading(c, s, pid, new, ev, ex, 0, a[0])
  <2>1. Alike(s, s) /\ Onward(s, s)
    BY <1>2, AlikeSelf, AlikeOnward
  <2>2. \A q \in s.t.view : 0 < q /\ q <= Len(s.file)
    BY <1>2, StateTypes
  <2> QED
    BY <1>1, <2>1, <2>2 DEF Cascading
<1> DEFINE T == {m \in 0 .. size : ~ Cascading(c, s, pid, new, ev, ex, m, a[m])}
<1> SUFFICES ASSUME T # {} PROVE FALSE
  BY <1>1
<1>4. PICK m \in T : \A l \in T : <<l, m>> \notin OpToRel(<, Nat)
  <2>1. T \subseteq Nat
    OBVIOUS
  <2> HIDE DEF T
  <2> QED
    BY <2>1, NatLessThanWellFounded, WFMin
<1>5. m \in 0 .. size /\ ~ Cascading(c, s, pid, new, ev, ex, m, a[m])
  BY <1>4
<1>6. ASSUME NEW l \in 0 .. size, l < m PROVE Cascading(c, s, pid, new, ev, ex, l, a[l])
  <2>1. <<l, m>> \in OpToRel(<, Nat)
    BY <1>5, <1>6 DEF OpToRel
  <2>2. l \notin T
    BY <1>4, <2>1
  <2> QED
    BY <2>2
<1> HIDE DEF T
<1>7. m # 0
  BY <1>3, <1>5
<1>8. m \in 1 .. size /\ m - 1 \in 0 .. size /\ m - 1 \in Nat
       /\ (m - 1) + 1 = m /\ m - 1 < m
  BY <1>5, <1>7
<1>9. Cascading(c, s, pid, new, ev, ex, m - 1, a[m - 1])
  BY <1>6, <1>8
<1>10. a[m] = Passed(c, a[m - 1], pid, new, (m - 1) + 1, ev)
  BY <1>1, <1>8
<1>11. Cascading(c, s, pid, new, ev, ex, (m - 1) + 1, a[m])
  BY <1>2, <1>8, <1>9, <1>10, CascadePasses
<1> QED
  BY <1>5, <1>8, <1>11

-----------------------------------------------------------------------------
(* The parts of a statement                                                 *)

LEMMA GoingGood ==
  ASSUME FInv, NEW c \in DOMAIN txn, NEW reads, reads \subseteq Indexes \X Values
  PROVE  /\ Good(c, Going(c, reads), Exempt)
         /\ ~ Going(c, reads).failed
         /\ Going(c, reads).file = file
         /\ Going(c, reads).t.view = txn[c].view
         /\ reads \subseteq Going(c, reads).t.reads
<1> DEFINE s == [file |-> file, t |-> txn[c], failed |-> FALSE]
           t == [txn[c] EXCEPT !.reads = @ \cup reads]
           x == [file |-> file, t |-> t, failed |-> FALSE]
<1>1. txn[c] \in TxnType /\ file \in Seq(Records)
  BY DEF FInv, TypeOK
<1>2. s \in States
  BY <1>1 DEF States
<1>3. Base(c, s)
  BY <1>1, <1>2, LenProperties DEF Base, FInv
<1>4. Good(c, s, Exempt)
  BY <1>3 DEF Good, FInv
<1>5. t \in TxnType
  BY <1>1 DEF TxnType
<1>6. /\ t.view = txn[c].view /\ t.since = txn[c].since
      /\ t.creates = txn[c].creates /\ t.deletes = txn[c].deletes
      /\ t.reads = txn[c].reads \cup reads
  BY <1>1 DEF TxnType
<1> HIDE DEF t
<1>7. x \in States
  BY <1>1, <1>5 DEF States
<1>8. Alike(s, x)
  BY <1>6, <1>7 DEF Alike
<1>9. Going(c, reads) = x
  BY DEF Going, t
<1>10. Good(c, x, Exempt)
  BY <1>4, <1>8, AlikeGood
<1> QED
  BY <1>6, <1>9, <1>10

LEMMA ReferringIs ==
  ASSUME NEW s \in States, s.t.view \subseteq DOMAIN s.file, ~ s.failed,
         NEW pid \in Ids \cup {EMPTY}, NEW x, x = Referring(s, pid)
  PROVE  /\ Alike(s, x)
         /\ ~ x.failed /\ fkey /\ pid # EMPTY => HasParent(x.file, x.t, pid)
<1> DEFINE y == Reading(s, "id", pid)
<1>1. "id" \in Indexes /\ pid \in Values
  BY DEF Indexes, Values
<1>2. y \in States /\ Alike(s, y) /\ <<"id", pid>> \in y.t.reads /\ ~ y.failed
  BY <1>1, ReadingIs
<1>3. x = IF ~fkey \/ pid = EMPTY THEN s
          ELSE IF Sees(s, "id", pid) = {} THEN Failing(y) ELSE y
  BY DEF Referring
<1> HIDE DEF y
<1>4. Failing(y).failed /\ Alike(s, Failing(y)) /\ Alike(s, s)
  BY <1>2, FailingIs, AlikeTrans, AlikeSelf
<1>5. Sees(s, "id", pid) # {} => HasParent(y.file, y.t, pid)
  BY <1>2, SeesAre DEF HasParent, Alike
<1> QED
  BY <1>2, <1>3, <1>4, <1>5

LEMMA EnteredGood ==
  ASSUME FInv, NEW c \in DOMAIN txn, NEW s, NEW ex, Good(c, s, ex), ~ s.failed,
         NEW r \in Records,
         fkey /\ r.tbl = "lines" => \A v \in Ids \ ex : r.pid = v => HasParent(s.file, s.t, v),
         NEW x, x = Entered(s, r)
  PROVE  Good(c, x, ex)
<1>1. Base(c, s) /\ s \in States
  BY DEF Good, Base
<1>2. \/ x.failed /\ Alike(s, x)
      \/ ~ x.failed /\ PutIn(s, r, x)
  BY <1>1, EnteredIs
<1>3. CASE Alike(s, x)
  BY <1>3, AlikeGood
<1>4. CASE PutIn(s, r, x)
  <2>1. Base(c, x)
    BY <1>1, <1>4, PutBase
  <2>2. ASSUME fkey, NEW v \in Ids \ ex PROVE Refers(db, x.file, x.t, v)
    <3>1. Refers(db, s.file, s.t, v)
      BY <2>2 DEF Good
    <3>2. CASE r.tbl = "parents"
      BY <1>1, <1>4, <3>1, <3>2, PutParentRefers
    <3>3. CASE r.tbl = "lines"
      <4>1. r.pid = v => MayRefer(db, s.file, s.t, v)
        BY <2>2, <3>3 DEF MayRefer
      <4> QED
        BY <1>1, <1>4, <3>1, <4>1, PutLineRefers
    <3> QED
      BY <3>2, <3>3, RecordFacts
  <2> QED
    BY <2>1, <2>2 DEF Good
<1> QED
  BY <1>2, <1>3, <1>4

\* A parent with id may go, or get the new id: its lines are gone, or have
\* moved but for those a trigger has rewritten.
LEMMA DereferringIs ==
  ASSUME FInv, NEW c \in DOMAIN txn, NEW s, NEW ex, Good(c, s, ex), ~ s.failed, fkey,
         NEW id \in Ids, NEW new \in Ids \cup {EMPTY}, new # id, NEW ev \in EventType,
         NEW x, x = Dereferring(c, s, id, new, ev)
  PROVE  /\ Good(c, x, ex \cup {new})
         /\ Onward(s, x)
         /\ new # EMPTY => Alike(s, x) \/ Len(s.file) < Len(x.file)
         /\ ~ x.failed =>
              /\ <<"pid", id>> \in x.t.reads
              /\ \A q \in x.t.view : LineAt(x.file, q, id) =>
                   \/ new = EMPTY /\ MaxFile < q
                   \/ new # EMPTY /\ Len(s.file) < q /\ ev.does = "rewrite"
<1> DEFINE y == Reading(s, "pid", id)
           exx == ex \cup {new}
<1>1. s \in States /\ s.t.view \subseteq DOMAIN s.file
  BY DEF Good, Base, Own
<1>2. "pid" \in Indexes /\ id \in Values
  BY DEF Indexes, Values
<1>3. y \in States /\ Alike(s, y) /\ <<"pid", id>> \in y.t.reads /\ ~ y.failed
  BY <1>1, <1>2, ReadingIs
<1>4. x = IF new = EMPTY /\ CASCADE_DELETES \in mode THEN LinesRemoved(c, y, id, ev)
          ELSE IF new # EMPTY /\ CASCADE_UPDATES \in mode THEN LinesMoved(c, y, id, new, ev)
          ELSE IF Sees(s, "pid", id) # {} THEN Failing(y) ELSE y
  BY DEF Dereferring
<1> HIDE DEF y
<1>5. Good(c, s, exx) /\ new \notin Ids \ exx
  BY DEF Good
<1> HIDE DEF exx
<1>6. Good(c, y, exx)
  BY <1>3, <1>5, AlikeGood
<1>7. Onward(s, y) /\ Len(s.file) \in Nat /\ MaxFile \in Nat /\ y.file = s.file
  BY <1>1, <1>3, StateTypes, AlikeOnward, BoundsAssumption DEF Alike
<1>8. ASSUME NEW size \in Nat, x = OverLines(c, y, id, new, size, ev),
             size = IF new = EMPTY THEN MaxFile ELSE Len(s.file)
      PROVE  /\ Good(c, x, exx)
             /\ Onward(s, x)
             /\ new # EMPTY => Alike(s, x) \/ Len(s.file) < Len(x.file)
             /\ ~ x.failed =>
                  /\ <<"pid", id>> \in x.t.reads
                  /\ \A q \in x.t.view : LineAt(x.file, q, id) =>
                       \/ new = EMPTY /\ MaxFile < q
                       \/ new # EMPTY /\ Len(s.file) < q /\ ev.does = "rewrite"
  <2>1. Cascading(c, y, id, new, ev, exx, size, x)
    BY <1>5, <1>6, <1>8, CascadeEnds
  <2>2. Good(c, x, exx) /\ x \in States /\ Onward(y, x)
    BY <2>1 DEF Cascading, Good, Base
  <2>3. Onward(s, x)
    BY <1>1, <1>3, <1>7, <2>2, OnwardTrans
  <2>4. new # EMPTY => Alike(s, x) \/ Len(s.file) < Len(x.file)
    BY <1>3, <1>7, <2>1, AlikeTrans DEF Cascading
  <2>5. <<"pid", id>> \in x.t.reads
    BY <1>3, <2>2 DEF Onward
  <2>6. ASSUME ~ x.failed, NEW q \in x.t.view, LineAt(x.file, q, id)
        PROVE  \/ new = EMPTY /\ MaxFile < q
               \/ new # EMPTY /\ Len(s.file) < q /\ ev.does = "rewrite"
    <3>1. size < q /\ (q <= Len(s.file) \/ ev.does = "rewrite")
      BY <1>7, <2>1, <2>6 DEF Cascading
    <3>2. q \in Nat
      BY <2>2 DEF States, TxnType
    <3> QED
      BY <1>7, <1>8, <3>1, <3>2
  <2> QED
    BY <2>2, <2>3, <2>4, <2>5, <2>6
<1>9. CASE new = EMPTY /\ CASCADE_DELETES \in mode
  <2>1. x = OverLines(c, y, id, new, MaxFile, ev)
    BY <1>4, <1>9 DEF LinesRemoved
  <2> QED
    BY <1>7, <1>8, <1>9, <2>1 DEF exx
<1>10. CASE new # EMPTY /\ CASCADE_UPDATES \in mode
  <2>1. x = OverLines(c, y, id, new, Len(s.file), ev)
    BY <1>4, <1>7, <1>10 DEF LinesMoved
  <2> QED
    BY <1>7, <1>8, <1>10, <2>1 DEF exx
<1>11. CASE /\ ~ (new = EMPTY /\ CASCADE_DELETES \in mode)
            /\ ~ (new # EMPTY /\ CASCADE_UPDATES \in mode)
  <2>1. x = IF Sees(s, "pid", id) # {} THEN Failing(y) ELSE y
    BY <1>4, <1>11
  <2>2. Alike(y, Failing(y)) /\ Failing(y).failed /\ Alike(y, y)
    BY <1>3, FailingIs, AlikeSelf
  <2>3. Alike(s, x)
    BY <1>3, <2>1, <2>2, AlikeTrans
  <2>4. Good(c, x, exx) /\ Onward(s, x)
    BY <1>1, <1>5, <2>3, AlikeGood, AlikeOnward
  <2>5. ASSUME ~ x.failed
        PROVE  /\ <<"pid", id>> \in x.t.reads
               /\ \A q \in x.t.view : ~ LineAt(x.file, q, id)
    <3>1. x = y /\ Sees(s, "pid", id) = {}
      BY <2>1, <2>2, <2>5
    <3>2. \A q \in s.t.view : ~ LineAt(s.file, q, id)
      BY <1>1, <3>1, SeesAre
    <3> QED
      BY <1>3, <3>1, <3>2 DEF Alike
  <2> QED
    BY <2>3, <2>4, <2>5 DEF exx
<1> QED
  BY <1>9, <1>10, <1>11

-----------------------------------------------------------------------------
(* The end of a statement                                                   *)

\* What is known of versions stays known when the file grows.
Prefix(f, g) == DOMAIN f \subseteq DOMAIN g /\ \A i \in DOMAIN f : g[i] = f[i]

LEMMA PrefixOwn ==
  ASSUME NEW d, NEW f, NEW g, NEW t, Prefix(f, g), Own(d, f, t)
  PROVE  Own(d, g, t)
<1>1. UniqueIn(g, t.view)
  BY DEF Prefix, Own, UniqueIn
<1>2. KeysRead(g, t)
  BY DEF Prefix, Own, KeysRead
<1> QED
  BY <1>1, <1>2 DEF Prefix, Own

LEMMA PrefixRefers ==
  ASSUME NEW d, NEW f, NEW g, NEW t, NEW v, Prefix(f, g), Own(d, f, t), Refers(d, f, t, v)
  PROVE  Refers(d, g, t, v)
<1>1. /\ t.view \subseteq DOMAIN f /\ t.creates \subseteq DOMAIN f
      /\ t.deletes \subseteq DOMAIN f
  BY DEF Own
<1>2. ASSUME NEW o \in DOMAIN f
      PROVE  /\ ParentAt(g, o, v) <=> ParentAt(f, o, v)
             /\ LineAt(g, o, v) <=> LineAt(f, o, v)
  BY DEF Prefix, ParentAt, LineAt
<1>3. HasParent(f, t, v) => HasParent(g, t, v)
  BY <1>1, <1>2 DEF HasParent
<1>4. HasNoLines(f, t, v) => HasNoLines(g, t, v)
  BY <1>1, <1>2 DEF HasNoLines
<1>5. DeletedLine(d, f, t, v) => DeletedLine(d, g, t, v)
  BY <1>1, <1>2 DEF DeletedLine
<1>6. (\E o \in t.creates \ t.deletes : LineAt(g, o, v)) =>
        \E o \in t.creates \ t.deletes : LineAt(f, o, v)
  BY <1>1, <1>2
<1>7. (\E p \in t.deletes : ParentAt(g, p, v)) => \E p \in t.deletes : ParentAt(f, p, v)
  BY <1>1, <1>2
<1> QED
  BY <1>3, <1>4, <1>5, <1>6, <1>7 DEF Refers

LEMMA PrefixFirm ==
  ASSUME NEW d, NEW f, NEW g, NEW v, Prefix(f, g), d \subseteq DOMAIN f, Firm(d, f, v)
  PROVE  Firm(d, g, v)
BY DEF Prefix, Firm, ParentAt, LineAt

\* the ids and the known gaps that loose may have
Gaps == Ids \X {"failure", "trigger", "index"}

LEMMA DoneKeeps ==
  ASSUME FInv, NEW c \in DOMAIN txn, NEW s, Base(c, s), Done(c, s), done < MaxDone,
         loose \subseteq loose', loose' \subseteq Gaps,
         fkey => \A v \in Ids \ Exempt' : Refers(db, s.file, s.t, v)
  PROVE  FInv'
<1>1. /\ s \in States /\ s.file \in Seq(Records) /\ s.t \in TxnType
      /\ Len(s.file) \in Nat /\ DOMAIN s.file = 1 .. Len(s.file)
  BY StateTypes DEF Base
<1>2. file \in Seq(Records) /\ DOMAIN file = 1 .. Len(file) /\ Len(file) \in Nat
  BY LenProperties DEF FInv, TypeOK
<1>3. Prefix(file, s.file)
  BY <1>1, <1>2 DEF Base, Prefix
<1>4. /\ file' = s.file /\ db' = db /\ fkey' = fkey /\ mode' = mode /\ done' = done + 1
      /\ DOMAIN txn' = DOMAIN txn
      /\ txn'[c] = s.t /\ \A u \in DOMAIN txn \ {c} : txn'[u] = txn[u]
  BY DEF Done
<1>5. ASSUME NEW u \in DOMAIN txn
      PROVE  txn'[u] \in TxnType /\ Own(db, s.file, txn'[u])
  <2>1. CASE u = c
    BY <1>1, <1>4, <2>1 DEF Base
  <2>2. CASE u # c
    <3>1. txn[u] \in TxnType /\ Own(db, file, txn[u])
      BY DEF FInv
    <3> QED
      BY <1>3, <1>4, <2>2, <3>1, PrefixOwn
  <2> QED
    BY <2>1, <2>2
<1>6. ASSUME NEW u \in DOMAIN txn PROVE Apart(u, txn[u])'
  <2> SUFFICES ASSUME NEW w \in DOMAIN txn \ {u}
               PROVE  /\ txn'[u].creates \cap txn'[w].creates = {}
                      /\ txn'[u].deletes \cap txn'[w].deletes = {}
    BY <1>4 DEF Apart
  <2>1. CASE u = c
    BY <1>4, <2>1 DEF Base, Apart
  <2>2. CASE w = c
    BY <1>4, <2>2 DEF Base, Apart
  <2>3. CASE u # c /\ w # c
    BY <1>4, <2>3 DEF FInv, Apart
  <2> QED
    BY <2>1, <2>2, <2>3
<1>7. UniqueIn(s.file, db)
  BY <1>3 DEF FInv, TypeOK, Prefix, UniqueIn
<1>8. TypeOK'
  <2>1. ASSUME NEW u \in DOMAIN txn
        PROVE  /\ txn'[u].view \cup txn'[u].since \subseteq DOMAIN s.file
               /\ txn'[u].creates \cap db = {}
               /\ txn'[u].view \cap txn'[u].deletes = {}
               /\ txn'[u].conflict \in BOOLEAN
    BY <1>5 DEF Own, ViewFits, TxnType
  <2>2. db \subseteq DOMAIN s.file
    BY <1>3 DEF FInv, TypeOK, Prefix
  <2>3. done + 1 \in 0 .. MaxDone
    BY BoundsAssumption DEF FInv, TypeOK
  <2>4. DOMAIN txn \subseteq Trans /\ fkey \in BOOLEAN /\ mode \in Modes
    BY DEF FInv, TypeOK
  <2> QED
    BY <1>1, <1>4, <2>1, <2>2, <2>3, <2>4 DEF TypeOK, Gaps
<1>9. ASSUME fkey, NEW v \in Ids \ Exempt'
      PROVE  /\ Firm(db, s.file, v)
             /\ \A u \in DOMAIN txn : Refers(db, s.file, txn'[u], v)
  <2>1. v \in Ids \ Exempt
    BY <1>9 DEF Exempt
  <2>2. Firm(db, file, v) /\ db \subseteq DOMAIN file
    BY <1>9, <2>1 DEF FInv, TypeOK
  <2>3. Firm(db, s.file, v)
    BY <1>3, <2>2, PrefixFirm
  <2>4. ASSUME NEW u \in DOMAIN txn PROVE Refers(db, s.file, txn'[u], v)
    <3>1. CASE u = c
      BY <1>4, <1>9, <3>1
    <3>2. CASE u # c
      <4>1. Own(db, file, txn[u]) /\ Refers(db, file, txn[u], v)
        BY <1>9, <2>1 DEF FInv
      <4> QED
        BY <1>3, <1>4, <3>2, <4>1, PrefixRefers
    <3> QED
      BY <3>1, <3>2
  <2> QED
    BY <2>3, <2>4
<1> QED
  BY <1>4, <1>5, <1>6, <1>7, <1>8, <1>9 DEF FInv

LEMMA DoneGood ==
  ASSUME FInv, NEW c \in DOMAIN txn, NEW s, Good(c, s, Exempt), Done(c, s),
         done < MaxDone, UNCHANGED loose
  PROVE  FInv'
<1>1. Exempt' = Exempt /\ loose \subseteq loose' /\ loose' \subseteq Gaps
  BY DEF Exempt, FInv, TypeOK, Gaps
<1>2. Base(c, s) /\ (fkey => \A v \in Ids \ Exempt' : Refers(db, s.file, s.t, v))
  BY <1>1 DEF Good
<1> QED
  BY <1>1, <1>2, DoneKeeps

-----------------------------------------------------------------------------
(* The statements                                                           *)

LEMMA CanGoIs ==
  ASSUME NEW c, CanGo(c)
  PROVE  c \in DOMAIN txn /\ done < MaxDone
BY DEF CanGo, Active

LEMMA AddKeeps ==
  ASSUME FInv, NEW c, NEW r \in Records, NEW ev \in EventType, Add(c, r, ev)
  PROVE  FInv'
<1> DEFINE s == Going(c, {})
           checked == IF r.tbl = "lines" THEN Referring(s, r.pid) ELSE s
           entered == IF checked.failed THEN checked ELSE Entered(checked, r)
           at == r[KeysOf(r.tbl)[1]]
           x == Triggered(c, entered, at, ev)
<1>1. c \in DOMAIN txn /\ done < MaxDone /\ Done(c, x) /\ UNCHANGED loose
  BY CanGoIs DEF Add
<1>2. Good(c, s, Exempt) /\ ~ s.failed
  BY <1>1, GoingGood
<1> HIDE DEF s
<1>3. s \in States /\ s.t.view \subseteq DOMAIN s.file
  BY <1>2 DEF Good, Base, Own
<1>4. /\ Good(c, checked, Exempt)
      /\ ~ checked.failed /\ fkey /\ r.tbl = "lines" /\ r.pid # EMPTY =>
           HasParent(checked.file, checked.t, r.pid)
  <2>1. CASE r.tbl = "lines"
    <3>1. checked = Referring(s, r.pid) /\ r.pid \in Ids \cup {EMPTY}
      BY <2>1, RecordFacts
    <3> HIDE DEF checked
    <3>2. /\ Alike(s, checked)
          /\ ~ checked.failed /\ fkey /\ r.pid # EMPTY =>
               HasParent(checked.file, checked.t, r.pid)
      BY <1>2, <1>3, <3>1, ReferringIs
    <3> QED
      BY <1>2, <3>2, AlikeGood
  <2>2. CASE r.tbl # "lines"
    BY <1>2, <2>2
  <2> QED
    BY <2>1, <2>2
<1> HIDE DEF checked
<1>5. Good(c, entered, Exempt)
  <2>1. CASE checked.failed
    BY <1>4, <2>1
  <2>2. CASE ~ checked.failed
    <3>1. fkey /\ r.tbl = "lines" => \A v \in Ids \ Exempt : r.pid = v =>
            HasParent(checked.file, checked.t, v)
      BY <1>4, <2>2, EmptyAssumption
    <3> QED
      BY <1>1, <1>4, <2>2, <3>1, EnteredGood
  <2> QED
    BY <2>1, <2>2
<1> HIDE DEF entered
<1>6. at # EMPTY
  <2>1. CASE r.tbl = "parents"
    <3>1. at = r.id
      BY <2>1 DEF KeysOf
    <3> QED
      BY <2>1, <3>1, RecordFacts, EmptyAssumption
  <2>2. CASE r.tbl = "lines"
    <3>1. at = r.no
      BY <2>2 DEF KeysOf
    <3> QED
      BY <2>2, <3>1, RecordFacts, EmptyAssumption
  <2> QED
    BY <2>1, <2>2, RecordFacts
<1> HIDE DEF at
<1>7. Good(c, x, Exempt)
  BY <1>1, <1>5, <1>6, TriggeredGood
<1> HIDE DEF x
<1> QED
  BY <1>1, <1>7, DoneGood

LEMMA FileTypes ==
  ASSUME FInv, NEW c \in DOMAIN txn, NEW o \in txn[c].view
  PROVE  o \in DOMAIN file /\ file[o] \in Records
BY LenProperties, ElementOfSeq DEF FInv, TypeOK

LEMMA RemoveLineKeeps ==
  ASSUME FInv, NEW c, NEW o, NEW ev \in EventType, RemoveLine(c, o, ev)
  PROVE  FInv'
<1> DEFINE s == Going(c, {<<"no", file[o].no>>})
           x == LineRemoved(c, s, o, ev)
<1>1. /\ c \in DOMAIN txn /\ done < MaxDone /\ Done(c, x) /\ UNCHANGED loose
      /\ o \in txn[c].view /\ file[o].tbl = "lines"
  BY CanGoIs DEF RemoveLine
<1>2. {<<"no", file[o].no>>} \subseteq Indexes \X Values
  BY <1>1, FileTypes, RecordFacts DEF Indexes, Values
<1>3. /\ Good(c, s, Exempt) /\ ~ s.failed
      /\ o \in s.t.view /\ s.file[o].tbl = "lines"
  BY <1>1, <1>2, GoingGood
<1> HIDE DEF s
<1>4. Good(c, x, Exempt)
  BY <1>1, <1>3, LineRemovedIs
<1> HIDE DEF x
<1> QED
  BY <1>1, <1>4, DoneGood

LEMMA UpdateLineKeeps ==
  ASSUME FInv, NEW c, NEW o, NEW pid \in Ids \cup {EMPTY}, NEW ev \in EventType,
         UpdateLine(c, o, pid, ev)
  PROVE  FInv'
<1> DEFINE s == Going(c, {<<"no", file[o].no>>})
           y == IF pid = file[o].pid THEN s ELSE Referring(s, pid)
           x == IF y.failed THEN y ELSE LineMoved(c, y, o, pid, ev)
<1>1. /\ c \in DOMAIN txn /\ done < MaxDone /\ Done(c, x) /\ UNCHANGED loose
      /\ o \in txn[c].view /\ file[o].tbl = "lines"
  BY CanGoIs DEF UpdateLine
<1>2. {<<"no", file[o].no>>} \subseteq Indexes \X Values
  BY <1>1, FileTypes, RecordFacts DEF Indexes, Values
<1>3. /\ Good(c, s, Exempt) /\ ~ s.failed
      /\ o \in s.t.view /\ s.file = file
  BY <1>1, <1>2, GoingGood
<1> HIDE DEF s
<1>4. s \in States /\ s.t.view \subseteq DOMAIN s.file
  BY <1>3 DEF Good, Base, Own
<1>5. /\ Alike(s, y)
      /\ ~ y.failed => MayMove(y, o, pid, Exempt)
  <2>1. CASE pid = file[o].pid
    <3>1. y = s
      BY <2>1
    <3> QED
      BY <1>1, <1>3, <1>4, <2>1, <3>1, AlikeSelf DEF MayMove, LineAt
  <2>2. CASE pid # file[o].pid
    <3>1. y = Referring(s, pid)
      BY <2>2
    <3> HIDE DEF y
    <3>2. /\ Alike(s, y)
          /\ ~ y.failed /\ fkey /\ pid # EMPTY => HasParent(y.file, y.t, pid)
      BY <1>3, <1>4, <3>1, ReferringIs
    <3> QED
      BY <3>2, EmptyAssumption DEF MayMove
  <2> QED
    BY <2>1, <2>2
<1> HIDE DEF y
<1>6. Good(c, y, Exempt) /\ o \in y.t.view /\ y.file[o].tbl = "lines"
  BY <1>1, <1>3, <1>5, AlikeGood DEF Alike
<1>7. Good(c, x, Exempt)
  BY <1>1, <1>5, <1>6, LineMovedIs
<1> HIDE DEF x
<1> QED
  BY <1>1, <1>7, DoneGood

LEMMA RemoveParentKeeps ==
  ASSUME FInv, NEW c, NEW o, NEW ev \in EventType, RemoveParent(c, o, ev)
  PROVE  FInv'
<1> DEFINE id == file[o].id
           s == Going(c, {<<"id", id>>})
           free == Dereferring(c, s, id, EMPTY, ev)
           y == DeleteAct(c, free, o)
           x == Triggered(c, y, id, ev)
<1>1. /\ c \in DOMAIN txn /\ done < MaxDone /\ UNCHANGED loose
      /\ Done(c, IF free.failed THEN free ELSE x)
      /\ o \in txn[c].view /\ file[o].tbl = "parents"
  BY CanGoIs DEF RemoveParent
<1>2. id \in Ids /\ id # EMPTY /\ {<<"id", id>>} \subseteq Indexes \X Values
  BY <1>1, FileTypes, RecordFacts, EmptyAssumption DEF Indexes, Values
<1>3. /\ Good(c, s, Exempt) /\ ~ s.failed
      /\ o \in s.t.view /\ s.file = file
  BY <1>1, <1>2, GoingGood
<1> HIDE DEF s
<1>4. /\ Good(c, free, Exempt)
      /\ o \in free.t.view /\ free.file[o] = file[o]
      /\ ~ free.failed /\ fkey =>
           /\ <<"pid", id>> \in free.t.reads
           /\ \A q \in free.t.view : LineAt(free.file, q, id) => MaxFile < q
  <2>1. CASE ~ fkey
    <3>1. free = s
      BY <2>1 DEF Dereferring
    <3> QED
      BY <1>3, <2>1, <3>1
  <2>2. CASE fkey
    <3>1. free = Dereferring(c, s, id, EMPTY, ev) /\ EMPTY \in Ids \cup {EMPTY}
      OBVIOUS
    <3> HIDE DEF free, id
    <3>2. /\ Good(c, free, Exempt \cup {EMPTY})
          /\ Onward(s, free)
          /\ ~ free.failed =>
               /\ <<"pid", id>> \in free.t.reads
               /\ \A q \in free.t.view : LineAt(free.file, q, id) => MaxFile < q
      BY <1>1, <1>2, <1>3, <2>2, <3>1, DereferringIs
    <3>3. Ids \ (Exempt \cup {EMPTY}) = Ids \ Exempt
      BY EmptyAssumption
    <3>4. Good(c, free, Exempt)
      BY <3>2, <3>3 DEF Good
    <3>5. o \in free.t.view /\ free.file[o] = file[o]
      BY <1>1, <1>3, <3>2 DEF Onward, Good, Base, Own
    <3> QED
      BY <3>2, <3>4, <3>5
  <2> QED
    BY <2>1, <2>2
<1> HIDE DEF free
<1>5. CASE free.failed
  BY <1>1, <1>4, <1>5, DoneGood
<1>6. CASE ~ free.failed
  <2>1. Base(c, free) /\ free \in States
    BY <1>4 DEF Good, Base
  <2>2. Done(c, x)
    BY <1>1, <1>6
  <2>3. \/ Alike(free, y)
        \/ DroppedIn(c, free, o, y)
    BY <1>4, <1>6, <2>1, DeleteActIs
  <2> HIDE DEF y
  <2>4. Good(c, y, Exempt)
    <3>1. CASE Alike(free, y)
      BY <1>4, <3>1, AlikeGood
    <3>2. CASE DroppedIn(c, free, o, y)
      <4>1. Base(c, y)
        BY <1>1, <1>4, <2>1, <3>2, DropBase
      <4>2. Good(c, y, Ids)
        BY <4>1 DEF Good
      <4>3. Onward(y, x) /\ Good(c, x, Ids)
        BY <1>1, <1>2, <4>2, TriggeredGood
      <4>4. y \in States /\ x \in States
        BY <4>1, <4>3 DEF Good, Base
      <4> HIDE DEF x
      <4>5. Len(free.file) <= MaxFile
        <5>1. Len(x.file) <= MaxFile /\ Len(y.file) <= Len(x.file) /\ y.file = free.file
          BY <2>2, <3>2, <4>3 DEF Done, Onward, DroppedIn
        <5> QED
          BY <4>4, <5>1, StateTypes, BoundsAssumption
      <4>6. fkey => HasNoLines(free.file, free.t, id)
        <5>1. \A q \in free.t.view : q <= MaxFile
          BY <2>1, <4>5, StateTypes, BoundsAssumption DEF Base, Own
        <5>2. free.t.view \subseteq Nat
          BY <2>1 DEF States, TxnType
        <5> QED
          BY <1>4, <1>6, <5>1, <5>2, BoundsAssumption DEF HasNoLines
      <4>7. ASSUME fkey, NEW v \in Ids \ Exempt PROVE Refers(db, y.file, y.t, v)
        <5>1. Refers(db, free.file, free.t, v)
          BY <1>4, <4>7 DEF Good
        <5>2. ParentAt(free.file, o, v) => v = id
          BY <1>4 DEF ParentAt
        <5> QED
          BY <1>1, <1>4, <2>1, <3>2, <4>6, <4>7, <5>1, <5>2, DropParentRefers
      <4> QED
        BY <4>1, <4>7 DEF Good
    <3> QED
      BY <2>3, <3>1, <3>2
  <2>5. Good(c, x, Exempt)
    BY <1>1, <1>2, <2>4, TriggeredGood
  <2> HIDE DEF x
  <2> QED
    BY <1>1, <2>2, <2>5, DoneGood
<1> QED
  BY <1>5, <1>6

\* The lines with pid id that are in view in x a trigger has rewritten since s.
OnlyRewritten(s, x, id, ev) ==
  \A q \in x.t.view : LineAt(x.file, q, id) => Len(s.file) < q /\ ev.does = "rewrite"

LEMMA DereferringMoves ==
  ASSUME FInv, NEW c \in DOMAIN txn, NEW s, NEW ex, Good(c, s, ex), ~ s.failed, fkey,
         NEW id \in Ids, NEW new \in Ids, new # id, NEW ev \in EventType,
         NEW x, x = Dereferring(c, s, id, new, ev)
  PROVE  /\ Good(c, x, ex \cup {new})
         /\ Onward(s, x)
         /\ Alike(s, x) \/ Len(s.file) < Len(x.file)
         /\ ~ x.failed =>
              /\ <<"pid", id>> \in x.t.reads
              /\ OnlyRewritten(s, x, id, ev)
<1>1. new \in Ids \cup {EMPTY} /\ new # EMPTY
  BY EmptyAssumption
<1> QED
  BY <1>1, DereferringIs DEF OnlyRewritten

LinesFollow(c, s, old, id, ev, moved) ==
  moved = IF id = old THEN s ELSE Dereferring(c, s, old, id, ev)

\* The id of a parent changes from old, and with it the pid of its lines, in
\* moved.  Of the old id then nothing remains, or a trigger has rewritten some.
LEMMA ParentMoved ==
  ASSUME FInv, NEW c \in DOMAIN txn, NEW s, NEW ex, Good(c, s, ex), ~ s.failed,
         NEW old \in Ids, NEW next \in Ids, NEW ev \in EventType,
         NEW moved, LinesFollow(c, s, old, next, ev, moved)
  PROVE  /\ Base(c, moved)
         /\ Onward(s, moved)
         /\ fkey => \A v \in Ids \ ex :
              \/ Refers(db, moved.file, moved.t, v)
              \/ v = next /\ next # old /\ Len(moved.file) > Len(s.file)
         /\ fkey /\ ~ moved.failed /\ next # old =>
              \/ HasNoLines(moved.file, moved.t, old)
              \/ /\ Len(moved.file) > Len(s.file) /\ ev.does = "rewrite"
                 /\ \E q \in moved.t.view : LineAt(moved.file, q, old)
<1>1. s \in States /\ s.t.view \subseteq DOMAIN s.file /\ Base(c, s)
  BY DEF Good, Base, Own
<1>2. Alike(s, s) /\ Onward(s, s)
  BY <1>1, AlikeSelf, AlikeOnward
<1>3. CASE next = old \/ ~ fkey
  <2>1. moved = s
    BY <1>3 DEF LinesFollow, Dereferring
  <2> QED
    BY <1>1, <1>2, <1>3, <2>1 DEF Good
<1>4. CASE next # old /\ fkey
  <2>1. moved = Dereferring(c, s, old, next, ev)
    BY <1>4 DEF LinesFollow
  <2>2. /\ Good(c, moved, ex \cup {next})
        /\ Onward(s, moved)
        /\ Alike(s, moved) \/ Len(s.file) < Len(moved.file)
        /\ ~ moved.failed =>
             <<"pid", old>> \in moved.t.reads /\ OnlyRewritten(s, moved, old, ev)
    BY <1>4, <2>1, DereferringMoves
  <2>3. Base(c, moved) /\ moved \in States
    BY <2>2 DEF Good, Base
  <2>4. ASSUME NEW v \in Ids \ ex
        PROVE  Refers(db, moved.file, moved.t, v) \/ (v = next /\ Len(s.file) < Len(moved.file))
    <3>1. CASE v # next
      BY <1>4, <2>2, <2>4, <3>1 DEF Good
    <3>2. CASE Alike(s, moved)
      <4>1. Good(c, moved, ex)
        BY <3>2, AlikeGood
      <4> QED
        BY <1>4, <2>4, <4>1 DEF Good
    <3> QED
      BY <2>2, <3>1, <3>2
  <2>5. ASSUME ~ moved.failed
        PROVE  \/ HasNoLines(moved.file, moved.t, old)
               \/ /\ Len(s.file) < Len(moved.file) /\ ev.does = "rewrite"
                  /\ \E q \in moved.t.view : LineAt(moved.file, q, old)
    <3> SUFFICES ASSUME ~ HasNoLines(moved.file, moved.t, old)
                 PROVE  /\ Len(s.file) < Len(moved.file) /\ ev.does = "rewrite"
                        /\ \E q \in moved.t.view : LineAt(moved.file, q, old)
      OBVIOUS
    <3>1. PICK q \in moved.t.view : LineAt(moved.file, q, old)
      BY <2>2, <2>5 DEF HasNoLines
    <3>2. Len(s.file) < q /\ ev.does = "rewrite"
      BY <2>2, <2>5, <3>1 DEF OnlyRewritten
    <3>3. q \in 1 .. Len(moved.file) /\ Len(moved.file) \in Nat /\ Len(s.file) \in Nat
      BY <1>1, <2>3, <3>1, StateTypes DEF Base, Own
    <3> QED
      BY <3>1, <3>2, <3>3
  <2>6. Len(s.file) < Len(moved.file) => Len(moved.file) > Len(s.file)
    BY <1>1, <2>3, StateTypes
  <2> QED
    BY <1>4, <2>2, <2>3, <2>4, <2>5, <2>6
<1> QED
  BY <1>3, <1>4

\* Where there were lines with a pid there still are some.
LinesRemain(s, x) ==
  \A v : (\E q \in s.t.view : LineAt(s.file, q, v)) =>
            \E q \in x.t.view : LineAt(x.file, q, v)

\* The parent o may get id, which the lines in view then refer to.
MayReplace(s, o, id, ex) ==
  fkey => /\ \A v \in Ids \ ex : v = id \/ Refers(db, s.file, s.t, v)
          /\ id # s.file[o].id =>
               s.file[o].id \in ex \/ HasNoLines(s.file, s.t, s.file[o].id)

LEMMA ParentReplaced ==
  ASSUME FInv, NEW c \in DOMAIN txn, NEW s, Base(c, s), ~ s.failed,
         NEW o \in s.t.view, s.file[o].tbl = "parents",
         NEW r \in Records, r.tbl = "parents", NEW x, x = Replaced(c, s, o, r),
         NEW ex, MayReplace(s, o, r.id, ex)
  PROVE  \/ x.failed /\ Alike(s, x)
         \/ ~ x.failed /\ Good(c, x, ex) /\ LinesRemain(s, x)
<1>1. s \in States /\ o \notin s.t.deletes /\ s.t.view \subseteq DOMAIN s.file
  BY DEF Base, Own, ViewFits
<1>2. \/ x.failed /\ Alike(s, x)
      \/ ~ x.failed /\ Rewritten(c, s, o, r, x)
  BY <1>1, ReplacedIs
<1>3. CASE ~ x.failed /\ Rewritten(c, s, o, r, x)
  <2>1. PICK y \in States : DroppedIn(c, s, o, y) /\ PutIn(y, r, x)
    BY <1>3 DEF Rewritten
  <2>2. Base(c, y)
    BY <2>1, DropBase
  <2>3. Base(c, x)
    BY <2>1, <2>2, PutBase
  <2>4. ASSUME fkey, NEW v \in Ids \ ex PROVE Refers(db, x.file, x.t, v)
    <3>1. CASE v = r.id
      BY <2>1, <2>2, <3>1, PutParentRefers
    <3>2. CASE v # r.id
      <4>1. Refers(db, s.file, s.t, v)
        BY <2>4, <3>2 DEF MayReplace
      <4>2. ParentAt(s.file, o, v) => HasNoLines(s.file, s.t, v)
        BY <2>4, <3>2 DEF ParentAt, MayReplace
      <4>3. Refers(db, y.file, y.t, v)
        BY <2>1, <4>1, <4>2, DropParentRefers
      <4> QED
        BY <2>1, <2>2, <4>3, PutParentRefers
    <3> QED
      BY <3>1, <3>2
  <2>5. Good(c, x, ex)
    BY <2>3, <2>4 DEF Good
  <2>6. ASSUME NEW v, NEW q \in s.t.view, LineAt(s.file, q, v)
        PROVE  \E p \in x.t.view : LineAt(x.file, p, v)
    <3>1. q \in y.t.view /\ y.file = s.file
      BY <2>1, <2>6 DEF DroppedIn, LineAt
    <3>2. q \in x.t.view /\ x.file = Append(s.file, r)
      BY <2>1, <3>1 DEF PutIn
    <3>3. x.file[q] = s.file[q]
      BY <1>1, <3>2, StateTypes, AppendRecord
    <3> QED
      BY <2>6, <3>2, <3>3 DEF LineAt
  <2> QED
    BY <1>3, <2>5, <2>6 DEF LinesRemain
<1> QED
  BY <1>2, <1>3

LEMMA UpdateParentKeeps ==
  ASSUME FInv, NEW c, NEW o, NEW id \in Ids, NEW name \in Names, NEW ev \in EventType,
         UpdateParent(c, o, id, name, ev)
  PROVE  FInv'
<1> DEFINE old == file[o].id
           s == Going(c, {<<"id", old>>})
           moved == IF id = old THEN s ELSE Dereferring(c, s, old, id, ev)
           r == Parent(id, name)
           y == Replaced(c, moved, o, r)
           ended == IF moved.failed THEN moved ELSE Triggered(c, y, id, ev)
           cascaded == id # old /\ Len(moved.file) > Len(file)
           gaps == (IF cascaded /\ ended.failed THEN {<<id, "failure">>} ELSE {}) \cup
                   (IF cascaded /\ ev.does = "rewrite" /\ Sees(ended, "pid", old) # {}
                    THEN {<<old, "trigger">>} ELSE {})
<1>1. /\ c \in DOMAIN txn /\ done < MaxDone /\ Done(c, ended) /\ loose' = loose \cup gaps
      /\ o \in txn[c].view /\ file[o].tbl = "parents"
  BY CanGoIs DEF UpdateParent
<1>2. old \in Ids /\ id # EMPTY /\ {<<"id", old>>} \subseteq Indexes \X Values
  BY <1>1, FileTypes, RecordFacts, EmptyAssumption DEF Indexes, Values
<1>3. r \in Records /\ r.tbl = "parents" /\ r.id = id
  BY DEF Records, Parent
<1>4. PICK ex : ex = Exempt'
  OBVIOUS
<1>5. /\ loose \subseteq loose' /\ loose' \subseteq Gaps
      /\ Exempt \subseteq ex
      /\ cascaded /\ ended.failed => id \in ex
      /\ cascaded /\ ev.does = "rewrite" /\ Sees(ended, "pid", old) # {} => old \in ex
  <2> HIDE DEF moved, ended, old, cascaded
  <2>1. gaps \subseteq Gaps
    BY <1>2 DEF Gaps
  <2>2. loose \subseteq Gaps
    BY DEF FInv, TypeOK, Gaps
  <2>3. cascaded /\ ended.failed => <<id, "failure">> \in loose'
    BY <1>1
  <2>4. cascaded /\ ev.does = "rewrite" /\ Sees(ended, "pid", old) # {} =>
          <<old, "trigger">> \in loose'
    BY <1>1
  <2>5. loose \subseteq loose' /\ loose' \subseteq Gaps
    BY <1>1, <2>1, <2>2
  <2> HIDE DEF gaps
  <2> QED
    BY <1>2, <1>4, <2>3, <2>4, <2>5 DEF Exempt
<1> HIDE DEF gaps
<1>6. /\ Good(c, s, Exempt) /\ ~ s.failed
      /\ o \in s.t.view /\ s.file = file
  BY <1>1, <1>2, GoingGood
<1> HIDE DEF s
<1>7. LinesFollow(c, s, old, id, ev, moved)
  BY DEF LinesFollow
<1> HIDE DEF moved
<1>8. Base(c, s) /\ o \in s.t.view /\ s.t.view \subseteq DOMAIN s.file
  BY <1>6 DEF Good, Base, Own
<1> HIDE DEF old
<1>9. /\ Base(c, moved)
      /\ Onward(s, moved)
      /\ fkey => \A v \in Ids \ Exempt :
           \/ Refers(db, moved.file, moved.t, v)
           \/ v = id /\ cascaded
      /\ fkey /\ ~ moved.failed /\ id # old =>
           \/ HasNoLines(moved.file, moved.t, old)
           \/ /\ cascaded /\ ev.does = "rewrite"
              /\ \E q \in moved.t.view : LineAt(moved.file, q, old)
  <2>1. /\ Base(c, moved)
        /\ Onward(s, moved)
        /\ fkey => \A v \in Ids \ Exempt :
             \/ Refers(db, moved.file, moved.t, v)
             \/ v = id /\ id # old /\ Len(moved.file) > Len(s.file)
        /\ fkey /\ ~ moved.failed /\ id # old =>
             \/ HasNoLines(moved.file, moved.t, old)
             \/ /\ Len(moved.file) > Len(s.file) /\ ev.does = "rewrite"
                /\ \E q \in moved.t.view : LineAt(moved.file, q, old)
    BY <1>1, <1>2, <1>6, <1>7, ParentMoved
  <2> QED
    BY <1>6, <2>1
<1>10. o \in moved.t.view /\ moved.file[o] = file[o]
  BY <1>1, <1>6, <1>8, <1>9 DEF Onward
<1>11. CASE moved.failed
  <2>1. ended = moved
    BY <1>11
  <2>2. fkey => \A v \in Ids \ ex : Refers(db, moved.file, moved.t, v)
    BY <1>5, <1>9, <1>11, <2>1
  <2> QED
    BY <1>1, <1>4, <1>5, <1>9, <2>1, <2>2, DoneKeeps
<1>12. CASE ~ moved.failed
  <2>1. ended = Triggered(c, y, id, ev)
    BY <1>12
  <2>2. y = Replaced(c, moved, o, r) /\ old = moved.file[o].id /\ moved.file[o].tbl = "parents"
    BY <1>1, <1>10 DEF old
  <2> HIDE DEF y, r, ended
  <2>3. \/ y.failed /\ Alike(moved, y)
        \/ ~ y.failed /\ Good(c, y, Ids) /\ LinesRemain(moved, y)
    <3>1. MayReplace(moved, o, r.id, Ids)
      BY <1>2, <2>2 DEF MayReplace
    <3> QED
      BY <1>1, <1>3, <1>9, <1>10, <1>12, <2>2, <3>1, ParentReplaced
  <2>4. CASE y.failed
    <3>1. Alike(moved, y) /\ ended = y
      BY <2>1, <2>3, <2>4 DEF Triggered
    <3>2. fkey => \A v \in Ids \ ex : Refers(db, moved.file, moved.t, v)
      BY <1>5, <1>9, <2>4, <3>1
    <3>3. Good(c, y, ex)
      <4>1. Good(c, moved, ex)
        BY <1>9, <3>2 DEF Good
      <4> QED
        BY <3>1, <4>1, AlikeGood
    <3>4. Base(c, ended) /\ (fkey => \A v \in Ids \ ex : Refers(db, ended.file, ended.t, v))
      BY <3>1, <3>3 DEF Good
    <3> QED
      BY <1>1, <1>4, <1>5, <3>4, DoneKeeps
  <2>5. CASE ~ y.failed
    <3>1. Good(c, ended, Ids) /\ LinesRemain(y, ended)
      BY <1>1, <1>2, <2>1, <2>3, <2>5, TriggeredGood DEF LinesRemain
    <3>2. fkey /\ id # old => old \in ex \/ HasNoLines(moved.file, moved.t, old)
      <4> SUFFICES ASSUME fkey, id # old, ~ HasNoLines(moved.file, moved.t, old)
                   PROVE  old \in ex
        OBVIOUS
      <4>1. /\ cascaded /\ ev.does = "rewrite"
            /\ \E q \in moved.t.view : LineAt(moved.file, q, old)
        BY <1>9, <1>12
      <4>2. \E q \in ended.t.view : LineAt(ended.file, q, old)
        BY <2>3, <2>5, <3>1, <4>1 DEF LinesRemain
      <4>3. ended \in States /\ ended.t.view \subseteq DOMAIN ended.file
        BY <3>1 DEF Good, Base, Own
      <4>4. Sees(ended, "pid", old) # {}
        BY <4>2, <4>3, SeesAre
      <4> QED
        BY <1>5, <4>1, <4>4
    <3>3. fkey => \A v \in Ids \ ex : v = r.id \/ Refers(db, moved.file, moved.t, v)
      BY <1>3, <1>5, <1>9
    <3>4. Good(c, y, ex)
      <4>1. MayReplace(moved, o, r.id, ex)
        BY <1>3, <2>2, <3>2, <3>3 DEF MayReplace
      <4> QED
        BY <1>1, <1>3, <1>9, <1>10, <1>12, <2>2, <2>5, <4>1, ParentReplaced
    <3>5. Good(c, ended, ex)
      BY <1>1, <1>2, <2>1, <3>4, TriggeredGood
    <3>6. Base(c, ended) /\ (fkey => \A v \in Ids \ ex : Refers(db, ended.file, ended.t, v))
      BY <3>5 DEF Good
    <3> QED
      BY <1>1, <1>4, <1>5, <3>6, DoneKeeps
  <2> QED
    BY <2>4, <2>5
<1> QED
  BY <1>11, <1>12

LEMMA StatementKeeps ==
  ASSUME FInv, NEW c, Statement(c)
  PROVE  FInv'
<1>1. ASSUME NEW id \in Ids, NEW name \in Names, NEW ev \in Events({id}),
             Add(c, Parent(id, name), ev)
      PROVE  FInv'
  <2>1. Parent(id, name) \in Records
    BY DEF Records, Parent
  <2>2. ev \in EventType
    BY EventsTyped
  <2> QED
    BY <1>1, <2>1, <2>2, AddKeeps
<1>2. ASSUME NEW no \in Nos, NEW pid \in Ids \cup {EMPTY}, NEW ev \in Events({no}),
             Add(c, Line(no, pid), ev)
      PROVE  FInv'
  <2>1. Line(no, pid) \in Records
    BY DEF Records, Line
  <2>2. ev \in EventType
    BY EventsTyped
  <2> QED
    BY <1>2, <2>1, <2>2, AddKeeps
<1>3. ASSUME NEW o, NEW no \in Nos, NEW ev \in Events({no}), RemoveLine(c, o, ev)
      PROVE  FInv'
  <2>1. ev \in EventType
    BY EventsTyped
  <2> QED
    BY <1>3, <2>1, RemoveLineKeeps
<1>4. ASSUME NEW o, NEW no \in Nos, NEW ev \in Events({no}), NEW pid \in Ids \cup {EMPTY},
             UpdateLine(c, o, pid, ev)
      PROVE  FInv'
  <2>1. ev \in EventType
    BY EventsTyped
  <2> QED
    BY <1>4, <2>1, UpdateLineKeeps
<1>5. ASSUME NEW o, NEW ev \in Events(Ids \cup Nos), RemoveParent(c, o, ev)
      PROVE  FInv'
  <2>1. ev \in EventType
    BY EventsTyped
  <2> QED
    BY <1>5, <2>1, RemoveParentKeeps
<1>6. ASSUME NEW o, NEW ev \in Events(Ids \cup Nos), NEW id \in Ids, NEW name \in Names,
             UpdateParent(c, o, id, name, ev)
      PROVE  FInv'
  <2>1. ev \in EventType
    BY EventsTyped
  <2> QED
    BY <1>6, <2>1, UpdateParentKeeps
<1> QED
  BY <1>1, <1>2, <1>3, <1>4, <1>5, <1>6 DEF Statement

-----------------------------------------------------------------------------
(* Transactions                                                             *)

LEMMA BeginKeeps ==
  ASSUME FInv, NEW c \in Trans, Begin(c)
  PROVE  FInv'
<1> DEFINE t0 == [view |-> db, creates |-> {}, deletes |-> {}, reads |-> {},
                  since |-> {}, conflict |-> FALSE]
<1>1. /\ file' = file /\ db' = db /\ fkey' = fkey /\ mode' = mode /\ loose' = loose
      /\ done' = done
      /\ DOMAIN txn' = DOMAIN txn \cup {c} /\ txn'[c] = t0
      /\ \A u \in DOMAIN txn : u # c /\ txn'[u] = txn[u]
  BY DEF Begin
<1>2. file \in Seq(Records) /\ DOMAIN file \subseteq Nat /\ db \subseteq DOMAIN file
  BY LenProperties DEF FInv, TypeOK
<1>3. t0 \in TxnType /\ t0.view = db /\ t0.creates = {} /\ t0.deletes = {} /\ t0.since = {}
  BY <1>2 DEF TxnType
<1> HIDE DEF t0
<1>4. Own(db, file, t0)
  BY <1>2, <1>3 DEF Own, ViewFits, KeysRead, FInv
<1>5. ASSUME NEW v PROVE Refers(db, file, t0, v)
  BY <1>3 DEF Refers
<1>6. ASSUME NEW u \in DOMAIN txn'
      PROVE  txn'[u] \in TxnType /\ Own(db, file, txn'[u])
  BY <1>1, <1>3, <1>4 DEF FInv
<1>7. ASSUME NEW u \in DOMAIN txn' PROVE Apart(u, txn[u])'
  BY <1>1, <1>3 DEF FInv, Apart
<1>8. TypeOK'
  <2>1. ASSUME NEW u \in DOMAIN txn'
        PROVE  /\ txn'[u].view \cup txn'[u].since \subseteq DOMAIN file
               /\ txn'[u].creates \cap db = {}
               /\ txn'[u].view \cap txn'[u].deletes = {}
               /\ txn'[u].conflict \in BOOLEAN
    BY <1>6 DEF Own, ViewFits, TxnType
  <2> QED
    BY <1>1, <2>1 DEF FInv, TypeOK
<1>9. Exempt' = Exempt
  BY <1>1 DEF Exempt
<1>10. ASSUME fkey, NEW v \in Ids \ Exempt
       PROVE  /\ Firm(db, file, v)
              /\ \A u \in DOMAIN txn' : Refers(db, file, txn'[u], v)
  BY <1>1, <1>5, <1>10 DEF FInv
<1>11. UniqueIn(file, db)
  BY DEF FInv
<1> QED
  BY <1>1, <1>6, <1>7, <1>8, <1>9, <1>10, <1>11 DEF FInv

LEMMA AbortKeeps ==
  ASSUME FInv, NEW c, Abort(c)
  PROVE  FInv'
<1>1. /\ file' = file /\ db' = db /\ fkey' = fkey /\ mode' = mode /\ loose' = loose
      /\ done' = done
      /\ DOMAIN txn' = DOMAIN txn \ {c}
      /\ \A u \in DOMAIN txn' : txn'[u] = txn[u]
  BY DEF Abort
<1>2. ASSUME NEW u \in DOMAIN txn'
      PROVE  txn'[u] \in TxnType /\ Own(db, file, txn'[u])
  BY <1>1 DEF FInv
<1>3. ASSUME NEW u \in DOMAIN txn' PROVE Apart(u, txn[u])'
  BY <1>1 DEF FInv, Apart
<1>4. TypeOK'
  BY <1>1 DEF FInv, TypeOK
<1>5. Exempt' = Exempt
  BY <1>1 DEF Exempt
<1>6. ASSUME fkey, NEW v \in Ids \ Exempt
      PROVE  /\ Firm(db, file, v)
             /\ \A u \in DOMAIN txn' : Refers(db, file, txn'[u], v)
  BY <1>1, <1>6 DEF FInv
<1>7. UniqueIn(file, db)
  BY DEF FInv
<1> QED
  BY <1>1, <1>2, <1>3, <1>4, <1>5, <1>6, <1>7 DEF FInv

\* What the committed versions are once a transaction has committed t.
Merged(d, t) == (d \cup t.creates) \ t.deletes

LEMMA ReadsStandFor ==
  ASSUME FInv, NEW t, ReadsStand(t), NEW o \in t.since, o \in DOMAIN file, NEW v
  PROVE  /\ ParentAt(file, o, v) => <<"id", v>> \notin t.reads
         /\ LineAt(file, o, v) => <<"pid", v>> \notin t.reads
         /\ \A k \in {"id", "name", "no"} :
              k \in IndexesOf(file[o]) => <<k, file[o][k]>> \notin t.reads
<1>1. file[o] \in Records
  BY LenProperties, ElementOfSeq DEF FInv, TypeOK
<1>2. /\ ParentAt(file, o, v) => "id" \in IndexesOf(file[o]) /\ file[o]["id"] = v
      /\ LineAt(file, o, v) => "pid" \in IndexesOf(file[o]) /\ file[o]["pid"] = v
  BY <1>1, RecordFacts DEF ParentAt, LineAt
<1> QED
  BY <1>2 DEF ReadsStand

LEMMA MergedUnique ==
  ASSUME FInv, NEW c \in DOMAIN txn, NEW t, t = txn[c], ReadsStand(t)
  PROVE  UniqueIn(file, Merged(db, t))
<1>1. /\ UniqueIn(file, db) /\ UniqueIn(file, t.view) /\ ViewFits(db, t) /\ KeysRead(file, t)
      /\ t.since \subseteq DOMAIN file
  BY DEF FInv, Own
<1>2. ASSUME NEW o \in t.creates \ t.deletes, NEW p \in db \ t.deletes,
             NEW k \in {"id", "name", "no"}, o # p,
             k \in IndexesOf(file[o]) \cap IndexesOf(file[p])
      PROVE  file[o][k] # file[p][k]
  <2>1. CASE p \in t.since
    <3>1. <<k, file[p][k]>> \notin t.reads
      BY <1>1, <1>2, <2>1, ReadsStandFor
    <3>2. <<k, file[o][k]>> \in t.reads
      BY <1>1, <1>2 DEF KeysRead
    <3> QED
      BY <3>1, <3>2
  <2>2. CASE p \notin t.since
    <3>1. o \in t.view /\ p \in t.view
      BY <1>1, <2>2 DEF ViewFits
    <3> QED
      BY <1>1, <1>2, <3>1 DEF UniqueIn
  <2> QED
    BY <2>1, <2>2
<1>3. SUFFICES ASSUME NEW o \in Merged(db, t), NEW p \in Merged(db, t), o # p,
                      NEW k \in {"id", "name", "no"},
                      k \in IndexesOf(file[o]) \cap IndexesOf(file[p])
               PROVE  file[o][k] # file[p][k]
  BY DEF UniqueIn
<1>4. CASE o \in db /\ p \in db
  BY <1>1, <1>3, <1>4 DEF UniqueIn
<1>5. CASE o \in t.creates /\ p \in t.creates
  <2>1. o \in t.view /\ p \in t.view
    BY <1>1, <1>3, <1>5 DEF ViewFits, Merged
  <2> QED
    BY <1>1, <1>3, <2>1 DEF UniqueIn
<1>6. CASE o \in t.creates /\ p \in db
  BY <1>2, <1>3, <1>6 DEF Merged
<1>7. CASE o \in db /\ p \in t.creates
  BY <1>2, <1>3, <1>7 DEF Merged
<1> QED
  BY <1>3, <1>4, <1>5, <1>6, <1>7 DEF Merged

LEMMA MergedFirm ==
  ASSUME FInv, NEW c \in DOMAIN txn, NEW t, t = txn[c], ReadsStand(t),
         fkey, NEW v \in Ids \ Exempt
  PROVE  Firm(Merged(db, t), file, v)
<1>1. /\ ViewFits(db, t) /\ t.since \subseteq DOMAIN file
      /\ Firm(db, file, v) /\ Refers(db, file, t, v)
  BY DEF FInv, Own
<1>2. ASSUME HasParent(file, t, v) PROVE \E p \in Merged(db, t) : ParentAt(file, p, v)
  <2>1. PICK p \in t.view : ParentAt(file, p, v)
    BY <1>2 DEF HasParent
  <2>2. p \notin t.since
    BY <1>1, <1>2, <2>1, ReadsStandFor DEF HasParent
  <2>3. p \in Merged(db, t)
    BY <1>1, <2>1, <2>2 DEF ViewFits, Merged
  <2> QED
    BY <2>1, <2>3
<1>3. SUFFICES ASSUME NEW o \in Merged(db, t), LineAt(file, o, v), ~ HasParent(file, t, v)
               PROVE  \E p \in Merged(db, t) : ParentAt(file, p, v)
  BY <1>2 DEF Firm
<1>4. ~ HasNoLines(file, t, v)
  <2>1. CASE o \in t.view
    BY <1>3, <2>1 DEF HasNoLines
  <2>2. CASE o \notin t.view
    <3>1. o \in t.since
      BY <1>1, <2>2 DEF ViewFits, Merged
    <3> QED
      BY <1>1, <1>3, <3>1, ReadsStandFor DEF HasNoLines
  <2> QED
    BY <2>1, <2>2
<1>5. \A p \in t.deletes : ~ ParentAt(file, p, v)
  BY <1>1, <1>3, <1>4 DEF Refers
<1>6. \E q \in db : LineAt(file, q, v)
  <2>1. CASE o \in db
    BY <1>3, <2>1
  <2>2. CASE o \notin db
    <3>1. o \in t.creates \ t.deletes
      BY <2>2 DEF Merged
    <3>2. DeletedLine(db, file, t, v)
      BY <1>1, <1>3, <3>1 DEF Refers
    <3> QED
      BY <3>2 DEF DeletedLine
  <2> QED
    BY <2>1, <2>2
<1>7. PICK p \in db : ParentAt(file, p, v)
  BY <1>1, <1>6 DEF Firm
<1> QED
  BY <1>5, <1>7 DEF Merged

\* What another transaction commits leaves the parts of the invariant about
\* the transaction t as they are.
LEMMA MergedOwn ==
  ASSUME NEW d, NEW f, NEW a, NEW t, NEW x, Own(d, f, t),
         a.creates \cup a.deletes \subseteq DOMAIN f,
         t.creates \cap a.creates = {}, t.deletes \cap a.deletes = {},
         x.view = t.view, x.creates = t.creates, x.deletes = t.deletes, x.reads = t.reads,
         x.since = t.since \cup (a.creates \cup a.deletes)
  PROVE  /\ Own(Merged(d, a), f, x)
         /\ \A v : Refers(d, f, t, v) => Refers(Merged(d, a), f, x, v)
<1>1. ViewFits(Merged(d, a), x)
  BY DEF Own, ViewFits, Merged
<1>2. KeysRead(f, x)
  BY DEF Own, KeysRead
<1>3. Own(Merged(d, a), f, x)
  BY <1>1, <1>2 DEF Own
<1>4. ASSUME NEW v, Refers(d, f, t, v) PROVE Refers(Merged(d, a), f, x, v)
  <2>1. HasParent(f, t, v) => HasParent(f, x, v)
    BY DEF HasParent
  <2>2. HasNoLines(f, t, v) => HasNoLines(f, x, v)
    BY DEF HasNoLines
  <2>3. DeletedLine(d, f, t, v) => DeletedLine(Merged(d, a), f, x, v)
    BY DEF DeletedLine, Merged
  <2> QED
    BY <1>4, <2>1, <2>2, <2>3 DEF Refers
<1> QED
  BY <1>3, <1>4

LEMMA CommitKeeps ==
  ASSUME FInv, NEW c, Commit(c)
  PROVE  FInv'
<1> DEFINE acts == txn[c].creates \cup txn[c].deletes
           ok == acts = {} \/ ReadsStand(txn[c])
           later(u) == [txn[u] EXCEPT !.since = IF ok THEN @ \cup acts ELSE @]
<1>1. PICK t : t = txn[c]
  OBVIOUS
<1>2. PICK d : d = IF ok THEN Merged(db, t) ELSE db
  OBVIOUS
<1>3. /\ c \in DOMAIN txn
      /\ file' = file /\ db' = d /\ fkey' = fkey /\ mode' = mode /\ loose' = loose
      /\ done' = done
      /\ DOMAIN txn' = DOMAIN txn \ {c}
      /\ \A u \in DOMAIN txn \ {c} : txn'[u] = later(u)
  BY <1>1, <1>2 DEF Commit, Active, Merged
<1>4. /\ t.creates \cup t.deletes \subseteq DOMAIN file
      /\ db \subseteq DOMAIN file /\ DOMAIN file \subseteq Nat
  BY <1>1, <1>3, LenProperties DEF FInv, Own, TypeOK
<1>5. acts = t.creates \cup t.deletes
  BY <1>1
<1> HIDE DEF acts
<1>6. ok => ReadsStand(t) \/ Merged(db, t) = db
  BY <1>1, <1>5 DEF Merged
<1> HIDE DEF ok
<1>7. ASSUME NEW u \in DOMAIN txn \ {c}
      PROVE  /\ txn'[u] \in TxnType
             /\ Own(d, file, txn'[u])
             /\ txn'[u].creates = txn[u].creates /\ txn'[u].deletes = txn[u].deletes
             /\ \A v : Refers(db, file, txn[u], v) => Refers(d, file, txn'[u], v)
  <2>1. txn[u] \in TxnType /\ Own(db, file, txn[u])
    BY DEF FInv
  <2>2. txn[u].creates \cap t.creates = {} /\ txn[u].deletes \cap t.deletes = {}
    BY <1>1, <1>3 DEF FInv, Apart
  <2>3. txn'[u] = [txn[u] EXCEPT !.since = IF ok THEN txn[u].since \cup acts ELSE txn[u].since]
    BY <1>3, <2>1 DEF TxnType
  <2>4. /\ txn'[u].view = txn[u].view /\ txn'[u].creates = txn[u].creates
        /\ txn'[u].deletes = txn[u].deletes /\ txn'[u].reads = txn[u].reads
        /\ txn'[u].since = IF ok THEN txn[u].since \cup acts ELSE txn[u].since
    BY <2>1, <2>3 DEF TxnType
  <2>5. txn'[u] \in TxnType
    <3>1. (IF ok THEN txn[u].since \cup acts ELSE txn[u].since) \in SUBSET Nat
      BY <1>4, <1>5, <2>1 DEF TxnType
    <3> QED
      BY <2>1, <2>3, <3>1 DEF TxnType
  <2>6. CASE ok
    BY <1>2, <1>4, <1>5, <2>1, <2>2, <2>4, <2>5, <2>6, MergedOwn
  <2>7. CASE ~ ok
    <3>1. txn'[u] = txn[u] /\ d = db
      BY <1>2, <2>1, <2>3, <2>7 DEF TxnType
    <3> QED
      BY <2>1, <3>1
  <2> QED
    BY <2>6, <2>7
<1>8. ASSUME NEW u \in DOMAIN txn' PROVE Apart(u, txn[u])'
  BY <1>3, <1>7 DEF FInv, Apart
<1>9. TypeOK'
  <2>1. ASSUME NEW u \in DOMAIN txn'
        PROVE  /\ txn'[u].view \cup txn'[u].since \subseteq DOMAIN file
               /\ txn'[u].creates \cap d = {}
               /\ txn'[u].view \cap txn'[u].deletes = {}
               /\ txn'[u].conflict \in BOOLEAN
    BY <1>3, <1>7 DEF Own, ViewFits, TxnType
  <2>2. d \subseteq DOMAIN file
    BY <1>2, <1>4 DEF Merged
  <2> QED
    BY <1>3, <2>1, <2>2 DEF FInv, TypeOK
<1>10. Exempt' = Exempt
  BY <1>3 DEF Exempt
<1>11. UniqueIn(file, d)
  BY <1>1, <1>2, <1>3, <1>6, MergedUnique DEF FInv
<1>12. ASSUME fkey, NEW v \in Ids \ Exempt
       PROVE  /\ Firm(d, file, v)
              /\ \A u \in DOMAIN txn' : Refers(d, file, txn'[u], v)
  <2>1. Firm(db, file, v) /\ \A u \in DOMAIN txn : Refers(db, file, txn[u], v)
    BY <1>12 DEF FInv
  <2>2. Firm(d, file, v)
    BY <1>1, <1>2, <1>3, <1>6, <1>12, <2>1, MergedFirm
  <2> QED
    BY <1>3, <1>7, <2>1, <2>2
<1> QED
  BY <1>3, <1>7, <1>8, <1>9, <1>10, <1>11, <1>12 DEF FInv

\* Once the foreign key is added, an id that a changing version refers to, or a
\* committed line in vain, counts as a known gap.
LEMMA AddForeignKeyKeeps ==
  ASSUME FInv, AddForeignKey
  PROVE  FInv'
<1> DEFINE Ref(o) == IF file[o].tbl = "lines" THEN file[o].pid ELSE file[o].id
           changing == UNION {txn[u].creates \cup txn[u].deletes : u \in DOMAIN txn}
           dangling == {o \in db : /\ file[o].tbl = "lines" /\ Ref(o) # EMPTY
                                   /\ Found(file, db, "id", Ref(o)) = {}}
           odd == {p \in changing : Ref(p) # EMPTY} \cup dangling
           gaps == {<<Ref(o), "index">> : o \in odd}
<1>1. /\ file' = file /\ db' = db /\ txn' = txn /\ mode' = mode /\ done' = done
      /\ fkey' = TRUE /\ loose' = loose \cup gaps
  BY DEF AddForeignKey
<1>2. /\ db \subseteq DOMAIN file
      /\ \A u \in DOMAIN txn : txn[u].creates \cup txn[u].deletes \subseteq DOMAIN file
      /\ loose \subseteq Gaps
  BY DEF FInv, TypeOK, Own, Gaps
<1>3. ASSUME NEW o \in DOMAIN file
      PROVE  /\ file[o] \in Records
             /\ Ref(o) \in Ids \cup {EMPTY}
             /\ \A v \in Ids : LineAt(file, o, v) \/ ParentAt(file, o, v) => Ref(o) = v
  <2>1. file[o] \in Records
    BY LenProperties, ElementOfSeq DEF FInv, TypeOK
  <2> QED
    BY <2>1, RecordFacts DEF LineAt, ParentAt
<1>4. changing \subseteq DOMAIN file
  BY <1>2
<1>5. gaps \subseteq Gaps
  <2>1. \A o \in odd : o \in DOMAIN file /\ Ref(o) # EMPTY
    BY <1>2, <1>4
  <2> HIDE DEF odd, Ref
  <2> QED
    BY <1>3, <2>1 DEF Gaps
<1>6. ASSUME NEW v \in Ids \ Exempt', NEW o \in odd PROVE Ref(o) # v
  <2>1. <<Ref(o), "index">> \in loose'
    BY <1>1
  <2> HIDE DEF Ref
  <2> QED
    BY <1>6, <2>1 DEF Exempt
<1>7. ASSUME NEW v \in Ids \ Exempt', NEW o \in changing
      PROVE  ~ LineAt(file, o, v) /\ ~ ParentAt(file, o, v)
  <2> SUFFICES ASSUME LineAt(file, o, v) \/ ParentAt(file, o, v) PROVE FALSE
    OBVIOUS
  <2>1. Ref(o) = v /\ v # EMPTY
    BY <1>3, <1>4, EmptyAssumption
  <2> HIDE DEF Ref, changing
  <2>2. o \in odd
    BY <2>1
  <2> QED
    BY <1>6, <2>1, <2>2
<1>8. ASSUME NEW v \in Ids \ Exempt' PROVE Firm(db, file, v)
  <2> SUFFICES ASSUME NEW o \in db, LineAt(file, o, v)
               PROVE  \E p \in db : ParentAt(file, p, v)
    BY DEF Firm
  <2>1. Ref(o) = v /\ v # EMPTY /\ file[o].tbl = "lines"
    BY <1>2, <1>3, EmptyAssumption DEF LineAt
  <2> HIDE DEF Ref
  <2>2. Found(file, db, "id", v) # {}
    BY <1>6, <2>1
  <2>3. PICK p \in db : "id" \in IndexesOf(file[p]) /\ file[p]["id"] = v
    BY <2>2 DEF Found
  <2>4. file[p].tbl = "parents"
    BY <1>2, <1>3, <2>3, RecordFacts
  <2> QED
    BY <2>3, <2>4 DEF ParentAt
<1> HIDE DEF gaps
<1>9. ASSUME NEW v \in Ids \ Exempt', NEW u \in DOMAIN txn
      PROVE  Refers(db, file, txn[u], v)
  BY <1>7 DEF Refers
<1>10. TypeOK'
  <2>1. loose' \subseteq Gaps
    BY <1>1, <1>2, <1>5
  <2> QED
    BY <1>1, <2>1 DEF FInv, TypeOK, Gaps
<1>11. ASSUME NEW u \in DOMAIN txn PROVE Apart(u, txn[u])'
  BY <1>1 DEF FInv, Apart
<1> HIDE DEF changing
<1> QED
  BY <1>1, <1>8, <1>9, <1>10, <1>11 DEF FInv

-----------------------------------------------------------------------------
(* The invariant                                                            *)

LEMMA InitFInv == Init => FInv
<1> SUFFICES ASSUME Init PROVE FInv
  OBVIOUS
<1>1. /\ file \in Tables /\ db = DOMAIN file /\ DOMAIN txn = {}
      /\ fkey \in BOOLEAN /\ mode \in Modes /\ loose = {} /\ done = 0
  BY DEF Init
<1>2. file \in Seq(Records) /\ UniqueIn(file, db)
  BY <1>1, TablesAssumption
<1>3. TypeOK
  BY <1>1, <1>2, BoundsAssumption DEF TypeOK
<1>4. ASSUME fkey, NEW v \in Ids PROVE Firm(db, file, v)
  <2> SUFFICES ASSUME NEW o \in db, LineAt(file, o, v)
               PROVE  \E p \in db : ParentAt(file, p, v)
    BY DEF Firm
  <2>1. Found(file, db, "id", v) # {}
    BY <1>4, EmptyAssumption DEF Init, LineAt
  <2>2. PICK p \in db : "id" \in IndexesOf(file[p]) /\ file[p]["id"] = v
    BY <2>1 DEF Found
  <2>3. file[p] \in Records
    BY <1>1, <1>2, LenProperties, ElementOfSeq
  <2> QED
    BY <2>2, <2>3, RecordFacts DEF ParentAt
<1> QED
  BY <1>1, <1>2, <1>3, <1>4 DEF FInv

LEMMA StutterKeeps == FInv /\ UNCHANGED vars => FInv'
<1> SUFFICES ASSUME FInv, UNCHANGED vars PROVE FInv'
  OBVIOUS
<1>1. /\ file' = file /\ db' = db /\ txn' = txn /\ fkey' = fkey /\ mode' = mode
      /\ loose' = loose /\ done' = done
  BY DEF vars
<1>2. TypeOK' /\ Exempt' = Exempt
  BY <1>1 DEF FInv, TypeOK, Exempt
<1>3. ASSUME NEW u \in DOMAIN txn PROVE Apart(u, txn[u])'
  BY <1>1 DEF FInv, Apart
<1> QED
  BY <1>1, <1>2, <1>3 DEF FInv

LEMMA NextFInv == FInv /\ [Next]_vars => FInv'
<1> SUFFICES ASSUME FInv, [Next]_vars PROVE FInv'
  OBVIOUS
<1>1. ASSUME NEW c \in Trans, Begin(c) PROVE FInv'
  BY <1>1, BeginKeeps
<1>2. ASSUME NEW c \in Trans, Statement(c) PROVE FInv'
  BY <1>2, StatementKeeps
<1>3. ASSUME NEW c \in Trans, Commit(c) PROVE FInv'
  BY <1>3, CommitKeeps
<1>4. ASSUME NEW c \in Trans, Abort(c) PROVE FInv'
  BY <1>4, AbortKeeps
<1>5. CASE AddForeignKey
  BY <1>5, AddForeignKeyKeeps
<1>6. CASE UNCHANGED vars
  BY <1>6, StutterKeeps
<1> QED
  BY <1>1, <1>2, <1>3, <1>4, <1>5, <1>6 DEF Next

\* What the versions, the committed ones and those of the transactions, have in
\* common after every statement, commit and abort (database.cpp, transaction.cpp).
THEOREM FkeyInvariant == Spec => []FInv
<1>1. Init => FInv
  BY InitFInv
<1>2. FInv /\ [Next]_vars => FInv'
  BY NextFInv
<1> QED
  BY <1>1, <1>2, PTL DEF Spec

\* The state keeps its types whatever statements, triggers and transactions do:
\* a transaction sees nothing it has deleted (database.cpp, remove_record).
THEOREM FkeyTypes == Spec => []TypeOK
<1>1. FInv => TypeOK
  BY DEF FInv
<1> QED
  BY <1>1, FkeyInvariant, PTL

\* No two committed records have a key in common: what a failed update undoes, a
\* cascade moves and a trigger rewrites included, and whatever transactions
\* that do not see each other commit (database.cpp, add_index_entries).
THEOREM FkeyKeysUnique == Spec => []KeysUnique
<1>1. FInv => KeysUnique
  BY DEF FInv, KeysUnique
<1> QED
  BY <1>1, FkeyInvariant, PTL

\* Every committed line refers to a committed parent but for the ids for which a
\* known gap was met, whatever blocks, cascades and triggers of concurrent
\* transactions do (database.cpp, fkey_source_block and fkey_target_block).
THEOREM FkeyReferencesHold == Spec => []ReferencesHold
<1>1. FInv => ReferencesHold
  <2> SUFFICES ASSUME FInv, fkey, NEW o \in Orphans
               PROVE  \E why \in {"failure", "trigger", "index"} :
                        <<file[o].pid, why>> \in loose
    BY DEF ReferencesHold
  <2>1. /\ o \in db /\ file[o].tbl = "lines" /\ file[o].pid # EMPTY
        /\ Found(file, db, "id", file[o].pid) = {}
    BY DEF Orphans
  <2>2. \A p \in db : file[p] \in Records
    BY LenProperties, ElementOfSeq DEF FInv, TypeOK
  <2>3. file[o].pid \in Ids
    BY <2>1, <2>2, RecordFacts
  <2>4. ASSUME NEW p \in db PROVE ~ ParentAt(file, p, file[o].pid)
    <3> SUFFICES ASSUME ParentAt(file, p, file[o].pid) PROVE FALSE
      OBVIOUS
    <3>1. "id" \in IndexesOf(file[p]) /\ file[p]["id"] = file[o].pid
      BY <2>2, RecordFacts DEF ParentAt
    <3> QED
      BY <2>1, <3>1 DEF Found
  <2>5. ~ Firm(db, file, file[o].pid)
    BY <2>1, <2>4 DEF Firm, LineAt
  <2>6. file[o].pid \in Exempt
    BY <2>3, <2>5 DEF FInv
  <2> QED
    BY <2>6 DEF Exempt
<1> QED
  BY <1>1, FkeyInvariant, PTL

=============================================================================
