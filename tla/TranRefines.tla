----------------------------- MODULE TranRefines ----------------------------
(***************************************************************************)
(* Tran implements SnapshotDb.  The committed records are the table.  A    *)
(* transaction that can still commit has copied the records committed when *)
(* it started, and its copy now is what visible() lets it see.  The step   *)
(* that gives a transaction a write conflict already cancels it.           *)
(***************************************************************************)
EXTENDS Tran

RecordsAt(offs) == [off \in offs |-> file[off]]

Committable == {t \in DOMAIN trans : ~ trans[t].conflict}

CopyOf(t) ==
  [start |-> RecordsAt(Live(trans[t].asof)),
   view |-> RecordsAt(Sees(t)),
   reads |-> trans[t].reads]

Table == RecordsAt(Live(FUTURE))
Copies == [t \in Committable |-> CopyOf(t)]

Abstract == INSTANCE SnapshotDb WITH
  Ids <- 1 .. MaxOff,
  Trans <- 1 .. MaxClock,
  db <- Table,
  txn <- Copies

\* Every behaviour of the maps, times and finalization of transaction.cpp is
\* one of transactions working on their own copy of the table.
ImplementsSnapshotDb == Abstract!Spec
=============================================================================
