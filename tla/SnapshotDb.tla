----------------------------- MODULE SnapshotDb -----------------------------
(***************************************************************************)
(* What the transactions of a cSuneido table promise, without the maps and *)
(* times that implement it: a transaction copies the whole table when it   *)
(* starts and works on the copy, and its changes reach the table in one    *)
(* step when it commits, if no key that it read has changed in the table.  *)
(***************************************************************************)
EXTENDS Integers, FiniteSets, Functions

CONSTANTS
  Keys,   \* the values of the key column
  Ids,    \* the identities of records
  Trans   \* the identities of transactions

VARIABLES
  db,   \* the committed records: id -> key
  txn   \* the transactions in progress, by identity

vars == <<db, txn>>

EmptyMap == [x \in {} |-> x]
Put(f, S, v) == [x \in DOMAIN f \cup S |-> IF x \in S THEN v ELSE f[x]]
Without(f, S) == Restrict(f, DOMAIN f \ S)

\* the records of m with a key in ks
OfKeys(m, ks) == {id \in DOMAIN m : m[id] \in ks}

HasKey(m, k) == \E id \in DOMAIN m : m[id] = k

\* the records that are, or may again be, in some copy
UsedIds ==
  DOMAIN db \cup UNION {DOMAIN txn[t].start \cup DOMAIN txn[t].view :
                         t \in DOMAIN txn}

Active(t) == t \in DOMAIN txn

Start(t) ==
  /\ ~ Active(t)
  /\ txn' = Put(txn, {t}, [start |-> db, view |-> db, reads |-> {}])
  /\ UNCHANGED db

\* t reads keys, or tries a key it finds to be a duplicate
Read(t, ks) ==
  /\ Active(t)
  /\ txn' = [txn EXCEPT ![t].reads = @ \cup ks]
  /\ UNCHANGED db

\* t removes the records of old, at most one, from its copy
Drop(t, old) ==
  /\ Active(t)
  /\ old \subseteq OfKeys(txn[t].view, txn[t].reads)

Delete(t, id) ==
  /\ Drop(t, {id})
  /\ txn' = [txn EXCEPT ![t].view = Without(@, {id})]
  /\ UNCHANGED db

\* t puts a new record in its copy, which is an insert or, with old, an update
Insert(t, old, id, k) ==
  /\ Drop(t, old)
  /\ id \notin UsedIds
  /\ ~ HasKey(Without(txn[t].view, old), k)
  /\ txn' = [txn EXCEPT ![t].view = Put(Without(@, old), {id}, k),
                        ![t].reads = @ \cup {k}]
  /\ UNCHANGED db

Removed(t) == DOMAIN txn[t].start \ DOMAIN txn[t].view
Added(t) == DOMAIN txn[t].view \ DOMAIN txn[t].start

ReadsCurrent(t) ==
  OfKeys(txn[t].start, txn[t].reads) = OfKeys(db, txn[t].reads)

Merged(t) ==
  [id \in (DOMAIN db \ Removed(t)) \cup Added(t) |->
     IF id \in Added(t) THEN txn[t].view[id] ELSE db[id]]

Commit(t) ==
  /\ Active(t)
  /\ ReadsCurrent(t)
  /\ db' = Merged(t)
  /\ txn' = Without(txn, {t})

\* t ends without effect, or can no longer commit
Cancel(t) ==
  /\ Active(t)
  /\ txn' = Without(txn, {t})
  /\ UNCHANGED db

Init ==
  /\ \E ids \in SUBSET Ids : db \in [ids -> Keys]
  /\ IsInjective(db)
  /\ txn = EmptyMap

Next ==
  \E t \in Trans :
    \/ Start(t)
    \/ \E ks \in SUBSET Keys : Read(t, ks)
    \/ \E id \in Ids : Delete(t, id)
    \/ \E id \in Ids, k \in Keys :
         \E old \in {{}} \cup {{o} : o \in Ids} : Insert(t, old, id, k)
    \/ Commit(t)
    \/ Cancel(t)

Spec == Init /\ [][Next]_vars
=============================================================================
