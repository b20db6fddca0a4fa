---------------------------- MODULE SortedIndex ----------------------------
(***************************************************************************)
(* What an index promises: a set of entries in order, and an iterator that *)
(* is on an entry, or where an entry was, or at the end.  The iterator     *)
(* does not mind what happens to the entries between its steps.            *)
(***************************************************************************)
EXTENDS Integers

CONSTANTS Keys, EOF

VARIABLES entries, pos

Least(S) == CHOOSE k \in S : \A j \in S : k <= j
Greatest(S) == CHOOSE k \in S : \A j \in S : k >= j
LeastOrEof(S) == IF S = {} THEN EOF ELSE Least(S)
GreatestOrEof(S) == IF S = {} THEN EOF ELSE Greatest(S)

Init == entries = {} /\ pos = EOF

Insert(k) == /\ k \notin entries
             /\ entries' = entries \cup {k}
             /\ UNCHANGED pos

Erase(k) == /\ k \in entries
            /\ entries' = entries \ {k}
            /\ UNCHANGED pos

\* On the first entry that is not less than k.
Locate(k) == /\ pos' = LeastOrEof({j \in entries : j >= k})
             /\ UNCHANGED entries

Last == /\ pos' = GreatestOrEof(entries)
        /\ UNCHANGED entries

NextEntry == /\ pos # EOF
             /\ pos' = LeastOrEof({j \in entries : j > pos})
             /\ UNCHANGED entries

\* Nothing is promised of a step back from behind the last entry.
PrevEntry == /\ pos # EOF
             /\ \/ pos' = GreatestOrEof({j \in entries : j < pos})
                \/ /\ \A j \in entries : j < pos
                   /\ pos' \in Keys \cup {EOF}
             /\ UNCHANGED entries

Next == \/ \E k \in Keys : Insert(k) \/ Erase(k) \/ Locate(k)
        \/ Last \/ NextEntry \/ PrevEntry

vars == <<entries, pos>>
Spec == Init /\ [][Next]_vars
=============================================================================
