------------------------------- MODULE MCFkey -------------------------------
(* Fkey on small tables: two parents and two lines at most, by their keys.   *)
EXTENDS Fkey, TLC
CONSTANTS Name1, Name2
MCNames == {Name1, Name2}
MCTables == {<<Parent(1, Name1), Line(3, 1), Line(4, 1)>>,
             <<Parent(1, Name1), Parent(2, Name2), Line(3, 1)>>}
Alike == Permutations(Trans)
=============================================================================
