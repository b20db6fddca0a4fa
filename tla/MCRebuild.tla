------------------------------ MODULE MCRebuild ------------------------------
(* Small instances of Rebuild: names and columns are model values.          *)
EXTENDS Rebuild, TLC

Alike == Permutations(Names) \cup Permutations(Columns)
=============================================================================
