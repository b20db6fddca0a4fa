--------------------------- MODULE MCTranRefines ----------------------------
(* TranRefines on a small instance, the one of MCTran with a shorter file. *)
EXTENDS TranRefines

MCKeys == {1, 2}
=============================================================================
