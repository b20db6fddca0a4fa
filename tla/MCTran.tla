------------------------------- MODULE MCTran -------------------------------
(* Tran on a small instance: two keys, a short clock and file. *)
EXTENDS Tran

MCKeys == {1, 2}
=============================================================================
