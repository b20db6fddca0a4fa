------------------------------ MODULE MCFibers ------------------------------
(* The scheduler with a main fiber and three slots for background fibers.  *)
EXTENDS Fibers
=============================================================================
