---------------------------- MODULE MCAsyncServer ----------------------------
(* Connections that share two background fibers and the handles of the       *)
(* kernel, which are used again when closed.                                 *)
EXTENDS AsyncServer
=============================================================================
