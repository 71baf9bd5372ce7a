------------------------------ MODULE MCTrace -------------------------------
(***************************************************************************)
(* A small instance of Trace, and of Conn's liveness.                      *)
(***************************************************************************)
EXTENDS Trace

AlwaysAbandon == [o \in Ops |-> "abandon"]
CancelAll     == Procs
=============================================================================
