------------------------------ MODULE MCPyQueue ------------------------------
(***************************************************************************)
(* The instance of PyQueue for TLC: a queue without a bound, and one with  *)
(* room for a single item.                                                 *)
(***************************************************************************)
EXTENDS PyQueue

CONSTANTS t1, t2, t3

BothSizes == {-1, 1}
=============================================================================
