----------------------------- MODULE MCPyStream -----------------------------
(***************************************************************************)
(* The instance of PyStream for TLC: files of up to two blocks, whose last *)
(* block may be short.                                                     *)
(***************************************************************************)
EXTENDS PyStream
=============================================================================
