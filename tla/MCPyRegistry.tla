---------------------------- MODULE MCPyRegistry ----------------------------
(***************************************************************************)
(* Instances of PyRegistry for TLC.                                        *)
(***************************************************************************)
EXTENDS PyRegistry, TLC

CONSTANTS c1, c2, c3, i1, n1, n2, s1

\* c1 and c2 ask for the address, c3 for the name.
Asked == (c1 :> s1) @@ (c2 :> s1) @@ (c3 :> n1)
=============================================================================
