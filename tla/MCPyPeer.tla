------------------------------ MODULE MCPyPeer ------------------------------
(***************************************************************************)
(* Instances of PyPeer for TLC.                                            *)
(***************************************************************************)
EXTENDS PyPeer, TLC

CONSTANTS c1, c2

\* c1 goes from a to b, and c2 back from its method.
Pair == (c1 :> "a") @@ (c2 :> "b")
Nested == (c1 :> NoCall) @@ (c2 :> c1)
=============================================================================
