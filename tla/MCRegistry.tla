----------------------------- MODULE MCRegistry -----------------------------
(***************************************************************************)
(* Instances of Registry for TLC.                                          *)
(***************************************************************************)
EXTENDS Registry, TLC

CONSTANTS c1, c2, c3, in1, n1, n2, a1, a2

\* Two callers ask for the address, one for the name it may turn out to have.
Mixed == (c1 :> a1) @@ (c2 :> n1) @@ (c3 :> a1)
\* Two callers ask for the name, whose address is learnt or set meanwhile.
ByName == (c1 :> a1) @@ (c2 :> n1) @@ (c3 :> n1)
=============================================================================
