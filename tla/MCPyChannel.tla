----------------------------- MODULE MCPyChannel -----------------------------
(***************************************************************************)
(* Instances of PyChannel for TLC.                                         *)
(***************************************************************************)
EXTENDS PyChannel, TLC

CONSTANTS n1, p1, q1

\* Side a makes n1 and sends on it to b.
OneSub == n1 :> "a"
TaskAt == (p1 :> "a") @@ (q1 :> "b")
TaskOn == (p1 :> n1) @@ (q1 :> n1)
Bounds == (n1 :> 3) @@ (Main :> 0)
=============================================================================
