------------------------------- MODULE MCPeer -------------------------------
(***************************************************************************)
(* Instances of Peer for TLC.                                              *)
(***************************************************************************)
EXTENDS Peer, TLC

CONSTANTS c1, c2, c3

\* c1 and c3 go from a to b, c2 goes the other way.
TwoWay == (c1 :> "a") @@ (c2 :> "b") @@ (c3 :> "a")
Crossing == (c1 :> "a") @@ (c2 :> "b")

Apart == (c1 :> NoCall) @@ (c2 :> NoCall)
\* c1 calls b, whose method calls a back.
Callback == (c1 :> NoCall) @@ (c2 :> c1)
\* c1 calls b, whose method calls a back, whose method calls b again.
Chain == (c1 :> NoCall) @@ (c2 :> c1) @@ (c3 :> c2)
=============================================================================
