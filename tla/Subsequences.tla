----------------------------- MODULE Subsequences -----------------------------
(***************************************************************************)
(* What is left of a sequence when elements are taken out of it.  The      *)
(* result is given as a set with one element, by the increasing map from   *)
(* the new positions to the old ones, which is what proofs reason with.    *)
(***************************************************************************)
EXTENDS Naturals, FiniteSets, Functions

\* The sequence q at the positions K only, in order.
Kept(q, K) ==
    {[i \in DOMAIN f |-> q[f[i]]] :
        f \in {g \in Bijection(1 .. Cardinality(K), K) :
                 \A i, j \in DOMAIN g : i < j => g[i] < g[j]}}
=============================================================================
