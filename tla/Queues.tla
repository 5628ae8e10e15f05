-------------------------------- MODULE Queues --------------------------------
(* What the queues of the code have in common.                                *)
EXTENDS Integers, Sequences, FiniteSets

\* A queue of which only the nodes at some positions are left, in their order.
Kept(q, K) ==
    [n \in 1 .. Cardinality(K) |->
        q[CHOOSE i \in K : Cardinality({j \in K : j <= i}) = n]]
=============================================================================
