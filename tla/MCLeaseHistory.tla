--------------------------- MODULE MCLeaseHistory ---------------------------
(* A small instance of LeaseHistory for TLC, with every assumption about   *)
(* the environment dropped.                                                *)
EXTENDS LeaseHistory, TLC

CONSTANTS c1, c2, a1, a2, p1, p2, v1, v2, w1, w2

TwoVlans == (c1 :> v1) @@ (c2 :> v2)

(* Exchanging the two clients together with their VLANs leaves TwoVlans as *)
(* it is; prefixes and pool threads are interchangeable.                   *)
SwapClients == (c1 :> c2) @@ (c2 :> c1) @@ (v1 :> v2) @@ (v2 :> v1)
KeepClients == [x \in {c1, c2, v1, v2} |-> x]
Symmetry ==
    {f @@ g @@ h : f \in {SwapClients, KeepClients},
                   g \in Permutations(Prefixes), h \in Permutations(Workers)}

=============================================================================
