-------------------------- MODULE MCDHCP6Exporter --------------------------
(* Small instances of DHCP6Exporter for TLC.                               *)
EXTENDS ExporterInvariant, TLC

CONSTANTS c1, c2, a1, a2, p1, p2, v1, w1, w2

(* Both clients on one VLAN: a removal that names the wrong address takes  *)
(* the other client's route away.                                          *)
OneVlan == [c \in Clients |-> v1]

(* On one VLAN everything but the kinds of address is interchangeable.     *)
Symmetry ==
    {f @@ g @@ h @@ k : f \in Permutations(Clients), g \in Permutations(NAAddrs),
                        h \in Permutations(Prefixes), k \in Permutations(Workers)}

=============================================================================
