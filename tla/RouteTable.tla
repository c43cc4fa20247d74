----------------------------- MODULE RouteTable -----------------------------
(***************************************************************************)
(* What the hook library promises: the static routes of the switch follow  *)
(* the lease database.  For every address there are endpoints that are     *)
(* right for it, none when it is not leased.  An endpoint becomes wrong    *)
(* only while the table agrees with the leases, so that every change is    *)
(* answered by one installation or withdrawal before the next one.         *)
(*                                                                         *)
(* Requests, pool threads, lookups and replies are not part of this        *)
(* specification; module DHCP6Exporter implements it.                      *)
(***************************************************************************)

CONSTANTS Addrs, Endpoints

VARIABLES
    wanted,   \* the endpoints that are right for each address
    table     \* the endpoints it is routed to

tableVars == <<wanted, table>>

Matches(x) ==
    IF wanted[x] = {} THEN table[x] = {}
                      ELSE \E d \in wanted[x] : table[x] = {d}

Init ==
    /\ wanted = [x \in Addrs |-> {}]
    /\ table = [x \in Addrs |-> {}]

(* Leases are granted, moved and ended.                                    *)
ChangeLeases ==
    /\ wanted' \in [Addrs -> SUBSET Endpoints]
    /\ \A x \in Addrs : \/ Matches(x)
                        \/ wanted'[x] = wanted[x]
                        \/ wanted[x] # {} /\ wanted[x] \subseteq wanted'[x]
    /\ UNCHANGED table

Install(x, d) ==
    /\ table[x] = {} /\ d \in wanted[x]
    /\ table' = [table EXCEPT ![x] = {d}]
    /\ UNCHANGED wanted

Withdraw(x) ==
    /\ wanted[x] = {}
    /\ table' = [table EXCEPT ![x] = {}]
    /\ UNCHANGED wanted

Next ==
    \/ ChangeLeases
    \/ \E x \in Addrs, d \in Endpoints : Install(x, d)
    \/ \E x \in Addrs : Withdraw(x)

Spec == Init /\ [][Next]_tableVars

=============================================================================
