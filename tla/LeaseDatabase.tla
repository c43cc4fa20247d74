--------------------------- MODULE LeaseDatabase ---------------------------
(***************************************************************************)
(* Kea's IPv6 lease database as the hook library uses it, with the query   *)
(* of LeaseUtils (src/lease_utils.cpp).  A client is one identity          *)
(* association, the DUID and IAID pair every lookup of the library uses.   *)
(* Kea itself is not part of the repository: its operations are the        *)
(* smallest ones consistent with the callouts it makes.                    *)
(***************************************************************************)
EXTENDS RouteExport

CONSTANT Clients

ASSUME ClientsAssumption == None \notin Clients

VARIABLE lease    \* the database, one entry per address and prefix

Leases == [client : Clients \cup {None},
           state  : {"free", "active", "declined", "reclaimed"}]

Free      == [client |-> None, state |-> "free"]
Active(c) == [client |-> c, state |-> "active"]
(* Kea's Lease6::decline forgets the client's DUID and hardware address.   *)
Declined  == [client |-> None, state |-> "declined"]
Reclaimed(c) == [client |-> c, state |-> "reclaimed"]

Holds(c, x)  == lease[x] = Active(c)
IsActive(x)  == lease[x].state = "active"
(* Kea hands out what is free, and reuses expired leases it has kept.      *)
Available(x) == lease[x].state \in {"free", "reclaimed"}

(* The IA_NA leases of c that are neither declined nor reclaimed; the code *)
(* takes the first one, callers take any.                                  *)
findIA_NALeaseByDUID_IAID(c) == {a \in NAAddrs : Holds(c, a)}

PDLeasesOf(c) == {p \in Prefixes : Holds(c, p)}

LeaseInit   == lease = [x \in Addrs |-> Free]
LeaseTypeOK == lease \in [Addrs -> Leases]

=============================================================================
