------------------------- MODULE ExporterInvariant -------------------------
(***************************************************************************)
(* Why the routes follow the leases: what every request on its way through *)
(* the pool owes its address.  With all assumptions about the environment  *)
(* (Relaxed = {}) the invariant is inductive, and its part RemovalsOfEnded *)
(* is so with most of them dropped; module RouteTableProofs proves both    *)
(* and what follows from them.                                             *)
(***************************************************************************)
EXTENDS DHCP6Exporter

(* A request whose effect is complete, whatever its handler does next.     *)
Complete(r, phase) ==
    phase = "missing" \/ (phase = "answered" /\ r.op \notin Lookups)

(* The request r is on the way to install or remove the endpoint d.        *)
AimsAt(r, phase, answer, d) ==
    CASE phase = "answered" /\ r.op = "lookupApply" -> answer = d
      [] phase = "answered" /\ r.op # "lookupApply" -> NextHop(answer) = d
      [] phase = "sent" /\ r.op = "apply"  -> r.dst = d
      [] phase = "sent" /\ r.op = "remove" -> NextHop(r.dst) = d
      [] phase = "sent" /\ r.op \in {"lookupApply", "lookupRemove"}
            -> VlanIf(r.dst.id) = d
      [] OTHER -> NextHop(d) = d

(* The request r, queued or sent ("sent") or replied to, will bring the    *)
(* routes of its address in line with the lease, or has done so.           *)
Fits(r, phase, answer) ==
    /\ r.op # "neighbors"
    /\ phase \in {"sent", "answered", "missing"}
    /\ IsActive(r.src) <=> r.op \in {"apply", "lookupApply"}
    /\ IF Complete(r, phase) THEN RouteMatchesLease(r.src)
       ELSE \E d \in Endpoints :
                /\ RoutesOf(r.src) \subseteq {d}
                /\ IsActive(r.src) => d \in Wanted(r.src)
                /\ AimsAt(r, phase, answer, d)

(* Every request of the pool fits its lease, and no two are about the same *)
(* address: the next callout about it waits until they are done.           *)
QueueFits ==
    \A i \in DOMAIN queue :
        /\ Fits(queue[i], "sent", None)
        /\ \A j \in DOMAIN queue : queue[i].src = queue[j].src => i = j

WorkFits ==
    \A w \in ActiveWorkers :
        /\ Fits(work[w].req, work[w].phase, work[w].answer)
        /\ \A v \in ActiveWorkers : work[v].req.src = work[w].req.src => v = w
        /\ \A i \in DOMAIN queue : queue[i].src # work[w].req.src

(* Every active lease is one of a client, which holds at most one address, *)
(* and no prefix is declined.                                              *)
LeasesFit ==
    /\ \A x \in Addrs : IsActive(x) => lease[x].client \in Clients
    /\ \A p \in Prefixes : lease[p].state # "declined"
    /\ \A a, b \in NAAddrs : IsActive(a) /\ lease[a] = lease[b] => a = b

(* A request that removes a route, or will when its lookup is answered.    *)
Removing(r) == r.op \in {"lookupRemove", "lookupRoute", "remove"}

(* With callouts about one address one after the other and messages that   *)
(* name the IA they are about, a removal is only under way for an address  *)
(* or prefix whose lease has ended, whatever is lost, restored or moved:   *)
(* the address is leased anew after the removal is done.                   *)
RemovalsOfEnded == \A r \in InPool : Removing(r) => ~IsActive(r.src)

RequestsFit == QueueFits /\ WorkFits /\ LeasesFit

=============================================================================
