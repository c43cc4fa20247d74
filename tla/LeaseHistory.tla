---------------------------- MODULE LeaseHistory ----------------------------
(***************************************************************************)
(* DHCP6Exporter with a history variable: the leases Kea has ever granted. *)
(* No action reads it; it lets a property compare the switch's routes with *)
(* leases that have ended since.                                           *)
(***************************************************************************)
EXTENDS DHCP6Exporter

VARIABLE held     \* pairs <<client, address>> that were active at some time

hvars == <<vars, held>>

Granted == {<<lease[x].client, x>> : x \in {y \in Addrs : IsActive(y)}}

HInit == Init /\ held = Granted
HNext == Next /\ held' = held \cup Granted'
HSpec == HInit /\ [][HNext]_hvars

(* A lease of the history h calls for the route from x to d.               *)
Justified(h, x, d) ==
    \E c \in Clients :
        /\ <<c, x>> \in h
        /\ \/ x \in NAAddrs /\ d = VlanIf(VlanOf[c])
           \/ x \in Prefixes /\ \E a \in NAAddrs : <<c, a>> \in h /\ d = Host(a)

(* Whatever is lost, delayed, reordered or repeated, and however restores, *)
(* reboots and callouts overlap, the exporter only ever installs a route   *)
(* some lease called for: never another client's VLAN or next hop, a relay *)
(* address, or an address Kea did not hand out (sendRoutesToSwitch and the *)
(* lookup and restore handlers that feed it).                              *)
OnlyLeasedRoutes == \A r \in routes : Justified(held, r[1], r[2])

----------------------------------------------------------------------------
(* The inductive strengthening: what is on its way to the switch.          *)

LeasesHeld == \A x \in Addrs : lease[x].client # None
                               => <<lease[x].client, x>> \in held

(* A request will install a route justified by h only.                     *)
RequestJustified(h, r) ==
    /\ r.op = "apply" => Justified(h, r.src, r.dst)
    /\ r.op = "lookupApply" =>
        /\ r.src \in NAAddrs
        /\ \E c \in Clients : <<c, r.src>> \in h /\ r.dst = Relay(VlanOf[c])

QueueJustified == \A i \in 1..Len(queue) : RequestJustified(held, queue[i])

(* So will the continuation of the lookup or of the restore a thread runs. *)
SlotJustified(h, s) ==
    /\ RequestJustified(h, s.req)
    /\ s.phase = "answered" /\ s.req.op = "lookupApply"
        => s.answer = VlanIf(s.req.dst.id)
    /\ \A row \in s.todo : row.client # None => <<row.client, row.addr>> \in h

WorkJustified == \A w \in Workers : SlotJustified(held, work[w])

HInv == OnlyLeasedRoutes /\ LeasesHeld /\ QueueJustified /\ WorkJustified

=============================================================================
