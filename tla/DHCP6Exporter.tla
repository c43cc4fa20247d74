--------------------------- MODULE DHCP6Exporter ---------------------------
(***************************************************************************)
(* The hook library at work: the lease6_* callouts (DHCP6ExporterImpl,     *)
(* src/dhcp6_exporter_impl.cpp), the service that restores routes after    *)
(* the connection came back (DHCP6ExporterService,                         *)
(* src/dhcp6_exporter_service.cpp), the management client and its pool     *)
(* (module NXOSManagementClient), Kea's lease database and the switch.     *)
(*                                                                         *)
(* A callout and the database commit Kea makes around it are one step:     *)
(* they run in one packet-processing thread, a callout only posts requests *)
(* and the pool threads see the lease through their own later queries.     *)
(***************************************************************************)
EXTENDS NXOSManagementClient, Integers, FiniteSets

CONSTANTS
    MaxPending,   \* bound: requests in the pool when Kea calls in
    Relaxed       \* assumptions about the environment that are dropped

(* overlap:    a callout may arrive while requests for its address, or     *)
(*             those of a restore, are still in the pool                   *)
(* earlyExpire: a lease may expire in that time                            *)
(* faults:     requests and replies get lost                               *)
(* reboot:     the switch reboots, and restores run                        *)
(* naUnderPD:  a client's IA_NA lease may be released, declined, moved or  *)
(*             granted anew while its IA_PD lease is active                *)
(* prefixMove: Kea may give a client another prefix in a RENEW or REBIND   *)
(* otherIA:    a RENEW or REBIND carries several IAs, so that the first IA *)
(*             option of the message is another one than the lease's       *)
Assumptions ==
    {"overlap", "earlyExpire", "faults", "reboot", "naUnderPD", "prefixMove",
     "otherIA"}

ASSUME ExporterAssumption == MaxPending \in Nat /\ Relaxed \subseteq Assumptions

VARIABLE lost     \* the heartbeat owes the service a restore

vars == <<lease, clientVars, lost>>

TypeOK == LeaseTypeOK /\ ClientTypeOK /\ lost \in BOOLEAN

Init == LeaseInit /\ ClientInit /\ lost = TRUE

----------------------------------------------------------------------------
(* What is under way in the pool.                                          *)

ActiveWorkers == {w \in Workers : work[w].phase # "idle"}
InPool == {queue[i] : i \in DOMAIN queue} \cup {work[w].req : w \in ActiveWorkers}

(* Some request or restore that concerns x has not finished.               *)
Busy(x) == \E r \in InPool : r.src = x \/ r.op = "neighbors"

(* Kea makes a callout about the addresses xs; its timing rests on the     *)
(* given assumption.                                                       *)
TimedCallout(xs, assumption) ==
    /\ ~crashed
    /\ Len(queue) + Cardinality(ActiveWorkers) < MaxPending
    /\ assumption \in Relaxed \/ \A x \in xs : ~Busy(x)

Callout(xs) == TimedCallout(xs, "overlap")

exportRoute(r) == Post(<<sendRoutesToSwitch(r)>>)

removeRoute(r, c) ==
    \E req \in removeRoutesFromSwitch(r, findIA_NALeaseByDUID_IAID(c)) :
        Post(<<req>>)

(* removeRoute(old) followed by exportRoute(new).                          *)
replaceRoute(old, new) ==
    \E req \in removeRoutesFromSwitch(old, {}) :
        Post(<<req, sendRoutesToSwitch(new)>>)

(* Without "naUnderPD" the clients give up IA_PD before IA_NA.             *)
NAChangeAllowed(c) == "naUnderPD" \in Relaxed \/ PDLeasesOf(c) = {}

otherVars == <<work, routes, neighbors, crashed, lost>>

----------------------------------------------------------------------------
(* lease6_select with fake_allocation false, IA_NA.                        *)
SelectNA(c, a) ==
    /\ Callout({a})
    /\ Available(a)
    /\ findIA_NALeaseByDUID_IAID(c) = {}
    /\ NAChangeAllowed(c)
    /\ exportRoute(IA_NAInfo(VlanOf[c], a))
    /\ lease' = [lease EXCEPT ![a] = Active(c)]
    /\ UNCHANGED otherVars

(* lease6_select with fake_allocation false, IA_PD.  Without an IA_NA      *)
(* lease the callout returns NEXT_STEP_SKIP and Kea drops the allocation.  *)
SelectPD(c, p) ==
    /\ Callout({p})
    /\ Available(p)
    /\ PDLeasesOf(c) = {}
    /\ \E a \in findIA_NALeaseByDUID_IAID(c) : exportRoute(IA_PDInfo(Host(a), p))
    /\ lease' = [lease EXCEPT ![p] = Active(c)]
    /\ UNCHANGED otherVars

(* lease6_expire: the count of the client's leases is only logged, every   *)
(* expired lease has its route removed.  Kea keeps the lease as reclaimed  *)
(* or deletes it; a declined lease expires when its probation ends.        *)
Expire(x) ==
    LET c == lease[x].client
    IN  /\ TimedCallout({x}, "earlyExpire")
        /\ lease[x].state \in {"active", "declined"}
        /\ removeRoute(IF x \in NAAddrs THEN IA_NAInfoFuzzyRemove(x)
                                        ELSE IA_PDInfoFuzzyRemove(x), c)
        /\ \/ lease' = [lease EXCEPT ![x] = Free]
           \/ IsActive(x) /\ lease' = [lease EXCEPT ![x] = Reclaimed(c)]
        /\ UNCHANGED otherVars

(* The client gives up its IA_NA lease a, of which Kea keeps "after".      *)
EndNA(c, a, after) ==
    /\ Callout({a})
    /\ Holds(c, a)
    /\ NAChangeAllowed(c)
    /\ removeRoute(IA_NAInfo(VlanOf[c], a), c)
    /\ lease' = [lease EXCEPT ![a] = after]
    /\ UNCHANGED otherVars

(* lease6_release, IA_NA.                                                  *)
ReleaseNA(c, a) == EndNA(c, a, Free)

(* lease6_decline: Kea puts the address on probation.                      *)
DeclineNA(c, a) == EndNA(c, a, Declined)

(* Mutation of ReleasePD: the relay address as next hop.                   *)
ReleasePDByRelay(c, p) ==
    /\ Callout({p})
    /\ Holds(c, p)
    /\ removeRoute(IA_PDInfo(Relay(VlanOf[c]), p), c)
    /\ lease' = [lease EXCEPT ![p] = Free]
    /\ UNCHANGED otherVars

(* lease6_release, IA_PD: the route's next hop comes from the client's     *)
(* IA_NA lease; without one the callout returns and the route stays.       *)
ReleasePD(c, p) ==
    LET na == findIA_NALeaseByDUID_IAID(c)
    IN  /\ Callout({p})
        /\ Holds(c, p)
        /\ \/ \E a \in na : removeRoute(IA_PDInfo(Host(a), p), c)
           \/ na = {} /\ "naUnderPD" \in Relaxed /\ UNCHANGED queue
        /\ lease' = [lease EXCEPT ![p] = Free]
        /\ UNCHANGED otherVars

(* In a RENEW or REBIND the first IA option of the message names q and Kea *)
(* extends c's lease of x: either c holds x and asks for another address   *)
(* than x or not, or Kea moves c from q to x.                              *)
Extends(c, q, x, mayMove) ==
    \/ Holds(c, x) /\ (q = x \/ ~IsActive(q) \/ "otherIA" \in Relaxed)
    \/ Holds(c, q) /\ q # x /\ Available(x) /\ mayMove

Extended(c, q, x) ==
    [lease EXCEPT ![q] = IF Holds(c, q) THEN Free ELSE @, ![x] = Active(c)]

(* Mutation of RenewNA: old and new address exchanged.                     *)
RenewNASwapped(c, q, a) ==
    /\ Callout({q, a})
    /\ Extends(c, q, a, NAChangeAllowed(c))
    /\ replaceRoute(IA_NAInfo(VlanOf[c], a), IA_NAInfo(VlanOf[c], q))
    /\ lease' = Extended(c, q, a)
    /\ UNCHANGED otherVars

(* handleRenewRebindProcess, IA_NA: RENEW and REBIND do the same.          *)
RenewNA(c, q, a) ==
    /\ Callout({q, a})
    /\ Extends(c, q, a, NAChangeAllowed(c))
    /\ IF q # a
       THEN replaceRoute(IA_NAInfo(VlanOf[c], q), IA_NAInfo(VlanOf[c], a))
       ELSE exportRoute(IA_NAInfo(VlanOf[c], a))
    /\ lease' = Extended(c, q, a)
    /\ UNCHANGED otherVars

(* handleRenewRebindProcess, IA_PD: nothing happens without an IA_NA       *)
(* lease; the old route is removed with the relay address as next hop; an  *)
(* unchanged prefix is exported again by REBIND only.                      *)
RenewPD(c, q, p, rebind) ==
    LET na == findIA_NALeaseByDUID_IAID(c)
    IN  /\ Callout({q, p})
        /\ Extends(c, q, p, "prefixMove" \in Relaxed)
        /\ \/ /\ q # p
              /\ \E a \in na : replaceRoute(IA_PDInfo(Relay(VlanOf[c]), q),
                                            IA_PDInfo(Host(a), p))
           \/ /\ q = p /\ rebind
              /\ \E a \in na : exportRoute(IA_PDInfo(Host(a), p))
           \/ /\ na = {} \/ (q = p /\ ~rebind)
              /\ UNCHANGED queue
        /\ lease' = Extended(c, q, p)
        /\ UNCHANGED otherVars

----------------------------------------------------------------------------
(* restoreLeasesFromLeaseDatabase.                                         *)

(* The heartbeat service calls connectionRestoredHandler.                  *)
ConnectionRestored ==
    /\ Callout({})
    /\ lost
    /\ Post(<<NeighborsRequest>>)
    /\ lost' = FALSE
    /\ UNCHANGED <<lease, work, routes, neighbors, crashed>>

(* The handler given to asyncGetHWAddrToInterfaceNameMapping: report a     *)
(* failure to the heartbeat, or read the leases, in whatever state.        *)
HandleNeighbors(w) ==
    /\ ~crashed
    /\ work[w].req.op = "neighbors"
    /\ \/ /\ work[w].phase = "failed"
          /\ work' = [work EXCEPT ![w] = Idle]
          /\ lost' = TRUE
       \/ /\ work[w].phase = "answered"
          /\ work' = [work EXCEPT
                        ![w].phase = "restoring",
                        ![w].todo = {[addr |-> x, client |-> lease[x].client] :
                                        x \in {y \in Addrs : lease[y].state # "free"}}]
          /\ UNCHANGED lost
    /\ UNCHANGED <<lease, queue, routes, neighbors, crashed>>

Restoring(w) == ~crashed /\ work[w].phase = "restoring"

(* A lease without hardware address ends the handler with an exception.    *)
RestoreThrows(w) ==
    /\ Restoring(w)
    /\ \E row \in work[w].todo : row.client = None
    /\ work' = [work EXCEPT ![w] = Idle]
    /\ UNCHANGED <<lease, queue, routes, neighbors, crashed, lost>>

(* An IA_NA lease whose hardware address the ND table had is exported.     *)
RestoreNA(w) ==
    /\ Restoring(w)
    /\ \E row \in work[w].todo :
        /\ row.client # None /\ row.addr \in NAAddrs
        /\ IF row.client \in work[w].known
           THEN exportRoute(IA_NAFast(VlanOf[row.client], row.addr))
           ELSE UNCHANGED queue
        /\ work' = [work EXCEPT ![w].todo = @ \ {row}]
    /\ UNCHANGED <<lease, routes, neighbors, crashed, lost>>

(* An IA_PD lease is exported if its client has an IA_NA lease, and either *)
(* way the "return" after it leaves the handler, not the switch statement. *)
RestorePD(w) ==
    /\ Restoring(w)
    /\ \E row \in work[w].todo :
        LET na == findIA_NALeaseByDUID_IAID(row.client)
        IN  /\ row.client # None /\ row.addr \in Prefixes
            /\ \/ \E a \in na : exportRoute(IA_PDInfo(Host(a), row.addr))
               \/ na = {} /\ UNCHANGED queue
    /\ work' = [work EXCEPT ![w] = Idle]
    /\ UNCHANGED <<lease, routes, neighbors, crashed, lost>>

RestoreDone(w) ==
    /\ Restoring(w)
    /\ work[w].todo = {}
    /\ work' = [work EXCEPT ![w] = Idle]
    /\ UNCHANGED <<lease, queue, routes, neighbors, crashed, lost>>

----------------------------------------------------------------------------
(* The switch on its own (external).                                       *)

(* A client's traffic puts its hardware address into the ND table.         *)
NeighborLearned(c) ==
    /\ ~crashed /\ c \notin neighbors
    /\ neighbors' = neighbors \cup {c}
    /\ UNCHANGED <<lease, queue, work, routes, crashed, lost>>

(* A reboot loses the routes and the ND table; the heartbeat notices.      *)
Reboot ==
    /\ ~crashed /\ ~lost
    /\ routes' = {} /\ neighbors' = {} /\ lost' = TRUE
    /\ UNCHANGED <<lease, queue, work, crashed>>

Halted == crashed /\ UNCHANGED vars

----------------------------------------------------------------------------
(* The specification.                                                      *)

ClientStep(w) ==
    /\ Take(w) \/ Serve(w) \/ HandleLookup(w) \/ HandleLookupMissing(w)
       \/ HandleRouteReply(w)
    /\ UNCHANGED <<lease, lost>>

RestoreStep(w) ==
    HandleNeighbors(w) \/ RestoreThrows(w) \/ RestoreNA(w) \/ RestorePD(w)
    \/ RestoreDone(w)

FaultStep(w) ==
    /\ LoseRequestOrReply(w) \/ SwallowReply(w)
    /\ UNCHANGED <<lease, lost>>

PoolStep(w) == ClientStep(w) \/ RestoreStep(w)

CalloutStep ==
    \/ \E c \in Clients, a \in NAAddrs :
            SelectNA(c, a) \/ ReleaseNA(c, a) \/ DeclineNA(c, a)
    \/ \E c \in Clients, p \in Prefixes : SelectPD(c, p) \/ ReleasePD(c, p)
    \/ \E x \in Addrs : Expire(x)
    \/ \E c \in Clients, q, a \in NAAddrs : RenewNA(c, q, a)
    \/ \E c \in Clients, q, p \in Prefixes, rebind \in BOOLEAN :
            RenewPD(c, q, p, rebind)

SwitchStep ==
    \/ ConnectionRestored
    \/ Reboot
    \/ \E c \in Clients : NeighborLearned(c)

Next ==
    \/ CalloutStep
    \/ \E w \in Workers : PoolStep(w)
    \/ "faults" \in Relaxed /\ \E w \in Workers : FaultStep(w)
    \/ "reboot" \in Relaxed /\ SwitchStep
    \/ Halted

(* The pool's threads are always scheduled; Kea, the clients and the       *)
(* switch owe nobody a step.                                               *)
Fairness == \A w \in Workers : WF_vars(PoolStep(w))

SafetySpec == Init /\ [][Next]_vars
Spec       == SafetySpec /\ Fairness

----------------------------------------------------------------------------
(* Properties.                                                             *)

(* With TypeOK an inductive invariant: the handler of a lookup always      *)
(* finds the endpoint it is about to send (vlanIfName, iaNAAddrStr).       *)
AnswersTyped ==
    \A w \in Workers : work[w].phase = "answered" /\ work[w].req.op \in Lookups
                       => work[w].answer \in Endpoints

(* The endpoints that are right for x: an address goes to the VLAN         *)
(* interface of its client, a prefix to the client's IA_NA address (or to  *)
(* any it may have had, when that lease expired first).                    *)
Wanted(x) ==
    LET c  == lease[x].client
        na == findIA_NALeaseByDUID_IAID(c)
    IN  IF ~IsActive(x) THEN {}
        ELSE IF x \in NAAddrs THEN {VlanIf(VlanOf[c])}
        ELSE {Host(a) : a \in IF na = {} THEN NAAddrs ELSE na}

(* What the switch should hold for an address whose requests are all done. *)
RouteMatchesLease(x) ==
    IF IsActive(x) THEN \E d \in Wanted(x) : RoutesOf(x) = {d}
                   ELSE RoutesOf(x) = {}

(* The library implements the abstract route table: whatever the order of  *)
(* requests, lookups and replies, the routes change only to follow a       *)
(* lease, and a lease changes only where they have.                        *)
Table == INSTANCE RouteTable WITH
            wanted <- [x \in Addrs |-> Wanted(x)],
            table  <- [x \in Addrs |-> RoutesOf(x)]

TableSpec == Table!Spec

(* However the pool's threads interleave the requests of different         *)
(* addresses, an address with no request under way has exactly the routes  *)
(* its lease calls for (exportRoute and removeRoute of every callout).     *)
SettledRoutes == \A x \in Addrs : Busy(x) \/ RouteMatchesLease(x)

(* The part of SettledRoutes about leases that have ended: their routes    *)
(* are gone once nothing is under way for them.                            *)
EndedLeaseHasNoRoute == \A x \in Addrs : Busy(x) \/ IsActive(x) \/ RoutesOf(x) = {}

(* Nothing but a reboot takes away the route of a lease that stays active: *)
(* the removal requests of renewals, releases, declines and expirations,   *)
(* of which any may be late or lost, hit only the route they mean.         *)
ActiveRouteKept ==
    [][\/ Reboot
       \/ \A x \in Addrs : IsActive(x) /\ lease'[x] = lease[x]
                           => routes \cap ({x} \X Endpoints) \subseteq routes']_vars

(* The switch catches up with the lease database again and again: requests *)
(* do not pile up, get stuck between a lookup and its command, or leave a  *)
(* lease without its route for good (unless the process dies in            *)
(* HandleLookupMissing).                                                   *)
RoutesCatchUp == \A x \in Addrs : []<>(RouteMatchesLease(x) \/ crashed)

(* The undefined read of a disengaged TABLE_prefix never kills the server. *)
NeverCrashes == ~crashed

(* A restore looks at every lease it read: it only ends at the last one    *)
(* (which RestorePD and RestoreThrows leave in todo).                      *)
RestoreVisitsEveryLease ==
    [][\A w \in Workers : work[w].phase = "restoring" /\ work'[w] = Idle
                          => \A row, other \in work[w].todo : row = other]_vars

=============================================================================
