------------------------ MODULE DHCP6ExporterProofs ------------------------
(***************************************************************************)
(* Type correctness of DHCP6Exporter for every choice of the constants.    *)
(***************************************************************************)
EXTENDS DHCP6Exporter, TLAPS

TypeInv == TypeOK /\ AnswersTyped

(* What the handlers post are requests the pool and the switch understand. *)
LEMMA SendTyped ==
    ASSUME NEW r, r.type \in {"IA_NAInfo", "IA_NAFast", "IA_PDInfo"},
           r.src \in Addrs, r.dst \in Endpoints
    PROVE  sendRoutesToSwitch(r) \in Requests
  BY DEF sendRoutesToSwitch, Request, Requests

LEMMA RemoveTyped ==
    ASSUME NEW r, NEW na \in SUBSET NAAddrs,
           NEW req \in removeRoutesFromSwitch(r, na),
           r.src \in Addrs,
           r.type \in {"IA_NAInfo", "IA_PDInfo"} => r.dst \in Endpoints
    PROVE  req \in Requests
  <1>1. CASE r.type = "IA_NAInfo"
    BY <1>1 DEF removeRoutesFromSwitch, Request, Requests
  <1>2. CASE r.type = "IA_PDInfo"
    BY <1>2 DEF removeRoutesFromSwitch, Request, Requests
  <1>3. CASE r.type = "IA_PDInfoFuzzyRemove" /\ na # {}
    BY <1>3 DEF removeRoutesFromSwitch, Request, Requests, Host128, Endpoints
  <1>4. CASE /\ r.type \notin {"IA_NAInfo", "IA_PDInfo"}
             /\ ~(r.type = "IA_PDInfoFuzzyRemove" /\ na # {})
    BY <1>4 DEF removeRoutesFromSwitch, Request, Requests
  <1> QED BY <1>1, <1>2, <1>3, <1>4

(* Posting well-formed requests keeps the queue well-formed.               *)
LEMMA PostTyped ==
    ASSUME queue \in Seq(Requests)
    PROVE  /\ \A r \in Requests : Post(<<r>>) => queue' \in Seq(Requests)
           /\ \A r, s \in Requests : Post(<<r, s>>) => queue' \in Seq(Requests)
  BY DEF Post

(* The alternatives of a RouteExport the callouts build are well-formed.   *)
LEMMA RouteInfoTyped ==
    /\ \A v \in Vlans, a \in NAAddrs :
        /\ exportRoute(IA_NAInfo(v, a)) /\ queue \in Seq(Requests)
            => queue' \in Seq(Requests)
        /\ exportRoute(IA_NAFast(v, a)) /\ queue \in Seq(Requests)
            => queue' \in Seq(Requests)
    /\ \A a \in NAAddrs, p \in Prefixes :
        exportRoute(IA_PDInfo(Host(a), p)) /\ queue \in Seq(Requests)
            => queue' \in Seq(Requests)
  <1>1. \A v \in Vlans, a \in NAAddrs :
            /\ sendRoutesToSwitch(IA_NAInfo(v, a)) \in Requests
            /\ sendRoutesToSwitch(IA_NAFast(v, a)) \in Requests
    BY DEF sendRoutesToSwitch, IA_NAInfo, IA_NAFast, RouteInfo, Relay, VlanIf,
           Endpoints, Addrs, Request, Requests
  <1>2. \A a \in NAAddrs, p \in Prefixes :
            sendRoutesToSwitch(IA_PDInfo(Host(a), p)) \in Requests
    BY DEF sendRoutesToSwitch, IA_PDInfo, RouteInfo, Host, Endpoints, Addrs,
           Request, Requests
  <1> QED BY <1>1, <1>2, PostTyped DEF exportRoute

LEMMA ReplaceTyped ==
    ASSUME queue \in Seq(Requests)
    PROVE  /\ \A v \in Vlans, q, a \in NAAddrs :
                replaceRoute(IA_NAInfo(v, q), IA_NAInfo(v, a))
                    => queue' \in Seq(Requests)
           /\ \A v \in Vlans, a \in NAAddrs, q, p \in Prefixes :
                replaceRoute(IA_PDInfo(Relay(v), q), IA_PDInfo(Host(a), p))
                    => queue' \in Seq(Requests)
  <1>1. ASSUME NEW v \in Vlans, NEW q \in NAAddrs, NEW a \in NAAddrs,
               NEW req \in removeRoutesFromSwitch(IA_NAInfo(v, q), {})
        PROVE  /\ req \in Requests
               /\ sendRoutesToSwitch(IA_NAInfo(v, a)) \in Requests
    BY DEF removeRoutesFromSwitch, sendRoutesToSwitch, IA_NAInfo, RouteInfo,
           Relay, Endpoints, Addrs, Request, Requests
  <1>2. ASSUME NEW v \in Vlans, NEW q \in Prefixes, NEW p \in Prefixes,
               NEW a \in NAAddrs,
               NEW req \in removeRoutesFromSwitch(IA_PDInfo(Relay(v), q), {})
        PROVE  /\ req \in Requests
               /\ sendRoutesToSwitch(IA_PDInfo(Host(a), p)) \in Requests
    BY DEF removeRoutesFromSwitch, sendRoutesToSwitch, IA_PDInfo, RouteInfo,
           Relay, Host, Endpoints, Addrs, Request, Requests
  <1> QED BY <1>1, <1>2, PostTyped DEF replaceRoute

LEMMA RemoveRouteTyped ==
    ASSUME queue \in Seq(Requests), NEW r, NEW c, removeRoute(r, c),
           r.src \in Addrs,
           r.type \in {"IA_NAInfo", "IA_PDInfo"} => r.dst \in Endpoints
    PROVE  queue' \in Seq(Requests)
  <1>1. findIA_NALeaseByDUID_IAID(c) \in SUBSET NAAddrs
    BY DEF findIA_NALeaseByDUID_IAID
  <1> QED BY <1>1, RemoveTyped, PostTyped DEF removeRoute

LEMMA LeasesTyped ==
    /\ Free \in Leases /\ Declined \in Leases
    /\ \A c \in Clients : Active(c) \in Leases
    /\ \A c \in Clients \cup {None} : Reclaimed(c) \in Leases
  BY DEF Leases, Free, Declined, Active, Reclaimed

LEMMA IdleTyped == Idle \in Slots /\ Idle.phase = "idle"
  BY DEF Idle, Slots, Phases, Requests, NeighborsRequest, Request

THEOREM InitTyped == Init => TypeInv
  <1> SUFFICES ASSUME Init PROVE TypeInv
    OBVIOUS
  <1>1. LeaseTypeOK
    BY LeasesTyped DEF Init, LeaseInit, LeaseTypeOK
  <1>2. ClientTypeOK /\ lost \in BOOLEAN
    <2>1. queue \in Seq(Requests) /\ routes = {} /\ neighbors = {}
      BY DEF Init, ClientInit
    <2>2. work \in [Workers -> Slots]
      BY IdleTyped DEF Init, ClientInit
    <2>3. crashed = FALSE /\ lost = TRUE
      BY DEF Init, ClientInit
    <2> QED BY <2>1, <2>2, <2>3 DEF ClientTypeOK
  <1>3. AnswersTyped
    BY IdleTyped DEF Init, ClientInit, AnswersTyped
  <1> QED BY <1>1, <1>2, <1>3 DEF TypeInv, TypeOK

----------------------------------------------------------------------------
(* A callout changes the database and the queue, nothing else.             *)

LEMMA CalloutTyped ==
    ASSUME TypeInv, UNCHANGED otherVars,
           queue' \in Seq(Requests), lease' \in [Addrs -> Leases]
    PROVE  TypeInv'
  BY DEF TypeInv, TypeOK, LeaseTypeOK, ClientTypeOK, AnswersTyped, otherVars

LEMMA CalloutStepTyped == TypeInv /\ CalloutStep => TypeInv'
  <1> SUFFICES ASSUME TypeInv, CalloutStep PROVE TypeInv'
    OBVIOUS
  <1> lease \in [Addrs -> Leases] /\ queue \in Seq(Requests)
    BY DEF TypeInv, TypeOK, LeaseTypeOK, ClientTypeOK
  <1>v. \A c \in Clients : VlanOf[c] \in Vlans
    BY VlanAssumption
  <1>n. \A c : findIA_NALeaseByDUID_IAID(c) \subseteq NAAddrs
    BY DEF findIA_NALeaseByDUID_IAID
  <1>1. ASSUME NEW c \in Clients, NEW a \in NAAddrs, SelectNA(c, a)
        PROVE  TypeInv'
    <2>1. queue' \in Seq(Requests)
      BY <1>1, <1>v, RouteInfoTyped DEF SelectNA
    <2>2. lease' \in [Addrs -> Leases]
      BY <1>1, LeasesTyped DEF SelectNA, Addrs
    <2> QED BY <1>1, <2>1, <2>2, CalloutTyped DEF SelectNA
  <1>2. ASSUME NEW c \in Clients, NEW a \in NAAddrs,
               ReleaseNA(c, a) \/ DeclineNA(c, a)
        PROVE  TypeInv'
    <2> DEFINE r == IA_NAInfo(VlanOf[c], a)
    <2>1. r.src \in Addrs /\ r.dst \in Endpoints
      BY <1>v DEF IA_NAInfo, RouteInfo, Relay, Endpoints, Addrs
    <2>2. queue' \in Seq(Requests)
      BY <1>2, <2>1, RemoveRouteTyped DEF ReleaseNA, DeclineNA, EndNA
    <2>3. lease' \in [Addrs -> Leases]
      BY <1>2, LeasesTyped DEF ReleaseNA, DeclineNA, EndNA, Addrs
    <2> QED BY <1>2, <2>2, <2>3, CalloutTyped DEF ReleaseNA, DeclineNA, EndNA
  <1>3. ASSUME NEW c \in Clients, NEW p \in Prefixes, SelectPD(c, p)
        PROVE  TypeInv'
    <2>1. queue' \in Seq(Requests)
      BY <1>3, <1>n, RouteInfoTyped DEF SelectPD
    <2>2. lease' \in [Addrs -> Leases]
      BY <1>3, LeasesTyped DEF SelectPD, Addrs
    <2> QED BY <1>3, <2>1, <2>2, CalloutTyped DEF SelectPD
  <1>4. ASSUME NEW c \in Clients, NEW p \in Prefixes, ReleasePD(c, p)
        PROVE  TypeInv'
    <2>1. ASSUME NEW a \in NAAddrs, removeRoute(IA_PDInfo(Host(a), p), c)
          PROVE  queue' \in Seq(Requests)
      <3>1. /\ IA_PDInfo(Host(a), p).src \in Addrs
            /\ IA_PDInfo(Host(a), p).dst \in Endpoints
        BY DEF IA_PDInfo, RouteInfo, Host, Endpoints, Addrs
      <3> QED BY <2>1, <3>1, RemoveRouteTyped
    <2>2. queue' \in Seq(Requests)
      BY <1>4, <1>n, <2>1 DEF ReleasePD
    <2>3. lease' \in [Addrs -> Leases]
      BY <1>4, LeasesTyped DEF ReleasePD, Addrs
    <2> QED BY <1>4, <2>2, <2>3, CalloutTyped DEF ReleasePD
  <1>5. ASSUME NEW x \in Addrs, Expire(x)
        PROVE  TypeInv'
    <2> DEFINE r == IF x \in NAAddrs THEN IA_NAInfoFuzzyRemove(x)
                                     ELSE IA_PDInfoFuzzyRemove(x)
    <2>1. r.src \in Addrs /\ r.type \notin {"IA_NAInfo", "IA_PDInfo"}
      BY DEF IA_NAInfoFuzzyRemove, IA_PDInfoFuzzyRemove, RouteInfo
    <2>2. removeRoute(r, lease[x].client)
      BY <1>5 DEF Expire
    <2>3. queue' \in Seq(Requests)
      BY <2>1, <2>2, RemoveRouteTyped
    <2>4. lease[x].client \in Clients \cup {None}
      BY DEF Leases
    <2>5. lease' \in [Addrs -> Leases]
      BY <1>5, <2>4, LeasesTyped DEF Expire
    <2> QED BY <1>5, <2>3, <2>5, CalloutTyped DEF Expire
  <1>6. ASSUME NEW c \in Clients, NEW q \in NAAddrs, NEW a \in NAAddrs,
               RenewNA(c, q, a)
        PROVE  TypeInv'
    <2>1. queue' \in Seq(Requests)
      BY <1>6, <1>v, RouteInfoTyped, ReplaceTyped DEF RenewNA
    <2>2. lease' \in [Addrs -> Leases]
      BY <1>6, LeasesTyped DEF RenewNA, Extended, Addrs
    <2> QED BY <1>6, <2>1, <2>2, CalloutTyped DEF RenewNA
  <1>7. ASSUME NEW c \in Clients, NEW q \in Prefixes, NEW p \in Prefixes,
               NEW rebind \in BOOLEAN, RenewPD(c, q, p, rebind)
        PROVE  TypeInv'
    <2>1. queue' \in Seq(Requests)
      BY <1>7, <1>v, <1>n, RouteInfoTyped, ReplaceTyped DEF RenewPD
    <2>2. lease' \in [Addrs -> Leases]
      BY <1>7, LeasesTyped DEF RenewPD, Extended, Addrs
    <2> QED BY <1>7, <2>1, <2>2, CalloutTyped DEF RenewPD
  <1> QED BY <1>1, <1>2, <1>3, <1>4, <1>5, <1>6, <1>7 DEF CalloutStep

----------------------------------------------------------------------------
(* A pool thread's step changes its own slot, the queue and the switch.    *)

(* A thread that finishes a handler is idle again.                         *)
LEMMA FreeSlotTyped ==
    ASSUME NEW w \in Workers, work \in [Workers -> Slots], AnswersTyped,
           work' = [work EXCEPT ![w] = Idle]
    PROVE  work' \in [Workers -> Slots] /\ AnswersTyped'
  BY IdleTyped DEF AnswersTyped

LEMMA ReplyTyped ==
    ASSUME NEW w \in Workers, NEW phase \in Phases,
           NEW answer \in Endpoints \cup {None},
           work \in [Workers -> Slots], AnswersTyped, Reply(w, phase, answer),
           phase = "answered" /\ work[w].req.op \in Lookups => answer \in Endpoints
    PROVE  work' \in [Workers -> Slots] /\ AnswersTyped'
  BY DEF Reply, AnswersTyped, Slots

LEMMA ClientStepTyped ==
    ASSUME TypeInv, NEW w \in Workers, ClientStep(w)
    PROVE  TypeInv'
  <1> lease \in [Addrs -> Leases] /\ UNCHANGED <<lease, lost>>
    BY DEF TypeInv, TypeOK, LeaseTypeOK, ClientStep
  <1> queue \in Seq(Requests) /\ work \in [Workers -> Slots] /\ AnswersTyped
    BY DEF TypeInv, TypeOK, ClientTypeOK
  <1> routes \subseteq Addrs \X Endpoints /\ neighbors \subseteq Clients
    BY DEF TypeInv, TypeOK, ClientTypeOK
  <1> DEFINE Kept == /\ routes' \subseteq Addrs \X Endpoints
                     /\ neighbors' \subseteq Clients
                     /\ crashed' \in BOOLEAN
             Good == queue' \in Seq(Requests) /\ work' \in [Workers -> Slots]
                     /\ AnswersTyped'
  <1>c. crashed \in BOOLEAN /\ lost \in BOOLEAN
    BY DEF TypeInv, TypeOK, ClientTypeOK
  <1>s. SUFFICES Kept /\ Good
    BY <1>c DEF TypeInv, TypeOK, LeaseTypeOK, ClientTypeOK
  <1>r. work[w].req \in Requests
    BY DEF Slots
  <1>1. CASE Take(w)
    <2>1. Head(queue) \in Requests /\ Tail(queue) \in Seq(Requests)
      BY <1>1 DEF Take
    <2>2. [Idle EXCEPT !.phase = "sent", !.req = Head(queue)] \in Slots
      BY <2>1, IdleTyped DEF Slots, Phases
    <2>3. [Idle EXCEPT !.phase = "sent", !.req = Head(queue)].phase # "answered"
      BY IdleTyped DEF Slots
    <2>4. Good
      BY <1>1, <2>1, <2>2, <2>3 DEF Take, AnswersTyped
    <2> QED BY <1>1, <1>c, <2>4 DEF Take
  <1>2. CASE ServeRelayLookup(w)
    <2>1. VlanIf(work[w].req.dst.id) \in Endpoints
      BY <1>2, <1>r DEF ServeRelayLookup, Sent, Requests, NeighborsRequest, Request,
                        Endpoints, VlanIf
    <2>2. Good
      BY <1>2, <2>1, ReplyTyped DEF ServeRelayLookup, Phases
    <2> QED BY <1>2, <1>c, <2>2 DEF ServeRelayLookup
  <1>3. CASE ServeRouteLookup(w)
    <2>1. RoutesOf(work[w].req.src) \subseteq Endpoints
      BY DEF RoutesOf, EndpointsOf
    <2>2. Good
      BY <1>3, <2>1, ReplyTyped DEF ServeRouteLookup, Phases
    <2> QED BY <1>3, <1>c, <2>2 DEF ServeRouteLookup
  <1>4. CASE ServeApply(w)
    <2>1. work[w].req.src \in Addrs /\ work[w].req.dst \in Endpoints
      BY <1>4, <1>r DEF ServeApply, Sent, Requests, NeighborsRequest, Request
    <2>2. Good
      BY <1>4, ReplyTyped DEF ServeApply, Sent, Phases, Lookups
    <2> QED BY <1>4, <1>c, <2>1, <2>2 DEF ServeApply
  <1>5. CASE ServeRemove(w)
    <2>1. Good
      BY <1>5, ReplyTyped DEF ServeRemove, Sent, Phases, Lookups
    <2>2. routes' \subseteq routes /\ neighbors' \subseteq neighbors
      BY <1>5 DEF ServeRemove
    <2> QED BY <1>5, <1>c, <2>1, <2>2 DEF ServeRemove
  <1>6. CASE ServeNeighbors(w)
    <2>1. Good
      BY <1>6 DEF ServeNeighbors, Sent, Phases, Lookups, Slots, AnswersTyped
    <2> QED BY <1>6, <1>c, <2>1 DEF ServeNeighbors
  <1>7. CASE HandleLookup(w)
    <2> DEFINE op == IF work[w].req.op = "lookupApply" THEN "apply" ELSE "remove"
    <2>1. Request(op, work[w].req.src, work[w].answer) \in Requests
      BY <1>7, <1>r DEF HandleLookup, Lookups, Requests, NeighborsRequest, Request,
                        AnswersTyped
    <2>2. queue' \in Seq(Requests)
      BY <1>7, <2>1, PostTyped DEF HandleLookup
    <2> QED BY <1>7, <1>c, <2>2, FreeSlotTyped DEF HandleLookup
  <1>8. CASE HandleLookupMissing(w)
    BY <1>8, FreeSlotTyped DEF HandleLookupMissing
  <1>9. CASE HandleRouteReply(w)
    BY <1>9, <1>c, FreeSlotTyped DEF HandleRouteReply
  <1> QED BY <1>1, <1>2, <1>3, <1>4, <1>5, <1>6, <1>7, <1>8, <1>9
          DEF ClientStep, Serve

LEMMA RestoreStepTyped ==
    ASSUME TypeInv, NEW w \in Workers, RestoreStep(w)
    PROVE  TypeInv'
  <1> lease \in [Addrs -> Leases] /\ lost \in BOOLEAN /\ crashed \in BOOLEAN
    BY DEF TypeInv, TypeOK, LeaseTypeOK, ClientTypeOK
  <1> queue \in Seq(Requests) /\ work \in [Workers -> Slots] /\ AnswersTyped
    BY DEF TypeInv, TypeOK, ClientTypeOK
  <1> routes \subseteq Addrs \X Endpoints /\ neighbors \subseteq Clients
    BY DEF TypeInv, TypeOK, ClientTypeOK
  <1>u. UNCHANGED <<lease, routes, neighbors, crashed>>
    BY DEF RestoreStep, HandleNeighbors, RestoreThrows, RestoreNA, RestorePD,
           RestoreDone
  <1>s. SUFFICES /\ queue' \in Seq(Requests)
                 /\ work' \in [Workers -> Slots] /\ AnswersTyped'
                 /\ lost' \in BOOLEAN
    BY <1>u DEF TypeInv, TypeOK, LeaseTypeOK, ClientTypeOK
  <1>1. CASE HandleNeighbors(w)
    <2> DEFINE rows == {[addr |-> x, client |-> lease[x].client] :
                            x \in {y \in Addrs : lease[y].state # "free"}}
    <2>1. CASE work[w].phase = "failed"
      BY <1>1, <2>1, FreeSlotTyped DEF HandleNeighbors
    <2>2. CASE work[w].phase = "answered"
      <3>1. rows \in SUBSET LeaseRows
        BY DEF LeaseRows, Leases
      <3>2. work' = [work EXCEPT ![w].phase = "restoring", ![w].todo = rows]
        BY <1>1, <2>2 DEF HandleNeighbors
      <3>3. work' \in [Workers -> Slots]
        BY <3>1, <3>2 DEF Slots, Phases
      <3>4. AnswersTyped'
        BY <3>2 DEF AnswersTyped, Slots
      <3> QED BY <1>1, <2>2, <3>3, <3>4 DEF HandleNeighbors
    <2> QED BY <1>1, <2>1, <2>2 DEF HandleNeighbors
  <1>2. CASE RestoreThrows(w) \/ RestoreDone(w)
    BY <1>2, FreeSlotTyped DEF RestoreThrows, RestoreDone
  <1>3. CASE RestoreNA(w)
    <2>1. PICK row \in work[w].todo :
            /\ row.client # None /\ row.addr \in NAAddrs
            /\ IF row.client \in work[w].known
               THEN exportRoute(IA_NAFast(VlanOf[row.client], row.addr))
               ELSE UNCHANGED queue
            /\ work' = [work EXCEPT ![w].todo = @ \ {row}]
      BY <1>3 DEF RestoreNA
    <2>2. work[w].todo \subseteq LeaseRows /\ work[w].known \subseteq Clients
      BY DEF Slots
    <2>3. work[w].todo \ {row} \in SUBSET LeaseRows
      BY <2>2
    <2>4. work' \in [Workers -> Slots]
      BY <2>1, <2>3 DEF Slots
    <2>5. AnswersTyped'
      BY <2>1 DEF AnswersTyped, Slots
    <2>6. queue' \in Seq(Requests)
      BY <2>1, <2>2, VlanAssumption, RouteInfoTyped
    <2> QED BY <1>3, <2>4, <2>5, <2>6 DEF RestoreNA
  <1>4. CASE RestorePD(w)
    <2>1. \A c : findIA_NALeaseByDUID_IAID(c) \subseteq NAAddrs
      BY DEF findIA_NALeaseByDUID_IAID
    <2>2. queue' \in Seq(Requests)
      BY <1>4, <2>1, RouteInfoTyped DEF RestorePD
    <2> QED BY <1>4, <2>2, FreeSlotTyped DEF RestorePD
  <1> QED BY <1>1, <1>2, <1>3, <1>4 DEF RestoreStep

LEMMA FaultStepTyped ==
    ASSUME TypeInv, NEW w \in Workers, FaultStep(w)
    PROVE  TypeInv'
  <1> work \in [Workers -> Slots] /\ AnswersTyped
    BY DEF TypeInv, TypeOK, ClientTypeOK
  <1>1. UNCHANGED <<lease, queue, routes, neighbors, crashed, lost>>
    BY DEF FaultStep, LoseRequestOrReply, SwallowReply
  <1>2. work' \in [Workers -> Slots] /\ AnswersTyped'
    BY FreeSlotTyped, ReplyTyped DEF FaultStep, LoseRequestOrReply, SwallowReply,
                                     Phases
  <1> QED BY <1>1, <1>2 DEF TypeInv, TypeOK, LeaseTypeOK, ClientTypeOK

LEMMA SwitchStepTyped ==
    ASSUME TypeInv, SwitchStep
    PROVE  TypeInv'
  <1> queue \in Seq(Requests) /\ neighbors \subseteq Clients
    BY DEF TypeInv, TypeOK, ClientTypeOK
  <1>1. CASE ConnectionRestored
    <2>1. NeighborsRequest \in Requests
      BY DEF Requests
    <2>2. queue' \in Seq(Requests)
      BY <1>1, <2>1, PostTyped DEF ConnectionRestored
    <2> QED BY <1>1, <2>2 DEF ConnectionRestored, TypeInv, TypeOK, LeaseTypeOK,
                              ClientTypeOK, AnswersTyped
  <1>2. CASE Reboot
    BY <1>2 DEF Reboot, TypeInv, TypeOK, LeaseTypeOK, ClientTypeOK, AnswersTyped
  <1>3. ASSUME NEW c \in Clients, NeighborLearned(c)
        PROVE  TypeInv'
    BY <1>3 DEF NeighborLearned, TypeInv, TypeOK, LeaseTypeOK, ClientTypeOK,
                AnswersTyped
  <1> QED BY <1>1, <1>2, <1>3 DEF SwitchStep

LEMMA StutterTyped == TypeInv /\ UNCHANGED vars => TypeInv'
  BY DEF vars, clientVars, TypeInv, TypeOK, LeaseTypeOK, ClientTypeOK, AnswersTyped

(* Every step of the pool, of Kea and of the switch keeps the types.       *)
THEOREM NextTyped == TypeInv /\ [Next]_vars => TypeInv'
  BY CalloutStepTyped, ClientStepTyped, RestoreStepTyped, FaultStepTyped,
     SwitchStepTyped, StutterTyped
     DEF Next, PoolStep, Halted

(* For any number of clients, addresses, VLANs and pool threads, any bound *)
(* and any environment, the exporter keeps its types: no handler ever      *)
(* sends a malformed request or an endpoint it did not find.               *)
THEOREM TypeCorrect == SafetySpec => []TypeOK
  <1>1. TypeInv => TypeOK
    BY DEF TypeInv
  <1> QED BY InitTyped, NextTyped, <1>1, PTL DEF SafetySpec

=============================================================================
