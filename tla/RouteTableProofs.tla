--------------------------- MODULE RouteTableProofs ---------------------------
(***************************************************************************)
(* The exporter implements RouteTable, for any clients, addresses,         *)
(* prefixes, VLANs and pool threads, as long as its assumptions about the  *)
(* environment hold: every request on its way fits its lease, no two are   *)
(* about the same address, and so the routes follow the leases.            *)
(***************************************************************************)
EXTENDS ExporterInvariant, DHCP6ExporterProofs

RouteInv == TypeInv /\ SettledRoutes /\ RequestsFit

LEMMA TypesUsed ==
    ASSUME TypeInv
    PROVE  /\ lease \in [Addrs -> Leases] /\ queue \in Seq(Requests)
           /\ work \in [Workers -> Slots] /\ routes \subseteq Addrs \X Endpoints
           /\ NAAddrs \subseteq Addrs /\ Prefixes \subseteq Addrs
           /\ NAAddrs \cap Prefixes = {}
           /\ \A c \in Clients : VlanOf[c] \in Vlans
           /\ None \notin Addrs /\ None \notin Clients
BY AddrsAssumption, ClientsAssumption, VlanAssumption
   DEF TypeInv, TypeOK, LeaseTypeOK, ClientTypeOK, Addrs

(* An active lease is Active of its client.                                *)
LEMMA ActiveLease ==
    ASSUME lease \in [Addrs -> Leases], NEW x \in Addrs
    PROVE  /\ IsActive(x) <=> lease[x] = Active(lease[x].client)
           /\ \A c : Holds(c, x) => IsActive(x) /\ lease[x].client = c
BY DEF Leases, IsActive, Active, Holds

(* What is right for a lease is an endpoint, and no "/128" one.            *)
LEMMA WantedTyped ==
    ASSUME TypeInv, LeasesFit, NEW x \in Addrs, NEW d \in Wanted(x)
    PROVE  d \in Endpoints /\ NextHop(d) = d
<1>1. IsActive(x) /\ lease[x].client \in Clients
  BY DEF Wanted, LeasesFit
<1>2. CASE x \in NAAddrs
  BY <1>1, <1>2, TypesUsed DEF Wanted, VlanIf, Endpoints, NextHop
<1>3. CASE x \notin NAAddrs
  <2>1. PICK a \in NAAddrs : d = Host(a)
    BY <1>1, <1>3 DEF Wanted, findIA_NALeaseByDUID_IAID
  <2> QED
    BY <2>1 DEF Host, Endpoints, NextHop
<1> QED
  BY <1>2, <1>3

(* As long as a prefix keeps its lease, what is right for it stays right,  *)
(* if its client keeps or loses its address.                               *)
LEMMA WantedStays ==
    ASSUME NEW y \in Addrs, lease'[y] = lease[y],
           IsActive(y) /\ y \notin NAAddrs =>
              \/ findIA_NALeaseByDUID_IAID(lease[y].client)'
                    = findIA_NALeaseByDUID_IAID(lease[y].client)
              \/ findIA_NALeaseByDUID_IAID(lease[y].client)' = {}
    PROVE  Wanted(y) \subseteq Wanted(y)'
<1> DEFINE na == findIA_NALeaseByDUID_IAID(lease[y].client)
<1>0. na \subseteq NAAddrs
  BY DEF findIA_NALeaseByDUID_IAID
<1>1. (IsActive(y) <=> IsActive(y)') /\ lease[y].client' = lease[y].client
  BY DEF IsActive
<1>2. CASE y \in NAAddrs \/ ~IsActive(y)
  BY <1>1, <1>2 DEF Wanted
<1>3. CASE y \notin NAAddrs /\ IsActive(y)
  <2>1. Wanted(y) = {Host(a) : a \in IF na = {} THEN NAAddrs ELSE na}
    BY <1>3 DEF Wanted
  <2>2. Wanted(y)' = {Host(a) : a \in IF na' = {} THEN NAAddrs ELSE na'}
    BY <1>1, <1>3 DEF Wanted
  <2>3. na' = na \/ na' = {}
    BY <1>3
  <2> HIDE DEF na
  <2> QED
    BY <1>0, <2>1, <2>2, <2>3
<1> QED
  BY <1>2, <1>3

(* Agreement and fitting depend on the lease, the routes and the endpoints *)
(* that are right for one address only.                                    *)
LEMMA FitsStays ==
    ASSUME NEW y, lease'[y] = lease[y], RoutesOf(y)' = RoutesOf(y),
           Wanted(y) \subseteq Wanted(y)'
    PROVE  /\ RouteMatchesLease(y) => RouteMatchesLease(y)'
           /\ \A r, phase, answer :
                r.src = y /\ Fits(r, phase, answer) => Fits(r, phase, answer)'
<1>1. IsActive(y) <=> IsActive(y)'
  BY DEF IsActive
<1>2. RouteMatchesLease(y) => RouteMatchesLease(y)'
  BY <1>1 DEF RouteMatchesLease, RoutesOf
<1>3. ASSUME NEW r, NEW phase, NEW answer, r.src = y, Fits(r, phase, answer)
      PROVE  Fits(r, phase, answer)'
  BY <1>1, <1>2, <1>3 DEF Fits, Complete, AimsAt
<1> QED
  BY <1>2, <1>3

(* In a pool of fitting requests an address is busy if and only if one of  *)
(* them is about it.                                                       *)
LEMMA BusyMeans ==
    ASSUME RequestsFit, NEW x
    PROVE  Busy(x) <=> \/ \E i \in DOMAIN queue : queue[i].src = x
                       \/ \E w \in ActiveWorkers : work[w].req.src = x
BY DEF Busy, InPool, RequestsFit, QueueFits, WorkFits, Fits

----------------------------------------------------------------------------
(* Callouts.                                                               *)

(* The queue after requests have been posted.                              *)
LEMMA Posted ==
    ASSUME queue \in Seq(Requests), NEW reqs \in Seq(Requests),
           queue' = queue \o reqs
    PROVE  /\ \A i \in DOMAIN queue' :
                \/ i \in DOMAIN queue /\ queue'[i] = queue[i]
                \/ \E j \in DOMAIN reqs : i = Len(queue) + j /\ queue'[i] = reqs[j]
           /\ \A i \in DOMAIN queue : i \in DOMAIN queue' /\ queue'[i] = queue[i]
           /\ \A j \in DOMAIN reqs : /\ Len(queue) + j \in DOMAIN queue'
                                     /\ queue'[Len(queue) + j] = reqs[j]
           /\ DOMAIN queue \subseteq 1 .. Len(queue)
<1>1. /\ DOMAIN queue = 1 .. Len(queue) /\ DOMAIN reqs = 1 .. Len(reqs)
      /\ Len(queue) \in Nat /\ Len(reqs) \in Nat
  OBVIOUS
<1>2. /\ DOMAIN queue' = 1 .. (Len(queue) + Len(reqs))
      /\ \A i \in 1 .. (Len(queue) + Len(reqs)) :
            queue'[i] = IF i <= Len(queue) THEN queue[i] ELSE reqs[i - Len(queue)]
  OBVIOUS
<1>3. ASSUME NEW i \in DOMAIN queue'
      PROVE  \/ i \in DOMAIN queue /\ queue'[i] = queue[i]
             \/ \E j \in DOMAIN reqs : i = Len(queue) + j /\ queue'[i] = reqs[j]
  <2>1. CASE i <= Len(queue)
    BY <1>1, <1>2, <2>1
  <2>2. CASE ~(i <= Len(queue))
    <3>1. i - Len(queue) \in DOMAIN reqs /\ i = Len(queue) + (i - Len(queue))
      BY <1>1, <1>2, <2>2
    <3> QED
      BY <1>2, <2>2, <3>1
  <2> QED
    BY <2>1, <2>2
<1>4. \A j \in DOMAIN reqs : /\ Len(queue) + j \in DOMAIN queue'
                             /\ queue'[Len(queue) + j] = reqs[j]
  BY <1>1, <1>2
<1> QED
  BY <1>1, <1>2, <1>3, <1>4

(* What a callout owes the invariant, and the addresses it must not touch. *)
CalloutKeeps ==
    /\ SettledRoutes' /\ RequestsFit'
    /\ \A x \in Addrs : Busy(x) => lease'[x] = lease[x] /\ Wanted(x) \subseteq Wanted(x)'

(* A callout about the addresses xs, none of which is busy, keeps the      *)
(* invariant if the requests it posts fit the leases it leaves behind.     *)
LEMMA CalloutKeepsFit ==
    ASSUME RouteInv, UNCHANGED otherVars,
           NEW xs \in SUBSET Addrs, NEW reqs \in Seq(Requests),
           queue' = queue \o reqs,
           \A x \in xs : ~Busy(x),
           \A y \in Addrs \ xs : lease'[y] = lease[y] /\ Wanted(y) \subseteq Wanted(y)',
           LeasesFit',
           \A i \in DOMAIN reqs : reqs[i].src \in xs /\ Fits(reqs[i], "sent", None)',
           \A i, j \in DOMAIN reqs : reqs[i].src = reqs[j].src => i = j,
           \A x \in xs : \/ \E i \in DOMAIN reqs : reqs[i].src = x
                         \/ RouteMatchesLease(x)'
    PROVE  CalloutKeeps
<1>t. queue \in Seq(Requests) /\ work \in [Workers -> Slots]
  BY TypesUsed DEF RouteInv
<1>u. work' = work /\ routes' = routes /\ ActiveWorkers' = ActiveWorkers
  BY DEF otherVars, ActiveWorkers
<1>f. /\ QueueFits /\ WorkFits
      /\ \A x \in Addrs : Busy(x) \/ RouteMatchesLease(x)
  BY DEF RouteInv, RequestsFit, SettledRoutes
<1>b. \A x : Busy(x) <=> \/ \E i \in DOMAIN queue : queue[i].src = x
                         \/ \E w \in ActiveWorkers : work[w].req.src = x
  BY BusyMeans DEF RouteInv
<1>s. /\ \A i \in DOMAIN queue : queue[i].src \in Addrs \ xs
      /\ \A w \in ActiveWorkers : work[w].req.src \in Addrs \ xs
  <2>1. \A r \in Requests : r.op # "neighbors" => r.src \in Addrs
    BY DEF Requests, NeighborsRequest, Request
  <2>2. /\ \A i \in DOMAIN queue : queue[i] \in Requests /\ queue[i].op # "neighbors"
        /\ \A w \in ActiveWorkers : work[w].req \in Requests /\ work[w].req.op # "neighbors"
    BY <1>t, <1>f DEF QueueFits, WorkFits, Fits, ActiveWorkers, Slots
  <2> QED
    BY <1>b, <2>1, <2>2
<1>k. ASSUME NEW y \in Addrs \ xs
      PROVE  /\ RouteMatchesLease(y) => RouteMatchesLease(y)'
             /\ \A r, phase, answer :
                    r.src = y /\ Fits(r, phase, answer) => Fits(r, phase, answer)'
  BY <1>u, <1>k, FitsStays DEF RoutesOf
<1>p. /\ \A i \in DOMAIN queue' :
            \/ i \in DOMAIN queue /\ queue'[i] = queue[i]
            \/ \E j \in DOMAIN reqs : i = Len(queue) + j /\ queue'[i] = reqs[j]
      /\ \A i \in DOMAIN queue : i \in DOMAIN queue' /\ queue'[i] = queue[i]
      /\ \A j \in DOMAIN reqs : /\ Len(queue) + j \in DOMAIN queue'
                                /\ queue'[Len(queue) + j] = reqs[j]
  BY <1>t, Posted
<1>1. QueueFits'
  <2>1. ASSUME NEW i \in DOMAIN queue' PROVE Fits(queue[i], "sent", None)'
    <3>1. CASE i \in DOMAIN queue /\ queue'[i] = queue[i]
      BY <1>f, <1>s, <1>k, <3>1 DEF QueueFits
    <3>2. CASE \E j \in DOMAIN reqs : queue'[i] = reqs[j]
      BY <3>2
    <3> QED
      BY <1>p, <3>1, <3>2
  <2>2. ASSUME NEW i \in DOMAIN queue', NEW j \in DOMAIN queue',
               queue'[i].src = queue'[j].src
        PROVE  i = j
    <3>1. CASE i \in DOMAIN queue /\ j \in DOMAIN queue
      BY <1>f, <1>p, <2>2, <3>1 DEF QueueFits
    <3>2. CASE i \in DOMAIN queue /\ j \notin DOMAIN queue
      BY <1>p, <1>s, <2>2, <3>2
    <3>3. CASE i \notin DOMAIN queue /\ j \in DOMAIN queue
      BY <1>p, <1>s, <2>2, <3>3
    <3>4. CASE i \notin DOMAIN queue /\ j \notin DOMAIN queue
      <4>1. PICK k \in DOMAIN reqs : i = Len(queue) + k /\ queue'[i] = reqs[k]
        BY <1>p, <3>4
      <4>2. PICK l \in DOMAIN reqs : j = Len(queue) + l /\ queue'[j] = reqs[l]
        BY <1>p, <3>4
      <4> QED
        BY <2>2, <4>1, <4>2
    <3> QED
      BY <3>1, <3>2, <3>3, <3>4
  <2> QED
    BY <2>1, <2>2 DEF QueueFits
<1>2. WorkFits'
  <2>1. ASSUME NEW w \in ActiveWorkers
        PROVE  Fits(work[w].req, work[w].phase, work[w].answer)'
    <3>1. Fits(work[w].req, work[w].phase, work[w].answer)
      BY <1>f DEF WorkFits
    <3> DEFINE r == work[w].req  ph == work[w].phase  ans == work[w].answer
    <3>2. r' = r /\ ph' = ph /\ ans' = ans
      BY <1>u
    <3>3. r.src \in Addrs \ xs
      BY <1>s
    <3> HIDE DEF r, ph, ans
    <3>4. PICK rr, pp, aa : rr = r /\ pp = ph /\ aa = ans
      OBVIOUS
    <3>5. Fits(rr, pp, aa)
      BY <3>1, <3>4 DEF r, ph, ans
    <3>6. Fits(rr, pp, aa)'
      BY <1>k, <3>3, <3>4, <3>5
    <3> QED
      BY <3>2, <3>4, <3>6 DEF r, ph, ans
  <2>2. ASSUME NEW w \in ActiveWorkers, NEW i \in DOMAIN queue'
        PROVE  queue'[i].src # work[w].req.src
    BY <1>f, <1>p, <1>s DEF WorkFits
  <2> QED
    BY <1>u, <1>f, <2>1, <2>2 DEF WorkFits
<1>3. SettledRoutes'
  <2> SUFFICES ASSUME NEW x \in Addrs, ~Busy(x)' PROVE RouteMatchesLease(x)'
    BY DEF SettledRoutes
  <2>0. InPool' = {queue'[i] : i \in DOMAIN queue'} \cup {work[w].req : w \in ActiveWorkers}
    BY <1>u DEF InPool
  <2>1. /\ \A i \in DOMAIN queue' : queue'[i].src # x
        /\ \A w \in ActiveWorkers : work[w].req.src # x
    BY <2>0 DEF Busy
  <2>2. CASE x \in xs
    <3>1. ASSUME NEW i \in DOMAIN reqs PROVE reqs[i].src # x
      <4>1. /\ Len(queue) + i \in DOMAIN queue'
            /\ queue'[Len(queue) + i] = reqs[i]
        BY <1>p
      <4>2. queue'[Len(queue) + i].src # x
        BY <2>1, <4>1
      <4> QED
        BY <4>1, <4>2
    <3> QED
      BY <2>2, <3>1
  <2>3. CASE x \notin xs
    <3>1. ~Busy(x)
      BY <1>b, <1>p, <2>1
    <3> QED
      BY <1>f, <1>k, <2>3, <3>1
  <2> QED
    BY <2>2, <2>3
<1>4. \A x \in Addrs : Busy(x) => lease'[x] = lease[x] /\ Wanted(x) \subseteq Wanted(x)'
  OBVIOUS
<1> QED
  BY <1>1, <1>2, <1>3, <1>4 DEF RequestsFit, CalloutKeeps

(* The requests a callout posts, as a sequence of known length.            *)
LEMMA OneRequest ==
    ASSUME NEW r \in Requests
    PROVE  <<r>> \in Seq(Requests) /\ DOMAIN <<r>> = {1} /\ <<r>>[1] = r
OBVIOUS

LEMMA TwoRequests ==
    ASSUME NEW r \in Requests, NEW s \in Requests
    PROVE  /\ <<r, s>> \in Seq(Requests) /\ DOMAIN <<r, s>> = {1, 2}
           /\ <<r, s>>[1] = r /\ <<r, s>>[2] = s
OBVIOUS

(* A callout that posts one request, two requests, or none.                *)
LEMMA CalloutOfOne ==
    ASSUME RouteInv, UNCHANGED otherVars, NEW x \in Addrs, NEW r \in Requests,
           queue' = queue \o <<r>>, ~Busy(x), LeasesFit',
           \A y \in Addrs \ {x} : lease'[y] = lease[y] /\ Wanted(y) \subseteq Wanted(y)',
           r.src = x, Fits(r, "sent", None)'
    PROVE  CalloutKeeps
<1> DEFINE xs == {x}  reqs == <<r>>
<1>1. xs \in SUBSET Addrs /\ \A z \in xs : z = x
  OBVIOUS
<1>2. reqs \in Seq(Requests) /\ DOMAIN reqs = {1} /\ reqs[1] = r
  BY OneRequest
<1>3. /\ \A z \in xs : ~Busy(z)
      /\ \A y \in Addrs \ xs : lease'[y] = lease[y] /\ Wanted(y) \subseteq Wanted(y)'
      /\ \A i, j \in DOMAIN reqs : reqs[i].src = reqs[j].src => i = j
      /\ \A z \in xs : \/ \E i \in DOMAIN reqs : reqs[i].src = z
                      \/ RouteMatchesLease(z)'
  BY <1>2
<1>5. queue' = queue \o reqs
  OBVIOUS
<1>4. \A i \in DOMAIN reqs : reqs[i].src \in xs /\ Fits(reqs[i], "sent", None)'
  BY <1>2
<1> HIDE DEF xs, reqs
<1> QED
  BY <1>1, <1>2, <1>3, <1>4, <1>5, CalloutKeepsFit

LEMMA CalloutOfTwo ==
    ASSUME RouteInv, UNCHANGED otherVars, NEW x \in Addrs, NEW z \in Addrs, x # z,
           NEW r \in Requests, NEW s \in Requests,
           queue' = queue \o <<r, s>>, ~Busy(x), ~Busy(z), LeasesFit',
           \A y \in Addrs \ {x, z} : lease'[y] = lease[y] /\ Wanted(y) \subseteq Wanted(y)',
           r.src = x, Fits(r, "sent", None)', s.src = z, Fits(s, "sent", None)'
    PROVE  CalloutKeeps
<1> DEFINE xs == {x, z}  reqs == <<r, s>>
<1>1. xs \in SUBSET Addrs
  OBVIOUS
<1>2. reqs \in Seq(Requests) /\ DOMAIN reqs = {1, 2} /\ reqs[1] = r /\ reqs[2] = s
  BY TwoRequests
<1>3. /\ \A y \in xs : ~Busy(y)
      /\ \A y \in Addrs \ xs : lease'[y] = lease[y] /\ Wanted(y) \subseteq Wanted(y)'
      /\ \A i, j \in DOMAIN reqs : reqs[i].src = reqs[j].src => i = j
      /\ \A y \in xs : \/ \E i \in DOMAIN reqs : reqs[i].src = y
                      \/ RouteMatchesLease(y)'
  BY <1>2
<1>5. queue' = queue \o reqs
  OBVIOUS
<1>4. \A i \in DOMAIN reqs : reqs[i].src \in xs /\ Fits(reqs[i], "sent", None)'
  BY <1>2
<1> HIDE DEF xs, reqs
<1> QED
  BY <1>1, <1>2, <1>3, <1>4, <1>5, CalloutKeepsFit

LEMMA CalloutOfNone ==
    ASSUME RouteInv, UNCHANGED otherVars, UNCHANGED lease, UNCHANGED queue
    PROVE  CalloutKeeps
<1> DEFINE xs == {}  reqs == << >>
<1>1. xs \in SUBSET Addrs /\ reqs \in Seq(Requests) /\ DOMAIN reqs = {}
  OBVIOUS
<1>2. queue' = queue \o reqs
  BY TypesUsed DEF RouteInv
<1>3. \A y \in Addrs : lease'[y] = lease[y] /\ Wanted(y) \subseteq Wanted(y)'
  BY DEF Wanted, IsActive, findIA_NALeaseByDUID_IAID, Holds
<1>4. LeasesFit'
  BY DEF RouteInv, RequestsFit, LeasesFit, IsActive
<1>5. /\ \A z \in xs : ~Busy(z)
      /\ \A y \in Addrs \ xs : lease'[y] = lease[y] /\ Wanted(y) \subseteq Wanted(y)'
      /\ \A i \in DOMAIN reqs : reqs[i].src \in xs /\ Fits(reqs[i], "sent", None)'
      /\ \A i, j \in DOMAIN reqs : reqs[i].src = reqs[j].src => i = j
      /\ \A z \in xs : \/ \E i \in DOMAIN reqs : reqs[i].src = z
                      \/ RouteMatchesLease(z)'
  BY <1>1, <1>3
<1> HIDE DEF xs, reqs
<1> QED
  BY <1>1, <1>2, <1>4, <1>5, CalloutKeepsFit

(* A callout's addresses are at rest, so the table agrees with them.       *)
LEMMA AtRest ==
    ASSUME RouteInv, Relaxed = {}, NEW xs, NEW why, TimedCallout(xs, why),
           NEW x \in Addrs, x \in xs
    PROVE  /\ ~Busy(x) /\ RouteMatchesLease(x)
           /\ ~IsActive(x) => RoutesOf(x) = {}
           /\ IsActive(x) => \E d \in Wanted(x) : RoutesOf(x) = {d}
BY DEF RouteInv, TimedCallout, SettledRoutes, RouteMatchesLease

(* The requests that exports and removals start with.                      *)
LEMMA Exports ==
    /\ \A v \in Vlans, a \in NAAddrs : exportRoute(IA_NAInfo(v, a)) =>
            queue' = queue \o <<Request("lookupApply", a, Relay(v))>>
    /\ \A a \in NAAddrs, p \in Prefixes : exportRoute(IA_PDInfo(Host(a), p)) =>
            queue' = queue \o <<Request("apply", p, Host(a))>>
BY DEF exportRoute, sendRoutesToSwitch, Post, IA_NAInfo, IA_PDInfo, RouteInfo

LEMMA Removals ==
    ASSUME NEW c
    PROVE  /\ \A v \in Vlans, a \in NAAddrs : removeRoute(IA_NAInfo(v, a), c) =>
                queue' = queue \o <<Request("lookupRemove", a, Relay(v))>>
           /\ \A a \in NAAddrs, p \in Prefixes : removeRoute(IA_PDInfo(Host(a), p), c) =>
                queue' = queue \o <<Request("remove", p, Host(a))>>
           /\ \A a \in NAAddrs : removeRoute(IA_NAInfoFuzzyRemove(a), c) =>
                queue' = queue \o <<Request("lookupRoute", a, None)>>
           /\ \A p \in Prefixes : removeRoute(IA_PDInfoFuzzyRemove(p), c) =>
                \/ \E a \in findIA_NALeaseByDUID_IAID(c) :
                        queue' = queue \o <<Request("remove", p, Host128(a))>>
                \/ /\ findIA_NALeaseByDUID_IAID(c) = {}
                   /\ queue' = queue \o <<Request("lookupRoute", p, None)>>
BY DEF removeRoute, removeRoutesFromSwitch, Post, IA_NAInfo, IA_PDInfo,
       IA_NAInfoFuzzyRemove, IA_PDInfoFuzzyRemove, RouteInfo

LEMMA Replacements ==
    /\ \A v \in Vlans, q, a \in NAAddrs :
            replaceRoute(IA_NAInfo(v, q), IA_NAInfo(v, a)) =>
                queue' = queue \o <<Request("lookupRemove", q, Relay(v)),
                                    Request("lookupApply", a, Relay(v))>>
    /\ \A v \in Vlans, a \in NAAddrs, q, p \in Prefixes :
            replaceRoute(IA_PDInfo(Relay(v), q), IA_PDInfo(Host(a), p)) =>
                queue' = queue \o <<Request("remove", q, Relay(v)),
                                    Request("apply", p, Host(a))>>
<1>1. /\ \A v, a : /\ removeRoutesFromSwitch(IA_NAInfo(v, a), {})
                            = {Request("lookupRemove", a, Relay(v))}
                    /\ sendRoutesToSwitch(IA_NAInfo(v, a))
                            = Request("lookupApply", a, Relay(v))
      /\ \A d, p : /\ removeRoutesFromSwitch(IA_PDInfo(d, p), {})
                            = {Request("remove", p, d)}
                    /\ sendRoutesToSwitch(IA_PDInfo(d, p)) = Request("apply", p, d)
  BY DEF removeRoutesFromSwitch, sendRoutesToSwitch, IA_NAInfo, IA_PDInfo, RouteInfo
<1> QED
  BY <1>1 DEF replaceRoute, Post

LEMMA RequestsTyped ==
    /\ \A v \in Vlans, x \in Addrs, op \in {"lookupApply", "lookupRemove", "remove"} :
            Request(op, x, Relay(v)) \in Requests
    /\ \A a \in NAAddrs, x \in Addrs, op \in {"apply", "remove"} :
            /\ Request(op, x, Host(a)) \in Requests
            /\ Request(op, x, Host128(a)) \in Requests
    /\ \A x \in Addrs : Request("lookupRoute", x, None) \in Requests
    /\ \A v \in Vlans : Relay(v) \in Endpoints /\ VlanIf(v) \in Endpoints
    /\ \A a \in NAAddrs : Host(a) \in Endpoints
BY DEF Request, Requests, Relay, VlanIf, Host, Host128, Endpoints

(* A request that has just been posted fits if it aims at the one endpoint *)
(* its address may be routed to.                                           *)
LEMMA FitsWhenPosted ==
    ASSUME NEW r, NEW d \in Endpoints, r.op # "neighbors",
           AimsAt(r, "sent", None, d), RoutesOf(r.src)' \subseteq {d},
           IsActive(r.src)' <=> r.op \in {"apply", "lookupApply"},
           IsActive(r.src)' => d \in Wanted(r.src)'
    PROVE  Fits(r, "sent", None)'
BY DEF Fits, Complete, AimsAt

(* A change of c's addresses does not concern other clients' prefixes, and *)
(* c has none.                                                             *)
LEMMA AddressChange ==
    ASSUME TypeInv, LeasesFit, NEW c, NEW xs \in SUBSET NAAddrs,
           \A y \in Addrs \ xs : lease'[y] = lease[y],
           \A x \in xs, k \in Clients \ {c} : Holds(k, x)' <=> Holds(k, x),
           PDLeasesOf(c) = {}
    PROVE  \A y \in Addrs \ xs : Wanted(y) \subseteq Wanted(y)'
<1> SUFFICES ASSUME NEW y \in Addrs \ xs PROVE Wanted(y) \subseteq Wanted(y)'
  OBVIOUS
<1>1. ASSUME IsActive(y), y \notin NAAddrs
      PROVE  findIA_NALeaseByDUID_IAID(lease[y].client)'
                = findIA_NALeaseByDUID_IAID(lease[y].client)
  <2>1. PICK k \in Clients : k = lease[y].client
    BY <1>1 DEF LeasesFit
  <2>2. y \in PDLeasesOf(k)
    BY <1>1, <2>1, TypesUsed, ActiveLease DEF PDLeasesOf, Addrs, Holds
  <2>3. k # c
    BY <2>2
  <2>4. \A b \in NAAddrs : Holds(k, b)' <=> Holds(k, b)
    BY <2>1, <2>3 DEF Holds, Addrs
  <2>5. findIA_NALeaseByDUID_IAID(k)' = findIA_NALeaseByDUID_IAID(k)
    BY <2>4 DEF findIA_NALeaseByDUID_IAID
  <2>6. lease[y].client' = lease[y].client
    OBVIOUS
  <2> QED
    BY <2>1, <2>4, <2>6 DEF findIA_NALeaseByDUID_IAID
<1> QED
  BY <1>1, WantedStays

(* A change of prefixes does not concern anything else.                    *)
LEMMA PrefixChange ==
    ASSUME TypeInv, NEW xs \in SUBSET Prefixes,
           \A y \in Addrs \ xs : lease'[y] = lease[y]
    PROVE  /\ \A y \in Addrs \ xs : Wanted(y) \subseteq Wanted(y)'
           /\ \A c : findIA_NALeaseByDUID_IAID(c)' = findIA_NALeaseByDUID_IAID(c)
<1>1. \A b \in NAAddrs : lease'[b] = lease[b]
  BY TypesUsed
<1>2. \A c : findIA_NALeaseByDUID_IAID(c)' = findIA_NALeaseByDUID_IAID(c)
  BY <1>1 DEF findIA_NALeaseByDUID_IAID, Holds
<1>3. ASSUME NEW y \in Addrs \ xs
      PROVE  Wanted(y) \subseteq Wanted(y)'
  <2>1. lease[y].client' = lease[y].client
    OBVIOUS
  <2>2. findIA_NALeaseByDUID_IAID(lease[y].client)'
            = findIA_NALeaseByDUID_IAID(lease[y].client)
    BY <1>1, <2>1 DEF findIA_NALeaseByDUID_IAID, Holds
  <2> QED
    BY <2>2, WantedStays
<1> QED
  BY <1>2, <1>3

----------------------------------------------------------------------------
(* The callouts, one by one.                                               *)

LEMMA SelectNAKeeps ==
    ASSUME RouteInv, TypeInv', Relaxed = {}, NEW c \in Clients, NEW a \in NAAddrs,
           SelectNA(c, a)
    PROVE  CalloutKeeps
<1>v. a \in Addrs /\ VlanOf[c] \in Vlans /\ LeasesFit /\ TypeInv /\ lease \in [Addrs -> Leases]
  BY TypesUsed DEF RouteInv, RequestsFit
<1>1. /\ ~Busy(a) /\ ~IsActive(a) /\ RoutesOf(a) = {}
  <2>1. TimedCallout({a}, "overlap") /\ ~IsActive(a)
    BY DEF SelectNA, Callout, Available, IsActive
  <2> QED
    BY <1>v, <2>1, AtRest
<1>2. /\ lease' = [lease EXCEPT ![a] = Active(c)]
      /\ UNCHANGED otherVars /\ RoutesOf(a)' = RoutesOf(a)
      /\ PDLeasesOf(c) = {} /\ findIA_NALeaseByDUID_IAID(c) = {}
  BY DEF SelectNA, NAChangeAllowed, otherVars, RoutesOf
<1>3. lease'[a] = Active(c) /\ \A y \in Addrs \ {a} : lease'[y] = lease[y]
  BY <1>2, <1>v
<1>4. \A y \in Addrs \ {a} : Wanted(y) \subseteq Wanted(y)'
  <2> DEFINE xs == {a}
  <2>1. \A x \in xs, k \in Clients \ {c} : Holds(k, x)' <=> Holds(k, x)
    BY <1>1, <1>3, <1>v, ActiveLease DEF Holds, Active
  <2>2. xs \in SUBSET NAAddrs /\ \A y \in Addrs \ xs : lease'[y] = lease[y]
    BY <1>3
  <2> HIDE DEF xs
  <2>3. \A y \in Addrs \ xs : Wanted(y) \subseteq Wanted(y)'
    BY <1>2, <1>v, <2>1, <2>2, AddressChange
  <2> QED
    BY <2>3 DEF xs
<1>5. LeasesFit'
  <2>1. \A b \in NAAddrs : lease[b] # Active(c)
    BY <1>2 DEF findIA_NALeaseByDUID_IAID, Holds
  <2> QED
    BY <1>3, <1>v, <2>1, AddrsAssumption DEF LeasesFit, IsActive, Active, Addrs
<1> DEFINE r == Request("lookupApply", a, Relay(VlanOf[c]))
<1>6. queue' = queue \o <<r>> /\ r \in Requests
  BY <1>v, Exports, RequestsTyped DEF SelectNA
<1>7. IsActive(a)' /\ Wanted(a)' = {VlanIf(VlanOf[c])}
  BY <1>3 DEF Wanted, IsActive, Active
<1>9. r.op = "lookupApply" /\ r.src = a /\ r.dst.id = VlanOf[c]
  BY DEF Request, Relay
<1> HIDE DEF r
<1>8. Fits(r, "sent", None)'
  BY <1>1, <1>2, <1>7, <1>v, <1>9, RequestsTyped, FitsWhenPosted DEF AimsAt
<1> QED
  BY <1>1, <1>2, <1>3, <1>4, <1>5, <1>6, <1>8, <1>9, <1>v, CalloutOfOne

LEMMA EndNAKeeps ==
    ASSUME RouteInv, TypeInv', Relaxed = {}, NEW c \in Clients, NEW a \in NAAddrs,
           ReleaseNA(c, a) \/ DeclineNA(c, a)
    PROVE  CalloutKeeps
<1>v. a \in Addrs /\ VlanOf[c] \in Vlans /\ LeasesFit /\ TypeInv /\ lease \in [Addrs -> Leases]
  BY TypesUsed DEF RouteInv, RequestsFit
<1>0. PICK after \in {Free, Declined} : EndNA(c, a, after)
  BY DEF ReleaseNA, DeclineNA
<1>1. ~Busy(a) /\ Holds(c, a) /\ IsActive(a) /\ RoutesOf(a) = {VlanIf(VlanOf[c])}
  <2>1. TimedCallout({a}, "overlap") /\ Holds(c, a)
    BY <1>0 DEF EndNA, Callout
  <2>2. IsActive(a) /\ lease[a].client = c
    BY <1>v, <2>1, ActiveLease
  <2>3. ~Busy(a) /\ \E d \in Wanted(a) : RoutesOf(a) = {d}
    BY <1>v, <2>1, <2>2, AtRest
  <2> QED
    BY <2>1, <2>2, <2>3 DEF Wanted
<1>2. /\ lease' = [lease EXCEPT ![a] = after]
      /\ UNCHANGED otherVars /\ RoutesOf(a)' = RoutesOf(a)
      /\ PDLeasesOf(c) = {}
  BY <1>0 DEF EndNA, NAChangeAllowed, otherVars, RoutesOf
<1>3. lease'[a] = after /\ \A y \in Addrs \ {a} : lease'[y] = lease[y]
  BY <1>2, <1>v
<1>7. ~IsActive(a)' /\ \A k : ~Holds(k, a)'
  BY <1>3 DEF IsActive, Holds, Active, Free, Declined
<1>4. \A y \in Addrs \ {a} : Wanted(y) \subseteq Wanted(y)'
  <2> DEFINE xs == {a}
  <2>1. \A x \in xs, k \in Clients \ {c} : Holds(k, x)' <=> Holds(k, x)
    BY <1>1, <1>7, <1>v, ActiveLease
  <2>2. xs \in SUBSET NAAddrs /\ \A y \in Addrs \ xs : lease'[y] = lease[y]
    BY <1>3
  <2> HIDE DEF xs
  <2>3. \A y \in Addrs \ xs : Wanted(y) \subseteq Wanted(y)'
    BY <1>2, <1>v, <2>1, <2>2, AddressChange
  <2> QED
    BY <2>3 DEF xs
<1>5. LeasesFit'
  BY <1>3, <1>7, <1>v, AddrsAssumption DEF LeasesFit, IsActive, Addrs
<1> DEFINE r == Request("lookupRemove", a, Relay(VlanOf[c]))
<1>6. queue' = queue \o <<r>> /\ r \in Requests
  BY <1>0, <1>v, Removals, RequestsTyped DEF EndNA
<1>9. r.op = "lookupRemove" /\ r.src = a /\ r.dst.id = VlanOf[c]
  BY DEF Request, Relay
<1> HIDE DEF r
<1>8. Fits(r, "sent", None)'
  BY <1>1, <1>2, <1>7, <1>v, <1>9, RequestsTyped, FitsWhenPosted DEF AimsAt
<1> QED
  BY <1>1, <1>2, <1>3, <1>4, <1>5, <1>6, <1>8, <1>9, <1>v, CalloutOfOne

(* What the table holds for an active prefix at rest.                      *)
LEMMA PrefixRoute ==
    ASSUME RouteInv, NEW p \in Prefixes, IsActive(p), RouteMatchesLease(p)
    PROVE  \E b \in NAAddrs :
              /\ RoutesOf(p) = {Host(b)}
              /\ \A a \in findIA_NALeaseByDUID_IAID(lease[p].client) : a = b
<1> DEFINE na == findIA_NALeaseByDUID_IAID(lease[p].client)
<1>0. p \in Addrs /\ p \notin NAAddrs /\ LeasesFit /\ lease \in [Addrs -> Leases]
  BY TypesUsed DEF RouteInv, RequestsFit
<1>1. PICK b \in NAAddrs : RoutesOf(p) = {Host(b)} /\ (na = {} \/ b \in na)
  BY <1>0 DEF RouteMatchesLease, Wanted, findIA_NALeaseByDUID_IAID
<1>2. \A a \in na : a \in NAAddrs /\ IsActive(a) /\ lease[a] = Active(lease[p].client)
  BY <1>0, ActiveLease DEF findIA_NALeaseByDUID_IAID, Holds, Addrs
<1>3. \A a \in na : a = b
  BY <1>0, <1>1, <1>2 DEF LeasesFit
<1> QED
  BY <1>1, <1>3

LEMMA SelectPDKeeps ==
    ASSUME RouteInv, TypeInv', Relaxed = {}, NEW c \in Clients, NEW p \in Prefixes,
           SelectPD(c, p)
    PROVE  CalloutKeeps
<1>v. /\ p \in Addrs /\ p \notin NAAddrs /\ LeasesFit /\ TypeInv
      /\ lease \in [Addrs -> Leases]
  BY TypesUsed DEF RouteInv, RequestsFit
<1>1. ~Busy(p) /\ ~IsActive(p) /\ RoutesOf(p) = {}
  <2>1. TimedCallout({p}, "overlap") /\ ~IsActive(p)
    BY DEF SelectPD, Callout, Available, IsActive
  <2> QED
    BY <1>v, <2>1, AtRest
<1>0. PICK a \in findIA_NALeaseByDUID_IAID(c) : exportRoute(IA_PDInfo(Host(a), p))
  BY DEF SelectPD
<1>a. a \in NAAddrs
  BY DEF findIA_NALeaseByDUID_IAID
<1>2. /\ lease' = [lease EXCEPT ![p] = Active(c)]
      /\ UNCHANGED otherVars /\ RoutesOf(p)' = RoutesOf(p)
  BY DEF SelectPD, otherVars, RoutesOf
<1>3. lease'[p] = Active(c) /\ \A y \in Addrs \ {p} : lease'[y] = lease[y]
  BY <1>2, <1>v
<1>4. /\ \A y \in Addrs \ {p} : Wanted(y) \subseteq Wanted(y)'
      /\ findIA_NALeaseByDUID_IAID(c)' = findIA_NALeaseByDUID_IAID(c)
  <2> DEFINE xs == {p}
  <2>1. xs \in SUBSET Prefixes /\ \A y \in Addrs \ xs : lease'[y] = lease[y]
    BY <1>3
  <2> HIDE DEF xs
  <2>2. /\ \A y \in Addrs \ xs : Wanted(y) \subseteq Wanted(y)'
        /\ \A k : findIA_NALeaseByDUID_IAID(k)' = findIA_NALeaseByDUID_IAID(k)
    BY <1>v, <2>1, PrefixChange
  <2> QED
    BY <2>2 DEF xs
<1>5. LeasesFit'
  <2>1. \A b \in NAAddrs : b \in Addrs \ {p}
    BY <1>v DEF Addrs
  <2> QED
    BY <1>3, <1>v, <2>1 DEF LeasesFit, IsActive, Active, Addrs
<1> DEFINE r == Request("apply", p, Host(a))
<1>6. queue' = queue \o <<r>> /\ r \in Requests
  BY <1>0, <1>a, <1>v, Exports, RequestsTyped
<1>7. IsActive(p)' /\ Host(a) \in Wanted(p)'
  <2>1. IsActive(p)' /\ lease'[p].client = c
    BY <1>3 DEF IsActive, Active
  <2>2. a \in findIA_NALeaseByDUID_IAID(c)'
    BY <1>4
  <2> QED
    BY <1>v, <1>a, <2>1, <2>2 DEF Wanted
<1>9. r.op = "apply" /\ r.src = p /\ r.dst = Host(a)
  BY DEF Request
<1> HIDE DEF r
<1>8. Fits(r, "sent", None)'
  BY <1>1, <1>2, <1>7, <1>a, <1>9, RequestsTyped, FitsWhenPosted DEF AimsAt
<1> QED
  BY <1>1, <1>2, <1>3, <1>4, <1>5, <1>6, <1>8, <1>9, <1>v, CalloutOfOne

(* When a client loses its only address, its prefixes may keep any route.  *)
LEMMA AddressLost ==
    ASSUME TypeInv, LeasesFit, NEW a \in NAAddrs,
           \A y \in Addrs \ {a} : lease'[y] = lease[y],
           \A k : ~Holds(k, a)'
    PROVE  \A y \in Addrs \ {a} : Wanted(y) \subseteq Wanted(y)'
<1> SUFFICES ASSUME NEW y \in Addrs \ {a} PROVE Wanted(y) \subseteq Wanted(y)'
  OBVIOUS
<1> DEFINE k == lease[y].client
<1>1. \A b \in NAAddrs : Holds(k, b)' <=> Holds(k, b) /\ b # a
  BY TypesUsed DEF Holds, Addrs
<1>2. ASSUME IsActive(y)
      PROVE  \/ findIA_NALeaseByDUID_IAID(k)' = findIA_NALeaseByDUID_IAID(k)
             \/ findIA_NALeaseByDUID_IAID(k)' = {}
  <2>1. \A b \in NAAddrs : Holds(k, a) /\ Holds(k, b) => b = a
    BY TypesUsed DEF LeasesFit, Holds, IsActive, Active
  <2> QED
    BY <1>1, <2>1 DEF findIA_NALeaseByDUID_IAID
<1> QED
  BY <1>2, WantedStays

LEMMA ExpireNAKeeps ==
    ASSUME RouteInv, TypeInv', Relaxed = {}, NEW a \in NAAddrs, Expire(a)
    PROVE  CalloutKeeps
<1>v. a \in Addrs /\ LeasesFit /\ TypeInv /\ lease \in [Addrs -> Leases]
  BY TypesUsed DEF RouteInv, RequestsFit, Addrs
<1>0. PICK after : /\ lease' = [lease EXCEPT ![a] = after]
                   /\ after = Free \/ after = Reclaimed(lease[a].client)
  BY DEF Expire
<1>2. /\ UNCHANGED otherVars /\ RoutesOf(a)' = RoutesOf(a)
      /\ removeRoute(IA_NAInfoFuzzyRemove(a), lease[a].client)
      /\ TimedCallout({a}, "earlyExpire")
  BY DEF Expire, otherVars, RoutesOf
<1>3. lease'[a] = after /\ \A y \in Addrs \ {a} : lease'[y] = lease[y]
  BY <1>0, <1>v
<1>7. ~IsActive(a)' /\ \A k : ~Holds(k, a)'
  BY <1>0, <1>3 DEF IsActive, Holds, Active, Free, Reclaimed
<1>1. PICK d \in Endpoints : RoutesOf(a) \subseteq {d} /\ NextHop(d) = d
  <2>1. ~Busy(a) /\ (~IsActive(a) => RoutesOf(a) = {})
                /\ (IsActive(a) => \E d \in Wanted(a) : RoutesOf(a) = {d})
    BY <1>2, <1>v, AtRest
  <2>2. CASE IsActive(a)
    BY <1>v, <2>1, <2>2, WantedTyped
  <2>3. CASE ~IsActive(a)
    <3>1. Host(a) \in Endpoints /\ NextHop(Host(a)) = Host(a)
      BY RequestsTyped DEF NextHop, Host
    <3> QED
      BY <2>1, <2>3, <3>1
  <2> QED
    BY <2>2, <2>3
<1>b. ~Busy(a)
  BY <1>2, <1>v, AtRest
<1>4. \A y \in Addrs \ {a} : Wanted(y) \subseteq Wanted(y)'
  BY <1>3, <1>7, <1>v, AddressLost
<1>5. LeasesFit'
  BY <1>3, <1>7, <1>v, AddrsAssumption DEF LeasesFit, IsActive, Addrs
<1> DEFINE r == Request("lookupRoute", a, None)
<1>6. queue' = queue \o <<r>> /\ r \in Requests
  BY <1>2, <1>v, Removals, RequestsTyped
<1>9. r.op = "lookupRoute" /\ r.src = a
  BY DEF Request
<1> HIDE DEF r
<1>8. Fits(r, "sent", None)'
  BY <1>1, <1>2, <1>7, <1>9, FitsWhenPosted DEF AimsAt
<1> QED
  BY <1>b, <1>2, <1>3, <1>4, <1>5, <1>6, <1>8, <1>9, <1>v, CalloutOfOne

(* A prefix lease ends, and its route is the one the removal names.        *)
LEMMA PrefixEnds ==
    ASSUME RouteInv, TypeInv', NEW p \in Prefixes, NEW r \in Requests,
           NEW after, lease' = [lease EXCEPT ![p] = after],
           after.state \notin {"active", "declined"},
           UNCHANGED otherVars, ~Busy(p), queue' = queue \o <<r>>,
           r.op \in {"remove", "lookupRoute"}, r.src = p,
           NEW d \in Endpoints, RoutesOf(p) \subseteq {d},
           AimsAt(r, "sent", None, d)
    PROVE  CalloutKeeps
<1>v. /\ p \in Addrs /\ p \notin NAAddrs /\ LeasesFit /\ TypeInv
      /\ lease \in [Addrs -> Leases]
  BY TypesUsed DEF RouteInv, RequestsFit
<1>3. lease'[p] = after /\ \A y \in Addrs \ {p} : lease'[y] = lease[y]
  BY <1>v
<1>4. \A y \in Addrs \ {p} : Wanted(y) \subseteq Wanted(y)'
  <2> DEFINE xs == {p}
  <2>1. xs \in SUBSET Prefixes /\ \A y \in Addrs \ xs : lease'[y] = lease[y]
    BY <1>3
  <2> HIDE DEF xs
  <2>2. \A y \in Addrs \ xs : Wanted(y) \subseteq Wanted(y)'
    BY <1>v, <2>1, PrefixChange
  <2> QED
    BY <2>2 DEF xs
<1>5. LeasesFit'
  <2>1. \A b \in NAAddrs : b \in Addrs \ {p}
    BY <1>v DEF Addrs
  <2> QED
    BY <1>3, <1>v, <2>1 DEF LeasesFit, IsActive, Addrs
<1>7. ~IsActive(p)' /\ RoutesOf(p)' = RoutesOf(p)
  BY <1>3 DEF IsActive, RoutesOf, otherVars
<1>8. Fits(r, "sent", None)'
  BY <1>7, FitsWhenPosted
<1> QED
  BY <1>3, <1>4, <1>5, <1>8, <1>v, CalloutOfOne

LEMMA ExpirePDKeeps ==
    ASSUME RouteInv, TypeInv', Relaxed = {}, NEW p \in Prefixes, Expire(p)
    PROVE  CalloutKeeps
<1> DEFINE c == lease[p].client
<1>v. /\ p \in Addrs /\ p \notin NAAddrs /\ LeasesFit /\ TypeInv
      /\ lease \in [Addrs -> Leases]
  BY TypesUsed DEF RouteInv, RequestsFit
<1>0. PICK after : /\ lease' = [lease EXCEPT ![p] = after]
                   /\ after = Free \/ after = Reclaimed(c)
  BY DEF Expire
<1>a. after.state \notin {"active", "declined"}
  BY <1>0 DEF Free, Reclaimed
<1>2. /\ UNCHANGED otherVars /\ removeRoute(IA_PDInfoFuzzyRemove(p), c)
      /\ TimedCallout({p}, "earlyExpire") /\ IsActive(p)
  BY <1>v DEF Expire, otherVars, LeasesFit, IsActive
<1>b. ~Busy(p) /\ RouteMatchesLease(p)
  BY <1>2, <1>v, AtRest
<1>1. PICK b \in NAAddrs : /\ RoutesOf(p) = {Host(b)}
                           /\ \A a \in findIA_NALeaseByDUID_IAID(c) : a = b
  BY <1>2, <1>b, PrefixRoute
<1>e. Host(b) \in Endpoints /\ NextHop(Host(b)) = Host(b) /\ NextHop(Host128(b)) = Host(b)
  BY RequestsTyped DEF NextHop, Host, Host128
<1>6. PICK r \in Requests :
          /\ queue' = queue \o <<r>> /\ r.src = p
          /\ \/ r.op = "remove" /\ r.dst = Host128(b)
             \/ r.op = "lookupRoute"
  <2>1. CASE \E a \in findIA_NALeaseByDUID_IAID(c) :
                queue' = queue \o <<Request("remove", p, Host128(a))>>
    <3>1. queue' = queue \o <<Request("remove", p, Host128(b))>>
      BY <1>1, <2>1
    <3>2. Request("remove", p, Host128(b)) \in Requests
      BY <1>v, RequestsTyped
    <3> QED
      BY <3>1, <3>2 DEF Request
  <2>2. CASE queue' = queue \o <<Request("lookupRoute", p, None)>>
    <3>1. Request("lookupRoute", p, None) \in Requests
      BY <1>v, RequestsTyped
    <3> QED
      BY <2>2, <3>1 DEF Request
  <2> QED
    BY <1>2, <2>1, <2>2, Removals
<1>7. AimsAt(r, "sent", None, Host(b))
  BY <1>e, <1>6 DEF AimsAt
<1>8. r.op \in {"remove", "lookupRoute"} /\ RoutesOf(p) \subseteq {Host(b)}
  BY <1>1, <1>6
<1> QED
  BY <1>0, <1>a, <1>2, <1>b, <1>e, <1>6, <1>7, <1>8, PrefixEnds

LEMMA ReleasePDKeeps ==
    ASSUME RouteInv, TypeInv', Relaxed = {}, NEW c \in Clients, NEW p \in Prefixes,
           ReleasePD(c, p)
    PROVE  CalloutKeeps
<1>v. /\ p \in Addrs /\ p \notin NAAddrs /\ lease \in [Addrs -> Leases]
  BY TypesUsed DEF RouteInv
<1>2. /\ UNCHANGED otherVars /\ lease' = [lease EXCEPT ![p] = Free]
      /\ TimedCallout({p}, "overlap") /\ Holds(c, p)
  BY DEF ReleasePD, Callout
<1>a. Free.state \notin {"active", "declined"}
  BY DEF Free
<1>0. PICK a \in findIA_NALeaseByDUID_IAID(c) : removeRoute(IA_PDInfo(Host(a), p), c)
  BY DEF ReleasePD
<1>c. IsActive(p) /\ lease[p].client = c /\ a \in NAAddrs
  BY <1>2, <1>v, ActiveLease DEF findIA_NALeaseByDUID_IAID
<1>b. ~Busy(p) /\ RouteMatchesLease(p)
  BY <1>2, <1>v, AtRest
<1>1. RoutesOf(p) = {Host(a)}
  BY <1>0, <1>c, <1>b, PrefixRoute
<1> DEFINE r == Request("remove", p, Host(a))
<1>6. queue' = queue \o <<r>> /\ r \in Requests
  BY <1>0, <1>c, <1>v, Removals, RequestsTyped
<1>7. /\ Host(a) \in Endpoints /\ AimsAt(r, "sent", None, Host(a))
      /\ r.op = "remove" /\ r.src = p
  BY <1>c, RequestsTyped DEF AimsAt, NextHop, Host, Request
<1>8. r.op \in {"remove", "lookupRoute"} /\ RoutesOf(p) \subseteq {Host(a)}
  BY <1>1, <1>7
<1> HIDE DEF r
<1> QED
  BY <1>a, <1>2, <1>b, <1>6, <1>7, <1>8, PrefixEnds

(* Kea extends a lease: nothing but the time of expiration changes.        *)
LEMMA NothingChanges ==
    ASSUME LeasesFit, UNCHANGED lease
    PROVE  LeasesFit' /\ \A y \in Addrs : lease'[y] = lease[y] /\ Wanted(y)' = Wanted(y)
BY DEF LeasesFit, Wanted, IsActive, findIA_NALeaseByDUID_IAID, Holds

(* Kea moves c from the address or prefix q to x.                          *)
LEMMA MoveKeepsLeases ==
    ASSUME LeasesFit, lease \in [Addrs -> Leases], NEW c \in Clients,
           NEW q \in Addrs, NEW x \in Addrs, q # x, Holds(c, q),
           lease' = Extended(c, q, x), TypeInv, q \in NAAddrs <=> x \in NAAddrs
    PROVE  /\ lease'[q] = Free /\ lease'[x] = Active(c)
           /\ \A y \in Addrs \ {q, x} : lease'[y] = lease[y]
           /\ LeasesFit'
<1>1. /\ lease'[q] = Free /\ lease'[x] = Active(c)
      /\ \A y \in Addrs \ {q, x} : lease'[y] = lease[y]
  BY DEF Extended
<1>2. /\ \A y \in Addrs : IsActive(y)' => lease'[y].client \in Clients
      /\ \A p \in Prefixes : lease'[p].state # "declined"
  BY <1>1, TypesUsed DEF LeasesFit, IsActive, Free, Active
<1>3. ASSUME NEW a \in NAAddrs, NEW b \in NAAddrs, IsActive(a)', lease'[a] = lease'[b]
      PROVE  a = b
  <2>1. a # q /\ b # q /\ a \in Addrs /\ b \in Addrs
    BY <1>1, <1>3 DEF IsActive, Free, Addrs
  <2>2. ASSUME NEW y \in NAAddrs, y # q, y # x, lease'[y] = Active(c), q \in NAAddrs
        PROVE  FALSE
    <3>1. lease[y] = Active(c) /\ lease[q] = Active(c) /\ IsActive(q)
      BY <1>1, <2>2 DEF Holds, IsActive, Active, Addrs
    <3> QED
      BY <3>1, <2>2 DEF LeasesFit
  <2>3. CASE a # x /\ b # x
    BY <1>1, <1>3, <2>1, <2>3 DEF LeasesFit, IsActive
  <2>4. CASE a = x \/ b = x
    BY <1>1, <1>3, <2>1, <2>2, <2>4
  <2> QED
    BY <2>3, <2>4
<1> QED
  BY <1>1, <1>2, <1>3 DEF LeasesFit

LEMMA RenewNAKeeps ==
    ASSUME RouteInv, TypeInv', Relaxed = {}, NEW c \in Clients,
           NEW q \in NAAddrs, NEW a \in NAAddrs, RenewNA(c, q, a)
    PROVE  CalloutKeeps
<1> DEFINE d == VlanIf(VlanOf[c])
           r == Request("lookupRemove", q, Relay(VlanOf[c]))
           s == Request("lookupApply", a, Relay(VlanOf[c]))
<1>v. /\ a \in Addrs /\ q \in Addrs /\ VlanOf[c] \in Vlans /\ d \in Endpoints
      /\ LeasesFit /\ TypeInv /\ lease \in [Addrs -> Leases]
  BY TypesUsed, RequestsTyped DEF RouteInv, RequestsFit, Addrs
<1>2. /\ UNCHANGED otherVars /\ lease' = Extended(c, q, a)
      /\ RoutesOf(a)' = RoutesOf(a) /\ RoutesOf(q)' = RoutesOf(q)
      /\ TimedCallout({q, a}, "overlap")
  BY DEF RenewNA, Callout, otherVars, RoutesOf
<1>b. /\ ~Busy(a) /\ ~Busy(q)
      /\ \A x \in {q, a} : /\ ~IsActive(x) => RoutesOf(x) = {}
                           /\ Holds(c, x) => RoutesOf(x) = {d}
  <2>1. ASSUME NEW x \in {q, a}
        PROVE  /\ ~Busy(x)
               /\ ~IsActive(x) => RoutesOf(x) = {}
               /\ Holds(c, x) => RoutesOf(x) = {d}
    <3>1. x \in {q, a} /\ x \in Addrs /\ x \in NAAddrs
      BY <1>v
    <3>2. /\ ~Busy(x)
          /\ ~IsActive(x) => RoutesOf(x) = {}
          /\ IsActive(x) => \E e \in Wanted(x) : RoutesOf(x) = {e}
      BY <1>2, <3>1, AtRest
    <3>3. Holds(c, x) => IsActive(x) /\ lease[x].client = c
      BY <1>v, <3>1, ActiveLease
    <3> QED
      BY <3>1, <3>2, <3>3 DEF Wanted
  <2> QED
    BY <2>1
<1>r. /\ r \in Requests /\ r.op = "lookupRemove" /\ r.src = q /\ AimsAt(r, "sent", None, d)
      /\ s \in Requests /\ s.op = "lookupApply" /\ s.src = a /\ AimsAt(s, "sent", None, d)
  BY <1>v, RequestsTyped DEF Request, Relay, AimsAt
<1> HIDE DEF r, s
<1>w. ASSUME lease'[a] = Active(c) PROVE IsActive(a)' /\ d \in Wanted(a)'
  BY <1>w DEF IsActive, Active, Wanted
<1>1. CASE Holds(c, a) /\ (q = a \/ ~IsActive(q))
  <2>0. lease' = lease
    <3>1. ~Holds(c, q) \/ q = a
      BY <1>1, <1>v, ActiveLease
    <3> QED
      BY <1>1, <1>2, <1>v, <3>1 DEF Extended, Holds
  <2>1. /\ LeasesFit' /\ \A y \in Addrs : lease'[y] = lease[y] /\ Wanted(y) \subseteq Wanted(y)'
    BY <2>0, <1>v, NothingChanges
  <2>2. IsActive(a)' /\ d \in Wanted(a)' /\ (q # a => ~IsActive(q)')
    BY <1>1, <1>w, <1>v, <2>0 DEF Holds, IsActive
  <2>3. Fits(s, "sent", None)'
    BY <1>1, <1>2, <1>b, <1>r, <1>v, <2>2, FitsWhenPosted
  <2>4. CASE q = a
    <3>1. queue' = queue \o <<s>>
      BY <1>v, <2>4, Exports DEF RenewNA, s
    <3> QED
      BY <1>2, <1>b, <1>r, <1>v, <2>1, <2>3, <3>1, CalloutOfOne
  <2>5. CASE q # a
    <3>1. queue' = queue \o <<r, s>>
      BY <1>v, <2>5, Replacements DEF RenewNA, r, s
    <3>2. Fits(r, "sent", None)'
      BY <1>1, <1>2, <1>b, <1>r, <1>v, <2>2, <2>5, FitsWhenPosted
    <3> QED
      BY <1>2, <1>b, <1>r, <1>v, <2>1, <2>3, <2>5, <3>1, <3>2, CalloutOfTwo
  <2> QED
    BY <2>4, <2>5
<1>3. CASE Holds(c, q) /\ q # a /\ Available(a) /\ PDLeasesOf(c) = {}
  <2>1. /\ lease'[q] = Free /\ lease'[a] = Active(c) /\ LeasesFit'
        /\ \A y \in Addrs \ {q, a} : lease'[y] = lease[y]
    BY <1>2, <1>3, <1>v, MoveKeepsLeases
  <2>2. \A y \in Addrs \ {q, a} : Wanted(y) \subseteq Wanted(y)'
    <3> DEFINE xs == {q, a}
    <3>1. ~IsActive(a) /\ lease[q] = Active(c)
      BY <1>3 DEF Available, IsActive, Holds
    <3>2. \A x \in xs, k \in Clients \ {c} : Holds(k, x)' <=> Holds(k, x)
      BY <2>1, <3>1 DEF Holds, Active, Free, IsActive
    <3>3. xs \in SUBSET NAAddrs /\ \A y \in Addrs \ xs : lease'[y] = lease[y]
      BY <2>1
    <3> HIDE DEF xs
    <3>4. \A y \in Addrs \ xs : Wanted(y) \subseteq Wanted(y)'
      BY <1>3, <1>v, <3>2, <3>3, AddressChange
    <3> QED
      BY <3>4 DEF xs
  <2>3. IsActive(a)' /\ d \in Wanted(a)' /\ ~IsActive(q)' /\ ~IsActive(a)
    BY <1>3, <1>w, <2>1 DEF IsActive, Free, Available
  <2>4. Fits(s, "sent", None)'
    BY <1>2, <1>b, <1>r, <1>v, <2>3, FitsWhenPosted
  <2>5. Fits(r, "sent", None)'
    BY <1>2, <1>3, <1>b, <1>r, <1>v, <2>3, FitsWhenPosted
  <2>6. queue' = queue \o <<r, s>>
    BY <1>3, <1>v, Replacements DEF RenewNA, r, s
  <2> QED
    BY <1>2, <1>3, <1>b, <1>r, <1>v, <2>1, <2>2, <2>4, <2>5, <2>6, CalloutOfTwo
<1> QED
  BY <1>1, <1>3 DEF RenewNA, Extends, NAChangeAllowed

LEMMA RenewPDKeeps ==
    ASSUME RouteInv, TypeInv', Relaxed = {}, NEW c \in Clients,
           NEW q \in Prefixes, NEW p \in Prefixes, NEW rebind \in BOOLEAN,
           RenewPD(c, q, p, rebind)
    PROVE  CalloutKeeps
<1>v. /\ p \in Addrs /\ q \in Addrs /\ p \notin NAAddrs /\ VlanOf[c] \in Vlans
      /\ LeasesFit /\ TypeInv /\ lease \in [Addrs -> Leases]
  BY TypesUsed DEF RouteInv, RequestsFit
<1>1. Holds(c, p) /\ (q = p \/ ~IsActive(q)) /\ TimedCallout({q, p}, "overlap")
  BY DEF RenewPD, Extends, Callout
<1>2. /\ UNCHANGED otherVars /\ UNCHANGED lease
      /\ RoutesOf(p)' = RoutesOf(p) /\ RoutesOf(q)' = RoutesOf(q)
  <2>1. ~Holds(c, q) \/ q = p
    BY <1>1, <1>v, ActiveLease
  <2> QED
    BY <1>1, <1>v, <2>1 DEF RenewPD, Extended, Holds, otherVars, RoutesOf
<1>3. /\ LeasesFit' /\ \A y \in Addrs : lease'[y] = lease[y] /\ Wanted(y) \subseteq Wanted(y)'
  BY <1>2, <1>v, NothingChanges
<1>4. CASE UNCHANGED queue
  BY <1>2, <1>4, CalloutOfNone
<1>5. ASSUME NEW a \in findIA_NALeaseByDUID_IAID(c),
             \/ q = p /\ exportRoute(IA_PDInfo(Host(a), p))
             \/ q # p /\ replaceRoute(IA_PDInfo(Relay(VlanOf[c]), q), IA_PDInfo(Host(a), p))
      PROVE  CalloutKeeps
  <2> DEFINE r == Request("remove", q, Relay(VlanOf[c]))
             s == Request("apply", p, Host(a))
  <2>1. a \in NAAddrs
    BY DEF findIA_NALeaseByDUID_IAID
  <2>2. /\ r \in Requests /\ r.op = "remove" /\ r.src = q
        /\ Relay(VlanOf[c]) \in Endpoints /\ AimsAt(r, "sent", None, Relay(VlanOf[c]))
        /\ s \in Requests /\ s.op = "apply" /\ s.src = p
        /\ Host(a) \in Endpoints /\ AimsAt(s, "sent", None, Host(a))
    BY <1>v, <2>1, RequestsTyped DEF Request, Relay, AimsAt, NextHop
  <2>3. ~Busy(p) /\ ~Busy(q) /\ RouteMatchesLease(p)
    BY <1>1, <1>v, AtRest
  <2>a. ~IsActive(q) => RoutesOf(q) = {}
    BY <1>1, <1>v, AtRest
  <2>4. IsActive(p) /\ lease[p].client = c /\ RoutesOf(p) = {Host(a)} /\ Host(a) \in Wanted(p)
    <3>1. IsActive(p) /\ lease[p].client = c
      BY <1>1, <1>v, ActiveLease
    <3>2. RoutesOf(p) = {Host(a)}
      BY <2>3, <3>1, PrefixRoute
    <3> QED
      BY <1>v, <2>1, <3>1, <3>2 DEF Wanted
  <2>5. IsActive(p)' /\ Host(a) \in Wanted(p)' /\ (q # p => ~IsActive(q)')
    BY <1>1, <1>2, <1>3, <1>v, <2>4 DEF IsActive
  <2>6. \/ queue' = queue \o <<s>>
        \/ q # p /\ queue' = queue \o <<r, s>>
    BY <1>5, <1>v, <2>1, Exports, Replacements
  <2> HIDE DEF r, s
  <2>7. Fits(s, "sent", None)'
    BY <1>2, <2>2, <2>4, <2>5, FitsWhenPosted
  <2>8. CASE queue' = queue \o <<s>>
    BY <1>2, <1>3, <1>v, <2>2, <2>3, <2>7, <2>8, CalloutOfOne
  <2>9. CASE q # p /\ queue' = queue \o <<r, s>>
    <3>1. Fits(r, "sent", None)'
      BY <1>1, <1>2, <2>2, <2>a, <2>5, <2>9, FitsWhenPosted
    <3> QED
      BY <1>2, <1>3, <1>v, <2>2, <2>3, <2>7, <2>9, <3>1, CalloutOfTwo
  <2> QED
    BY <2>6, <2>8, <2>9
<1> QED
  BY <1>4, <1>5 DEF RenewPD

LEMMA CalloutStepKeeps ==
    ASSUME RouteInv, TypeInv', Relaxed = {}, CalloutStep
    PROVE  CalloutKeeps
<1>1. ASSUME NEW x \in Addrs, Expire(x) PROVE CalloutKeeps
  BY <1>1, ExpireNAKeeps, ExpirePDKeeps DEF Addrs
<1> QED
  BY <1>1, SelectNAKeeps, EndNAKeeps, SelectPDKeeps, ReleasePDKeeps, RenewNAKeeps,
     RenewPDKeeps DEF CalloutStep

----------------------------------------------------------------------------
(* Steps of a pool thread.                                                 *)

(* What the pool holds is about addresses.                                 *)
LEMMA PoolAddrs ==
    ASSUME RouteInv
    PROVE  /\ \A i \in DOMAIN queue : queue[i].src \in Addrs
           /\ \A w \in ActiveWorkers : work[w].req.src \in Addrs
<1>1. \A r \in Requests : r.op # "neighbors" => r.src \in Addrs
  BY DEF Requests, NeighborsRequest, Request
<1>2. /\ \A i \in DOMAIN queue : queue[i] \in Requests /\ queue[i].op # "neighbors"
      /\ \A w \in ActiveWorkers : work[w].req \in Requests /\ work[w].req.op # "neighbors"
  BY TypesUsed DEF RouteInv, RequestsFit, QueueFits, WorkFits, Fits, ActiveWorkers, Slots
<1> QED
  BY <1>1, <1>2

(* A thread's step is about one address x.                                 *)
LEMMA OthersStay ==
    ASSUME UNCHANGED lease, NEW x,
           \A y \in Addrs \ {x} : RoutesOf(y)' = RoutesOf(y)
    PROVE  \A y \in Addrs \ {x} :
              /\ RouteMatchesLease(y) => RouteMatchesLease(y)'
              /\ \A r, phase, answer :
                    r.src = y /\ Fits(r, phase, answer) => Fits(r, phase, answer)'
<1> SUFFICES ASSUME NEW y \in Addrs \ {x}
             PROVE  /\ RouteMatchesLease(y) => RouteMatchesLease(y)'
                    /\ \A r, phase, answer :
                        r.src = y /\ Fits(r, phase, answer) => Fits(r, phase, answer)'
  OBVIOUS
<1>1. Wanted(y)' = Wanted(y) /\ lease'[y] = lease[y]
  BY DEF Wanted, IsActive, findIA_NALeaseByDUID_IAID, Holds
<1> QED
  BY <1>1, FitsStays

LEMMA ActiveWorkFits ==
    ASSUME RouteInv, NEW x, NEW w \in Workers,
           \A y \in Addrs \ {x} :
              \A r, phase, answer :
                    r.src = y /\ Fits(r, phase, answer) => Fits(r, phase, answer)',
           NEW v \in ActiveWorkers, work'[v] = work[v], work[v].req.src # x
    PROVE  Fits(work[v].req, work[v].phase, work[v].answer)'
<1> DEFINE r == work[v].req  ph == work[v].phase  ans == work[v].answer
<1>1. Fits(r, ph, ans) /\ r.src \in Addrs \ {x}
  BY PoolAddrs DEF RouteInv, RequestsFit, WorkFits
<1>2. r' = r /\ ph' = ph /\ ans' = ans
  OBVIOUS
<1> HIDE DEF r, ph, ans
<1>3. PICK rr, pp, aa : rr = r /\ pp = ph /\ aa = ans
  OBVIOUS
<1>4. Fits(rr, pp, aa)'
  BY <1>1, <1>3
<1> QED
  BY <1>2, <1>3, <1>4 DEF r, ph, ans

(* A reply, after the switch has changed the routes of the request's       *)
(* address or none.                                                        *)
LEMMA ReplyKeeps ==
    ASSUME RouteInv, NEW w \in ActiveWorkers, UNCHANGED <<lease, queue>>,
           NEW phase, NEW answer, Reply(w, phase, answer), phase # "idle",
           \A y \in Addrs \ {work[w].req.src} : RoutesOf(y)' = RoutesOf(y),
           Fits(work[w].req, phase, answer)'
    PROVE  SettledRoutes' /\ RequestsFit'
<1> DEFINE x == work[w].req.src
<1>t. work \in [Workers -> Slots] /\ w \in Workers /\ x \in Addrs
  BY TypesUsed, PoolAddrs DEF RouteInv, ActiveWorkers
<1>f. QueueFits /\ WorkFits /\ LeasesFit
  BY DEF RouteInv, RequestsFit
<1>1. /\ work'[w].req = work[w].req /\ work'[w].phase = phase /\ work'[w].answer = answer
      /\ \A v \in Workers \ {w} : work'[v] = work[v]
      /\ ActiveWorkers' = ActiveWorkers
  BY <1>t DEF Reply, ActiveWorkers, Slots
<1>k. \A y \in Addrs \ {x} :
            /\ RouteMatchesLease(y) => RouteMatchesLease(y)'
            /\ \A r, ph, ans :
                    r.src = y /\ Fits(r, ph, ans) => Fits(r, ph, ans)'
  BY OthersStay
<1>q. \A i \in DOMAIN queue : queue[i].src \in Addrs /\ queue[i].src # x
  BY <1>f, PoolAddrs DEF WorkFits
<1>2. QueueFits'
  BY <1>f, <1>k, <1>q DEF QueueFits
<1>3. ASSUME NEW v \in ActiveWorkers
      PROVE  Fits(work[v].req, work[v].phase, work[v].answer)'
  <2>1. CASE v = w
    BY <1>1, <2>1
  <2>2. CASE v # w
    <3>1. work'[v] = work[v] /\ work[v].req.src # x
      BY <1>1, <1>f, <2>2 DEF WorkFits, ActiveWorkers
    <3> QED
      BY <1>k, <1>t, <3>1, ActiveWorkFits
  <2> QED
    BY <2>1, <2>2
<1>4. \A v \in ActiveWorkers : work'[v].req = work[v].req
  BY <1>1 DEF ActiveWorkers
<1>5. WorkFits'
  BY <1>1, <1>3, <1>4, <1>f DEF WorkFits
<1>6. SettledRoutes'
  <2> SUFFICES ASSUME NEW y \in Addrs, ~Busy(y)' PROVE RouteMatchesLease(y)'
    BY DEF SettledRoutes
  <2>1. InPool' = {queue[i] : i \in DOMAIN queue} \cup {work'[v].req : v \in ActiveWorkers}
    BY <1>1 DEF InPool
  <2>2. /\ \A i \in DOMAIN queue : queue[i].src # y
        /\ \A v \in ActiveWorkers : work[v].req.src # y
    BY <1>4, <2>1 DEF Busy
  <2>3. ~Busy(y)
    BY <2>2, BusyMeans DEF RouteInv
  <2> QED
    BY <1>k, <2>2, <2>3 DEF RouteInv, SettledRoutes
<1> QED
  BY <1>2, <1>5, <1>6, <1>f DEF RequestsFit, LeasesFit, IsActive

(* A handler ends and posts nothing, or the request that continues it.     *)
LEMMA HandlerKeeps ==
    ASSUME RouteInv, NEW w \in ActiveWorkers, UNCHANGED <<lease, routes>>,
           work' = [work EXCEPT ![w] = Idle],
           \/ UNCHANGED queue /\ RouteMatchesLease(work[w].req.src)
           \/ \E r \in Requests : /\ queue' = queue \o <<r>>
                                  /\ r.src = work[w].req.src
                                  /\ Fits(r, "sent", None)'
    PROVE  SettledRoutes' /\ RequestsFit'
<1>x. PICK x : x = work[w].req.src
  OBVIOUS
<1>t. work \in [Workers -> Slots] /\ w \in Workers /\ x \in Addrs /\ queue \in Seq(Requests)
  BY <1>x, TypesUsed, PoolAddrs DEF RouteInv, ActiveWorkers
<1>f. QueueFits /\ WorkFits /\ LeasesFit
  BY DEF RouteInv, RequestsFit
<1>1. /\ \A v \in Workers \ {w} : work'[v] = work[v]
      /\ ActiveWorkers' = ActiveWorkers \ {w}
  BY <1>t, IdleTyped DEF ActiveWorkers
<1>k. /\ \A y \in Addrs \ {x} :
            \A r, ph, ans : r.src = y /\ Fits(r, ph, ans) => Fits(r, ph, ans)'
      /\ \A y \in Addrs : RouteMatchesLease(y) => RouteMatchesLease(y)'
  <2>1. \A y \in Addrs \ {x} :
            /\ RouteMatchesLease(y) => RouteMatchesLease(y)'
            /\ \A r, ph, ans : r.src = y /\ Fits(r, ph, ans) => Fits(r, ph, ans)'
    BY OthersStay DEF RoutesOf
  <2>2. RouteMatchesLease(x) => RouteMatchesLease(x)'
    BY DEF RouteMatchesLease, RoutesOf, Wanted, IsActive, findIA_NALeaseByDUID_IAID, Holds
  <2> QED
    BY <2>1, <2>2
<1>q. \A i \in DOMAIN queue : queue[i].src \in Addrs /\ queue[i].src # x
  BY <1>x, <1>f, PoolAddrs DEF WorkFits
<1>p. /\ \A i \in DOMAIN queue : i \in DOMAIN queue' /\ queue'[i] = queue[i]
      /\ \A i \in DOMAIN queue' :
            \/ i \in DOMAIN queue /\ queue'[i] = queue[i]
            \/ i \notin DOMAIN queue /\ i = Len(queue) + 1 /\ queue'[i].src = x
               /\ Fits(queue[i], "sent", None)'
      /\ \/ UNCHANGED queue /\ RouteMatchesLease(x)
         \/ \E i \in DOMAIN queue' : queue'[i].src = x
  <2>1. CASE UNCHANGED queue /\ RouteMatchesLease(x)
    BY <2>1
  <2>2. ASSUME NEW r \in Requests, queue' = queue \o <<r>>, r.src = x, Fits(r, "sent", None)'
        PROVE  <1>p!:
    <3>1. /\ DOMAIN queue' = 1 .. (Len(queue) + 1) /\ DOMAIN queue = 1 .. Len(queue)
          /\ \A i \in 1 .. Len(queue) : queue'[i] = queue[i]
          /\ queue'[Len(queue) + 1] = r /\ Len(queue) \in Nat
      BY <1>t, <2>2
    <3>2. \A i \in DOMAIN queue' : i \in DOMAIN queue \/ i = Len(queue) + 1
      BY <3>1
    <3>3. Len(queue) + 1 \in DOMAIN queue' /\ Len(queue) + 1 \notin DOMAIN queue
      BY <3>1
    <3>4. \A i \in DOMAIN queue : i \in DOMAIN queue' /\ queue'[i] = queue[i]
      BY <3>1
    <3>5. ASSUME NEW i \in DOMAIN queue', i \notin DOMAIN queue
          PROVE  /\ i = Len(queue) + 1 /\ queue'[i].src = x
                 /\ Fits(queue[i], "sent", None)'
      <4>1. i = Len(queue) + 1 /\ queue'[i] = r
        BY <3>1, <3>2, <3>5
      <4> QED
        BY <2>2, <4>1
    <3>6. \E i \in DOMAIN queue' : queue'[i].src = x
      BY <2>2, <3>1, <3>3
    <3> QED
      BY <3>4, <3>5, <3>6
  <2> QED
    BY <1>x, <2>1, <2>2
<1>2. QueueFits'
  <2>1. ASSUME NEW i \in DOMAIN queue' PROVE Fits(queue[i], "sent", None)'
    BY <1>f, <1>k, <1>p, <1>q DEF QueueFits
  <2>2. ASSUME NEW i \in DOMAIN queue', NEW j \in DOMAIN queue', queue'[i].src = queue'[j].src
        PROVE  i = j
    BY <1>f, <1>p, <1>q, <2>2 DEF QueueFits
  <2> QED
    BY <2>1, <2>2 DEF QueueFits
<1>3. ASSUME NEW v \in ActiveWorkers \ {w}
      PROVE  /\ Fits(work[v].req, work[v].phase, work[v].answer)'
             /\ work'[v] = work[v] /\ work[v].req.src # x
             /\ \A i \in DOMAIN queue' : queue'[i].src # work[v].req.src
  <2>1. work'[v] = work[v] /\ work[v].req.src # x
    BY <1>x, <1>1, <1>f DEF WorkFits, ActiveWorkers
  <2>2. Fits(work[v].req, work[v].phase, work[v].answer)'
    BY <1>k, <1>t, <2>1, ActiveWorkFits
  <2> QED
    BY <1>f, <1>p, <2>1, <2>2 DEF WorkFits
<1>5. WorkFits'
  <2>1. \A u, v \in ActiveWorkers \ {w} : work[u].req.src = work[v].req.src => u = v
    BY <1>f DEF WorkFits
  <2>2. \A v \in ActiveWorkers \ {w} : work'[v].req.src = work[v].req.src
    BY <1>3
  <2> QED
    BY <1>1, <1>3, <2>1, <2>2 DEF WorkFits
<1>6. SettledRoutes'
  <2> SUFFICES ASSUME NEW y \in Addrs, ~Busy(y)' PROVE RouteMatchesLease(y)'
    BY DEF SettledRoutes
  <2>1. InPool' = {queue'[i] : i \in DOMAIN queue'} \cup {work'[v].req : v \in ActiveWorkers \ {w}}
    BY <1>1 DEF InPool
  <2>2. /\ \A i \in DOMAIN queue' : queue'[i].src # y
        /\ \A v \in ActiveWorkers \ {w} : work[v].req.src # y
    BY <1>3, <2>1 DEF Busy
  <2>3. CASE y = x
    BY <1>k, <1>p, <2>2, <2>3
  <2>4. CASE y # x
    <3>1. ~Busy(y)
      BY <1>x, <1>p, <2>2, <2>4, BusyMeans DEF RouteInv
    <3> QED
      BY <1>k, <3>1 DEF RouteInv, SettledRoutes
  <2> QED
    BY <2>3, <2>4
<1> QED
  BY <1>2, <1>5, <1>6, <1>f DEF RequestsFit, LeasesFit, IsActive

LEMMA Taken ==
    ASSUME queue \in Seq(Requests), queue # << >>, queue' = Tail(queue)
    PROVE  /\ Head(queue) = queue[1] /\ 1 \in DOMAIN queue
           /\ \A i \in DOMAIN queue' : i + 1 \in DOMAIN queue /\ i + 1 # 1
                                      /\ queue'[i] = queue[i + 1]
           /\ \A i, j \in DOMAIN queue' : i + 1 = j + 1 => i = j
           /\ \A i \in DOMAIN queue : i = 1 \/ \E j \in DOMAIN queue' : queue'[j] = queue[i]
<1>1. /\ DOMAIN queue' = 1 .. (Len(queue) - 1) /\ DOMAIN queue = 1 .. Len(queue)
      /\ \A i \in 1 .. (Len(queue) - 1) : queue'[i] = queue[i + 1]
      /\ Len(queue) \in Nat /\ Len(queue) # 0 /\ Head(queue) = queue[1]
  OBVIOUS
<1>2. ASSUME NEW i \in DOMAIN queue, i # 1
      PROVE  \E j \in DOMAIN queue' : queue'[j] = queue[i]
  <2>1. i - 1 \in DOMAIN queue' /\ (i - 1) + 1 = i
    BY <1>1, <1>2
  <2> QED
    BY <1>1, <2>1
<1> QED
  BY <1>1, <1>2

LEMMA TakeKeeps ==
    ASSUME RouteInv, NEW w \in Workers, Take(w), UNCHANGED lease
    PROVE  SettledRoutes' /\ RequestsFit'
<1>x. PICK h : h = Head(queue)
  OBVIOUS
<1>t. work \in [Workers -> Slots] /\ queue \in Seq(Requests)
  BY TypesUsed DEF RouteInv
<1>f. QueueFits /\ WorkFits /\ LeasesFit
  BY DEF RouteInv, RequestsFit
<1>p. /\ h = queue[1] /\ 1 \in DOMAIN queue
      /\ \A i \in DOMAIN queue' : i + 1 \in DOMAIN queue /\ i + 1 # 1
                                 /\ queue'[i] = queue[i + 1]
      /\ \A i, j \in DOMAIN queue' : i + 1 = j + 1 => i = j
      /\ \A i \in DOMAIN queue : i = 1 \/ \E j \in DOMAIN queue' : queue'[j] = queue[i]
  BY <1>t, <1>x, Taken DEF Take
<1>1. /\ \A v \in Workers \ {w} : work'[v] = work[v]
      /\ work'[w].req = h /\ work'[w].phase = "sent" /\ work'[w].answer = None
      /\ w \notin ActiveWorkers /\ ActiveWorkers' = ActiveWorkers \cup {w}
      /\ UNCHANGED routes
  BY <1>t, <1>x DEF Take, Idle, ActiveWorkers
<1>k. \A y : /\ RouteMatchesLease(y) => RouteMatchesLease(y)'
             /\ \A r, ph, ans : r.src = y /\ Fits(r, ph, ans) => Fits(r, ph, ans)'
  BY <1>1, FitsStays DEF RoutesOf, Wanted, IsActive, findIA_NALeaseByDUID_IAID, Holds
<1>h. Fits(h, "sent", None)' /\ \A v \in ActiveWorkers : work[v].req.src # h.src
  BY <1>f, <1>k, <1>p DEF QueueFits, WorkFits
<1>2. QueueFits'
  <2>1. ASSUME NEW i \in DOMAIN queue' PROVE Fits(queue[i], "sent", None)'
    <3>1. PICK r : r = queue'[i] /\ r = queue[i + 1] /\ i + 1 \in DOMAIN queue
      BY <1>p
    <3>2. Fits(r, "sent", None)
      BY <1>f, <3>1 DEF QueueFits
    <3>3. Fits(r, "sent", None)'
      BY <1>k, <3>2
    <3> QED
      BY <3>1, <3>3
  <2>2. ASSUME NEW i \in DOMAIN queue', NEW j \in DOMAIN queue', queue'[i].src = queue'[j].src
        PROVE  i = j
    BY <1>f, <1>p, <2>2 DEF QueueFits
  <2> QED
    BY <2>1, <2>2 DEF QueueFits
<1>3. ASSUME NEW v \in ActiveWorkers
      PROVE  /\ work'[v] = work[v] /\ work[v].req.src # h.src
             /\ Fits(work[v].req, work[v].phase, work[v].answer)'
             /\ \A i \in DOMAIN queue' : queue'[i].src # work[v].req.src
  <2>1. work'[v] = work[v]
    BY <1>1 DEF ActiveWorkers
  <2>2. Fits(work[v].req, work[v].phase, work[v].answer)'
    BY <1>h, <1>k, <2>1, ActiveWorkFits
  <2> QED
    BY <1>f, <1>h, <1>p, <2>1, <2>2 DEF WorkFits
<1>4. Fits(work[w].req, work[w].phase, work[w].answer)'
  BY <1>1, <1>h
<1>5. \A i \in DOMAIN queue' : queue'[i].src # h.src
  BY <1>f, <1>p DEF QueueFits
<1>6. WorkFits'
  <2>1. ASSUME NEW v \in ActiveWorkers \cup {w}
        PROVE  Fits(work[v].req, work[v].phase, work[v].answer)'
    BY <1>3, <1>4
  <2>2. \A u, v \in ActiveWorkers \cup {w} : work'[u].req.src = work'[v].req.src => u = v
    <3>1. \A u, v \in ActiveWorkers : work[u].req.src = work[v].req.src => u = v
      BY <1>f DEF WorkFits
    <3>2. /\ \A v \in ActiveWorkers : /\ work'[v].req.src = work[v].req.src
                                      /\ work[v].req.src # h.src
          /\ work'[w].req.src = h.src
      BY <1>1, <1>3
    <3> QED
      BY <3>1, <3>2
  <2>3. \A v \in ActiveWorkers \cup {w}, i \in DOMAIN queue' : queue'[i].src # work'[v].req.src
    BY <1>1, <1>3, <1>5
  <2> QED
    BY <1>1, <2>1, <2>2, <2>3 DEF WorkFits
<1>7. SettledRoutes'
  <2> SUFFICES ASSUME NEW y \in Addrs, ~Busy(y)' PROVE RouteMatchesLease(y)'
    BY DEF SettledRoutes
  <2>1. InPool' = {queue'[i] : i \in DOMAIN queue'} \cup {work'[v].req : v \in ActiveWorkers \cup {w}}
    BY <1>1 DEF InPool
  <2>2. /\ \A i \in DOMAIN queue' : queue'[i].src # y
        /\ \A v \in ActiveWorkers \cup {w} : work'[v].req.src # y
    BY <2>1 DEF Busy
  <2>3. ~Busy(y)
    BY <1>1, <1>3, <1>p, <2>2, BusyMeans DEF RouteInv
  <2> QED
    BY <1>k, <2>3 DEF RouteInv, SettledRoutes
<1> QED
  BY <1>2, <1>6, <1>7, <1>f DEF RequestsFit, LeasesFit, IsActive

(* What a thread that is not idle is about.                                *)
LEMMA Slot ==
    ASSUME RouteInv, NEW w \in Workers, work[w].phase # "idle"
    PROVE  /\ w \in ActiveWorkers /\ work[w].req \in Requests /\ work[w].req.src \in Addrs
           /\ work[w].req.op # "neighbors"
           /\ Fits(work[w].req, work[w].phase, work[w].answer)
<1>1. w \in ActiveWorkers
  BY DEF ActiveWorkers
<1>2. work[w].req \in Requests
  BY TypesUsed DEF RouteInv, Slots
<1> QED
  BY <1>1, <1>2, PoolAddrs DEF RouteInv, RequestsFit, WorkFits, Fits

(* A route command installs an endpoint its address is waiting for, once.  *)
LEMMA ApplyEffect ==
    ASSUME RouteInv, NEW w \in Workers, ServeApply(w)
    PROVE  \E x \in Addrs, d \in Endpoints :
              /\ x = work[w].req.src /\ IsActive(x) /\ d \in Wanted(x)
              /\ RoutesOf(x) \subseteq {d} /\ RoutesOf(x)' = {d}
              /\ \A y \in Addrs \ {x} : RoutesOf(y)' = RoutesOf(y)
<1>0. PICK r, x, d : r = work[w].req /\ x = r.src /\ d = r.dst
  OBVIOUS
<1>1. /\ r.op = "apply" /\ work[w].phase = "sent" /\ work[w].phase # "idle"
      /\ routes' = routes \cup {<<x, d>>}
  BY <1>0 DEF ServeApply, Sent
<1>2. r \in Requests /\ x \in Addrs /\ Fits(r, "sent", work[w].answer)
  BY <1>0, <1>1, Slot
<1>3. d \in Endpoints
  BY <1>0, <1>1, <1>2 DEF Requests, NeighborsRequest, Request
<1>4. IsActive(x) /\ d \in Wanted(x) /\ RoutesOf(x) \subseteq {d}
  BY <1>0, <1>1, <1>2 DEF Fits, Complete, AimsAt, Lookups
<1>5. /\ RoutesOf(x)' = RoutesOf(x) \cup {d}
      /\ \A y \in Addrs \ {x} : RoutesOf(y)' = RoutesOf(y)
  BY <1>1, <1>3 DEF RoutesOf, EndpointsOf
<1> QED
  BY <1>0, <1>2, <1>3, <1>4, <1>5

(* A "no" command takes away what is left of an ended lease.               *)
LEMMA RemoveEffect ==
    ASSUME RouteInv, NEW w \in Workers, ServeRemove(w)
    PROVE  \E x \in Addrs :
              /\ x = work[w].req.src /\ ~IsActive(x) /\ RoutesOf(x)' = {}
              /\ \A y \in Addrs \ {x} : RoutesOf(y)' = RoutesOf(y)
<1>0. PICK r, x, d : r = work[w].req /\ x = r.src /\ d = NextHop(r.dst)
  OBVIOUS
<1>1. /\ r.op = "remove" /\ work[w].phase = "sent" /\ work[w].phase # "idle"
      /\ routes' = routes \ {<<x, d>>}
  BY <1>0 DEF ServeRemove, Sent
<1>2. x \in Addrs /\ Fits(r, "sent", work[w].answer)
  BY <1>0, <1>1, Slot
<1>4. ~IsActive(x) /\ RoutesOf(x) \subseteq {d}
  BY <1>0, <1>1, <1>2 DEF Fits, Complete, AimsAt, Lookups
<1>5. /\ RoutesOf(x)' = RoutesOf(x) \ {d}
      /\ \A y \in Addrs \ {x} : RoutesOf(y)' = RoutesOf(y)
  BY <1>1 DEF RoutesOf, EndpointsOf
<1> QED
  BY <1>0, <1>2, <1>4, <1>5

(* AimsAt, case by case.                                                   *)
LEMMA Aims ==
    ASSUME NEW r, NEW answer, NEW d
    PROVE  /\ r.op = "apply" => (AimsAt(r, "sent", answer, d) <=> r.dst = d)
           /\ r.op = "remove" => (AimsAt(r, "sent", answer, d) <=> NextHop(r.dst) = d)
           /\ r.op \in {"lookupApply", "lookupRemove"} =>
                (AimsAt(r, "sent", answer, d) <=> VlanIf(r.dst.id) = d)
           /\ r.op = "lookupRoute" => (AimsAt(r, "sent", answer, d) <=> NextHop(d) = d)
           /\ r.op = "lookupApply" => (AimsAt(r, "answered", answer, d) <=> answer = d)
           /\ r.op # "lookupApply" =>
                (AimsAt(r, "answered", answer, d) <=> NextHop(answer) = d)
BY DEF AimsAt

(* A reply from the switch leaves the request nearer to its end.           *)
LEMMA ServeKeeps ==
    ASSUME RouteInv, NEW w \in Workers, Serve(w), UNCHANGED lease
    PROVE  SettledRoutes' /\ RequestsFit'
<1>0. PICK r, x : r = work[w].req /\ x = r.src
  OBVIOUS
<1>1. /\ w \in ActiveWorkers /\ r \in Requests /\ x \in Addrs /\ r.op # "neighbors"
      /\ work[w].phase = "sent" /\ Fits(r, "sent", work[w].answer)
      /\ UNCHANGED queue
  <2>1. work[w].phase = "sent" /\ work[w].phase # "idle" /\ UNCHANGED queue
    BY DEF Serve, ServeRelayLookup, ServeRouteLookup, ServeApply, ServeRemove,
           ServeNeighbors, Sent
  <2> QED
    BY <1>0, <2>1, Slot
<1>u. /\ IsActive(x)' <=> IsActive(x)
      /\ Wanted(x)' = Wanted(x)
  BY DEF Wanted, IsActive, findIA_NALeaseByDUID_IAID, Holds
<1>2. PICK d \in Endpoints : /\ RoutesOf(x) \subseteq {d}
                             /\ IsActive(x) => d \in Wanted(x)
                             /\ AimsAt(r, "sent", work[w].answer, d)
  BY <1>0, <1>1 DEF Fits, Complete
<1>3. IsActive(x) <=> r.op \in {"apply", "lookupApply"}
  BY <1>0, <1>1 DEF Fits
<1>4. CASE ServeRelayLookup(w)
  <2>1. /\ r.op \in {"lookupApply", "lookupRemove"} /\ UNCHANGED routes
        /\ Reply(w, "answered", VlanIf(r.dst.id))
    BY <1>0, <1>4 DEF ServeRelayLookup, Sent
  <2>2. VlanIf(r.dst.id) = d
    BY <1>2, <2>1, Aims
  <2>6. NextHop(d) = d
    BY <2>2 DEF NextHop, VlanIf
  <2>7. AimsAt(r, "answered", d, d) /\ ~Complete(r, "answered")
    BY <2>1, <2>6, Aims DEF Complete, Lookups
  <2>3. Fits(r, "answered", d)'
    BY <1>0, <1>1, <1>2, <1>3, <1>u, <2>1, <2>7 DEF Fits, Complete, AimsAt, RoutesOf
  <2>4. \A y \in Addrs \ {work[w].req.src} : RoutesOf(y)' = RoutesOf(y)
    BY <2>1 DEF RoutesOf
  <2>5. Fits(work[w].req, "answered", d)'
    BY <1>0, <2>1, <2>3, TypesUsed DEF Reply, RouteInv, Slots
  <2> QED
    BY <1>1, <2>1, <2>2, <2>4, <2>5, ReplyKeeps
<1>r. work'[w].req = r \/ ~Serve(w)
  BY <1>0, <1>1, TypesUsed
     DEF Reply, RouteInv, Slots, Serve, ServeRelayLookup, ServeRouteLookup, ServeApply,
         ServeRemove, ServeNeighbors, Sent
<1>5. CASE ServeRouteLookup(w)
  <2>1. r.op = "lookupRoute" /\ UNCHANGED routes /\ ~IsActive(x)
    BY <1>0, <1>3, <1>5 DEF ServeRouteLookup, Sent
  <2>2. NextHop(d) = d
    BY <1>2, <2>1, Aims
  <2>3. \A y \in Addrs \ {work[w].req.src} : RoutesOf(y)' = RoutesOf(y)
    BY <2>1 DEF RoutesOf
  <2>4. ASSUME NEW e \in RoutesOf(x), Reply(w, "answered", e)
        PROVE  SettledRoutes' /\ RequestsFit'
    <3>1. AimsAt(r, "answered", e, d) /\ ~Complete(r, "answered")
      BY <1>2, <2>1, <2>2, Aims DEF Complete, Lookups
    <3>2. Fits(r, "answered", e)'
      BY <1>0, <1>1, <1>2, <1>3, <1>u, <2>1, <3>1 DEF Fits, Complete, AimsAt, RoutesOf
    <3>3. Fits(work[w].req, "answered", e)'
      BY <1>r, <3>2
    <3> QED
      BY <1>1, <2>3, <2>4, <3>3, ReplyKeeps
  <2>5. ASSUME RoutesOf(x) = {}, Reply(w, "missing", None)
        PROVE  SettledRoutes' /\ RequestsFit'
    <3>1. RouteMatchesLease(x)'
      BY <1>u, <2>1, <2>5 DEF RouteMatchesLease, RoutesOf
    <3>2. Fits(r, "missing", None)'
      BY <1>0, <1>1, <1>3, <1>u, <3>1 DEF Fits, Complete
    <3>3. Fits(work[w].req, "missing", None)'
      BY <1>r, <3>2
    <3> QED
      BY <1>1, <2>3, <2>5, <3>3, ReplyKeeps
  <2> QED
    BY <1>0, <1>5, <2>4, <2>5 DEF ServeRouteLookup
<1>6. CASE ServeApply(w) \/ ServeRemove(w)
  <2>1. /\ r.op \in {"apply", "remove"} /\ Reply(w, "answered", None)
        /\ RouteMatchesLease(x)'
        /\ \A y \in Addrs \ {work[w].req.src} : RoutesOf(y)' = RoutesOf(y)
    <3>1. CASE ServeApply(w)
      BY <1>0, <1>u, <3>1, ApplyEffect DEF ServeApply, Sent, RouteMatchesLease
    <3>2. CASE ServeRemove(w)
      BY <1>0, <1>u, <3>2, RemoveEffect DEF ServeRemove, Sent, RouteMatchesLease
    <3> QED
      BY <1>6, <3>1, <3>2
  <2>2. Complete(r, "answered")
    BY <2>1 DEF Complete, Lookups
  <2>3. Fits(r, "answered", None)'
    BY <1>0, <1>1, <1>3, <1>u, <2>1, <2>2 DEF Fits, Complete
  <2>4. Fits(work[w].req, "answered", None)'
    BY <1>r, <2>3
  <2> QED
    BY <1>1, <2>1, <2>4, ReplyKeeps
<1> QED
  BY <1>0, <1>1, <1>4, <1>5, <1>6 DEF Serve, ServeNeighbors, Sent

LEMMA HandleKeeps ==
    ASSUME RouteInv, NEW w \in Workers, UNCHANGED lease, TypeInv',
           HandleLookup(w) \/ HandleLookupMissing(w) \/ HandleRouteReply(w)
    PROVE  SettledRoutes' /\ RequestsFit'
<1>0. PICK r, x, phase, answer :
         r = work[w].req /\ x = r.src /\ phase = work[w].phase /\ answer = work[w].answer
  OBVIOUS
<1>1. /\ w \in ActiveWorkers /\ r \in Requests /\ x \in Addrs
      /\ Fits(r, phase, answer) /\ UNCHANGED routes
      /\ work' = [work EXCEPT ![w] = Idle]
  BY <1>0, Slot DEF HandleLookup, HandleLookupMissing, HandleRouteReply
<1>u. /\ IsActive(x)' <=> IsActive(x)
      /\ Wanted(x)' = Wanted(x)
  BY DEF Wanted, IsActive, findIA_NALeaseByDUID_IAID, Holds
<1>2. CASE HandleLookup(w)
  <2>1. phase = "answered" /\ r.op \in Lookups /\ answer \in Endpoints
    BY <1>0, <1>2 DEF HandleLookup, RouteInv, TypeInv, AnswersTyped
  <2> DEFINE s == Request(IF r.op = "lookupApply" THEN "apply" ELSE "remove", x, answer)
  <2>2. queue' = queue \o <<s>>
    BY <1>0, <1>2 DEF HandleLookup, Post
  <2>3. /\ s \in Requests /\ s.src = x /\ s.dst = answer
        /\ s.op = IF r.op = "lookupApply" THEN "apply" ELSE "remove"
    BY <1>1, <2>1 DEF Request, Requests
  <2> HIDE DEF s
  <2>4. PICK d \in Endpoints : /\ RoutesOf(x) \subseteq {d}
                               /\ IsActive(x) => d \in Wanted(x)
                               /\ AimsAt(r, "answered", answer, d)
    BY <1>0, <1>1, <2>1 DEF Fits, Complete
  <2>5. AimsAt(s, "sent", None, d)
    BY <2>3, <2>4, Aims
  <2>6. IsActive(x)' <=> s.op \in {"apply", "lookupApply"}
    BY <1>0, <1>1, <1>u, <2>1, <2>3 DEF Fits, Lookups
  <2>7. Fits(s, "sent", None)'
    BY <1>1, <1>u, <2>3, <2>4, <2>5, <2>6, FitsWhenPosted DEF RoutesOf
  <2> QED
    BY <1>0, <1>1, <2>2, <2>3, <2>7, HandlerKeeps
<1>3. CASE HandleLookupMissing(w) \/ HandleRouteReply(w)
  <2>1. Complete(r, phase) /\ UNCHANGED queue
    BY <1>0, <1>3 DEF Complete, HandleLookupMissing, HandleRouteReply, Lookups
  <2>2. RouteMatchesLease(x)
    BY <1>0, <1>1, <2>1 DEF Fits
  <2> QED
    BY <1>0, <1>1, <2>1, <2>2, HandlerKeeps
<1> QED
  BY <1>2, <1>3

(* No restore is under way without "reboot".                               *)
LEMMA NoRestore ==
    ASSUME RouteInv, NEW w \in Workers PROVE ~RestoreStep(w)
<1>1. ASSUME work[w].phase # "idle"
      PROVE  work[w].req.op # "neighbors" /\ work[w].phase # "restoring"
  BY <1>1, Slot DEF Fits
<1> QED
  BY <1>1 DEF RestoreStep, HandleNeighbors, RestoreThrows, RestoreNA, RestorePD,
              RestoreDone, Restoring

----------------------------------------------------------------------------
(* Theorems.                                                               *)

THEOREM InitSettled == Init => RouteInv
<1> SUFFICES ASSUME Init PROVE RouteInv
  OBVIOUS
<1>1. /\ queue = << >> /\ ActiveWorkers = {} /\ routes = {}
      /\ lease = [x \in Addrs |-> Free]
  BY IdleTyped DEF Init, ClientInit, LeaseInit, ActiveWorkers
<1>2. \A x \in Addrs : ~IsActive(x) /\ RoutesOf(x) = {} /\ lease[x].state = "free"
  BY <1>1 DEF IsActive, Free, RoutesOf, EndpointsOf
<1> QED
  BY <1>1, <1>2, InitTyped
     DEF RouteInv, SettledRoutes, RouteMatchesLease, RequestsFit, QueueFits, WorkFits,
         LeasesFit, Addrs

LEMMA StutterKeeps == RouteInv /\ UNCHANGED vars => RouteInv'
<1>1. RouteInv /\ UNCHANGED vars => TypeInv'
  BY StutterTyped DEF RouteInv
<1>2. RouteInv /\ UNCHANGED vars => SettledRoutes' /\ RequestsFit'
  BY CalloutOfNone DEF vars, clientVars, otherVars, CalloutKeeps
<1> QED
  BY <1>1, <1>2 DEF RouteInv

(* Callouts and pool threads keep every request fitting its lease.         *)
THEOREM NextSettled ==
    ASSUME Relaxed = {} PROVE RouteInv /\ [Next]_vars => RouteInv'
<1> SUFFICES ASSUME RouteInv, [Next]_vars PROVE RouteInv'
  OBVIOUS
<1>t. TypeInv'
  BY NextTyped DEF RouteInv
<1>1. CASE CalloutStep
  BY <1>1, <1>t, CalloutStepKeeps DEF RouteInv, CalloutKeeps
<1>2. ASSUME NEW w \in Workers, PoolStep(w) PROVE RouteInv'
  <2>1. ClientStep(w)
    BY <1>2, NoRestore DEF PoolStep
  <2> QED
    BY <1>t, <2>1, TakeKeeps, ServeKeeps, HandleKeeps DEF ClientStep, RouteInv
<1>3. CASE Halted \/ UNCHANGED vars
  BY <1>3, StutterKeeps DEF Halted
<1> QED
  BY <1>1, <1>2, <1>3 DEF Next

(* For any number of clients, addresses, prefixes, VLANs and pool threads: *)
(* as long as the assumptions about the environment hold, an address with  *)
(* no request under way has exactly the routes its lease calls for.        *)
THEOREM RoutesSettle ==
    ASSUME Relaxed = {} PROVE SafetySpec => []SettledRoutes
<1>1. RouteInv => SettledRoutes
  BY DEF RouteInv
<1> QED
  BY InitSettled, NextSettled, <1>1, PTL DEF SafetySpec

(* The endpoints that are right for an address are a set the abstract      *)
(* table may hold, empty exactly without a lease.                          *)
WantedFits ==
    \A x \in Addrs : Wanted(x) \subseteq Endpoints /\ (Wanted(x) # {} <=> IsActive(x))

LEMMA WantedSets == RouteInv => WantedFits
<1> SUFFICES ASSUME RouteInv, NEW x \in Addrs
             PROVE  Wanted(x) \subseteq Endpoints /\ (Wanted(x) # {} <=> IsActive(x))
  BY DEF WantedFits
<1>1. Wanted(x) \subseteq Endpoints
  BY WantedTyped DEF RouteInv, RequestsFit
<1>2. ASSUME IsActive(x) PROVE Wanted(x) # {}
  <2>1. RouteMatchesLease(x) => Wanted(x) # {}
    BY <1>2 DEF RouteMatchesLease
  <2>2. \A r, phase, answer : Fits(r, phase, answer) /\ r.src = x => Wanted(x) # {}
    BY <1>2, <2>1 DEF Fits
  <2> QED
    BY <2>1, <2>2, BusyMeans DEF RouteInv, RequestsFit, SettledRoutes, QueueFits, WorkFits
<1>3. ~IsActive(x) => Wanted(x) = {}
  BY DEF Wanted
<1> QED
  BY <1>1, <1>2, <1>3

LEMMA WantedSetsNext == RouteInv' => WantedFits'
BY WantedSets, PTL

LEMMA MatchesMeans ==
    ASSUME RouteInv, NEW x \in Addrs, RouteMatchesLease(x)
    PROVE  Table!Matches(x)
BY WantedSets DEF WantedFits, Table!Matches, RouteMatchesLease

(* A callout changes leases, and only where the routes have followed.      *)
LEMMA CalloutChangesLeases ==
    ASSUME RouteInv, RouteInv', Relaxed = {}, CalloutStep
    PROVE  Table!ChangeLeases
<1>1. CalloutKeeps /\ UNCHANGED routes
  BY CalloutStepKeeps DEF RouteInv, CalloutStep, SelectNA, ReleaseNA, DeclineNA, EndNA,
     SelectPD, ReleasePD, Expire, RenewNA, RenewPD, otherVars
<1>2. [x \in Addrs |-> Wanted(x)'] \in [Addrs -> SUBSET Endpoints]
  BY WantedSetsNext DEF WantedFits
<1>3. ASSUME NEW x \in Addrs
      PROVE  \/ Table!Matches(x)
             \/ Wanted(x)' = Wanted(x)
             \/ Wanted(x) # {} /\ Wanted(x) \subseteq Wanted(x)'
  <2>1. CASE Busy(x)
    <3>1. lease'[x] = lease[x] /\ Wanted(x) \subseteq Wanted(x)'
      BY <1>1, <2>1 DEF CalloutKeeps
    <3>2. CASE IsActive(x)
      BY <3>1, <3>2, WantedSets DEF WantedFits
    <3>3. CASE ~IsActive(x)
      BY <3>1, <3>3 DEF Wanted, IsActive
    <3> QED
      BY <3>2, <3>3
  <2>2. CASE ~Busy(x)
    BY <2>2, MatchesMeans DEF RouteInv, SettledRoutes
  <2> QED
    BY <2>1, <2>2
<1>4. [x \in Addrs |-> RoutesOf(x)]' = [x \in Addrs |-> RoutesOf(x)]
  BY <1>1 DEF RoutesOf
<1> QED
  BY <1>2, <1>3, <1>4 DEF Table!ChangeLeases

(* A step of a pool thread installs or withdraws a route, or is none of    *)
(* the table's business.                                                   *)
LEMMA ClientStepFollows ==
    ASSUME RouteInv, NEW w \in Workers, ClientStep(w)
    PROVE  [Table!Next]_(Table!tableVars)
<1>1. [x \in Addrs |-> Wanted(x)]' = [x \in Addrs |-> Wanted(x)]
  BY DEF ClientStep, Wanted, IsActive, findIA_NALeaseByDUID_IAID, Holds
<1>2. CASE ServeApply(w)
  <2>1. PICK x \in Addrs, d \in Endpoints :
              /\ d \in Wanted(x) /\ RoutesOf(x) \subseteq {d} /\ RoutesOf(x)' = {d}
              /\ \A y \in Addrs \ {x} : RoutesOf(y)' = RoutesOf(y)
    BY <1>2, ApplyEffect
  <2>2. [y \in Addrs |-> RoutesOf(y)]' = [[y \in Addrs |-> RoutesOf(y)] EXCEPT ![x] = {d}]
    BY <2>1
  <2>3. CASE RoutesOf(x) = {}
    <3>1. Table!Install(x, d)
      BY <1>1, <2>1, <2>2, <2>3 DEF Table!Install
    <3> QED
      BY <3>1 DEF Table!Next
  <2>4. CASE RoutesOf(x) = {d}
    <3>1. [y \in Addrs |-> RoutesOf(y)]' = [y \in Addrs |-> RoutesOf(y)]
      BY <2>1, <2>4
    <3> QED
      BY <1>1, <3>1 DEF Table!tableVars
  <2> QED
    BY <2>1, <2>3, <2>4
<1>3. CASE ServeRemove(w)
  <2>1. PICK x \in Addrs :
              /\ ~IsActive(x) /\ RoutesOf(x)' = {}
              /\ \A y \in Addrs \ {x} : RoutesOf(y)' = RoutesOf(y)
    BY <1>3, RemoveEffect
  <2>2. [y \in Addrs |-> RoutesOf(y)]' = [[y \in Addrs |-> RoutesOf(y)] EXCEPT ![x] = {}]
    BY <2>1
  <2>3. Table!Withdraw(x)
    BY <1>1, <2>1, <2>2, WantedSets DEF WantedFits, Table!Withdraw
  <2> QED
    BY <2>3 DEF Table!Next
<1>4. CASE UNCHANGED routes
  <2>1. [y \in Addrs |-> RoutesOf(y)]' = [y \in Addrs |-> RoutesOf(y)]
    BY <1>4 DEF RoutesOf
  <2> QED
    BY <1>1, <2>1 DEF Table!tableVars
<1> QED
  BY <1>2, <1>3, <1>4
     DEF ClientStep, Take, Serve, ServeRelayLookup, ServeRouteLookup, ServeNeighbors,
         HandleLookup, HandleLookupMissing, HandleRouteReply

(* The exporter implements the route table: every run of it is a run in    *)
(* which the switch follows the lease database, one change at a time, for  *)
(* any instance in which the environment keeps its part.                   *)
THEOREM ImplementsRouteTable ==
    ASSUME Relaxed = {} PROVE SafetySpec => TableSpec
<1>1. Init => Table!Init
  BY DEF Init, ClientInit, LeaseInit, Free, Wanted, IsActive, RoutesOf, EndpointsOf,
         Table!Init
<1>2. RouteInv /\ RouteInv' /\ [Next]_vars => [Table!Next]_(Table!tableVars)
  <2> SUFFICES ASSUME RouteInv, RouteInv', [Next]_vars
               PROVE  [Table!Next]_(Table!tableVars)
    OBVIOUS
  <2>1. CASE CalloutStep
    BY <2>1, CalloutChangesLeases DEF Table!Next
  <2>2. ASSUME NEW w \in Workers, PoolStep(w) PROVE [Table!Next]_(Table!tableVars)
    BY <2>2, NoRestore, ClientStepFollows DEF PoolStep
  <2>3. CASE Halted \/ UNCHANGED vars
    <3>1. /\ [x \in Addrs |-> Wanted(x)]' = [x \in Addrs |-> Wanted(x)]
          /\ [x \in Addrs |-> RoutesOf(x)]' = [x \in Addrs |-> RoutesOf(x)]
      BY <2>3 DEF Halted, vars, clientVars, Wanted, IsActive, findIA_NALeaseByDUID_IAID,
                  Holds, RoutesOf
    <3> QED
      BY <3>1 DEF Table!tableVars
  <2> QED
    BY <2>1, <2>2, <2>3 DEF Next
<1> QED
  BY InitSettled, NextSettled, <1>1, <1>2, PTL DEF SafetySpec, TableSpec, Table!Spec

----------------------------------------------------------------------------
(* Removals, in an environment in which requests get lost, the switch      *)
(* reboots, routes are restored, leases expire early and prefixes move or  *)
(* outlive the address they are routed to.  Only the assumptions "overlap" *)
(* and "otherIA" are kept.                                                 *)

KeptInv == TypeInv /\ RemovalsOfEnded

(* A callout keeps the invariant if it grants only what is not busy and    *)
(* removes only what it ends.                                              *)
LEMMA CalloutRemovals ==
    ASSUME KeptInv, work' = work,
           NEW reqs \in Seq(Requests), queue' = queue \o reqs,
           \A x \in Addrs : IsActive(x)' => IsActive(x) \/ ~Busy(x),
           \A j \in DOMAIN reqs : Removing(reqs[j]) => ~IsActive(reqs[j].src)'
    PROVE  RemovalsOfEnded'
<1> SUFFICES ASSUME NEW r \in InPool', Removing(r), IsActive(r.src)' PROVE FALSE
  BY DEF RemovalsOfEnded, Removing
<1>1. r \notin InPool
  <2> SUFFICES ASSUME r \in InPool PROVE FALSE
    OBVIOUS
  <2>1. r \in Requests
    BY TypesUsed DEF KeptInv, InPool, ActiveWorkers, Slots
  <2>2. r.src \in Addrs
    BY <2>1 DEF Removing, Requests, NeighborsRequest, Request
  <2>3. ~IsActive(r.src) /\ Busy(r.src)
    BY DEF KeptInv, RemovalsOfEnded, Busy
  <2> QED
    BY <2>2, <2>3
<1>2. \A w \in ActiveWorkers' : work'[w].req \in InPool
  BY DEF InPool, ActiveWorkers
<1>3. PICK i \in DOMAIN queue' : r = queue'[i]
  BY <1>1, <1>2 DEF InPool
<1>4. \E j \in DOMAIN reqs : r = reqs[j]
  <2>1. ~(i \in DOMAIN queue /\ queue'[i] = queue[i])
    BY <1>1, <1>3 DEF InPool
  <2> QED
    BY <1>3, <2>1, Posted, TypesUsed DEF KeptInv
<1> QED
  BY <1>4

(* The sequences of requests that callouts post.                           *)
LEMMA NoPost ==
    ASSUME KeptInv, work' = work, UNCHANGED queue,
           \A x \in Addrs : IsActive(x)' => IsActive(x) \/ ~Busy(x)
    PROVE  RemovalsOfEnded'
<1>1. queue' = queue \o <<>> /\ <<>> \in Seq(Requests) /\ DOMAIN <<>> = {}
  BY TypesUsed DEF KeptInv
<1> QED
  BY <1>1, CalloutRemovals

LEMMA OnePost ==
    ASSUME KeptInv, work' = work, NEW r \in Requests, queue' = queue \o <<r>>,
           \A x \in Addrs : IsActive(x)' => IsActive(x) \/ ~Busy(x),
           Removing(r) => ~IsActive(r.src)'
    PROVE  RemovalsOfEnded'
<1>1. <<r>> \in Seq(Requests) /\ \A j \in DOMAIN <<r>> : <<r>>[j] = r
  OBVIOUS
<1> QED
  BY <1>1, CalloutRemovals

LEMMA TwoPosts ==
    ASSUME KeptInv, work' = work, NEW r \in Requests, NEW s \in Requests,
           queue' = queue \o <<r, s>>,
           \A x \in Addrs : IsActive(x)' => IsActive(x) \/ ~Busy(x),
           Removing(r) => ~IsActive(r.src)', Removing(s) => ~IsActive(s.src)'
    PROVE  RemovalsOfEnded'
<1>1. <<r, s>> \in Seq(Requests) /\ \A j \in DOMAIN <<r, s>> : <<r, s>>[j] \in {r, s}
  OBVIOUS
<1> QED
  BY <1>1, CalloutRemovals

(* Callouts.                                                               *)
LEMMA CalloutStepRemovals ==
    ASSUME KeptInv, CalloutStep, Relaxed \cap {"overlap", "otherIA"} = {}
    PROVE  RemovalsOfEnded'
<1> /\ lease \in [Addrs -> Leases] /\ \A c \in Clients : VlanOf[c] \in Vlans
    /\ NAAddrs \subseteq Addrs /\ Prefixes \subseteq Addrs
  BY TypesUsed DEF KeptInv
<1>n. \A c : findIA_NALeaseByDUID_IAID(c) \subseteq NAAddrs
  BY DEF findIA_NALeaseByDUID_IAID
<1>o. \A xs : Callout(xs) => \A x \in xs : ~Busy(x)
  BY DEF Callout, TimedCallout
<1>s. /\ Free.state # "active" /\ Declined.state # "active"
      /\ \A c : Active(c).state = "active" /\ Reclaimed(c).state # "active"
  BY DEF Free, Declined, Active, Reclaimed
<1>1. ASSUME NEW c \in Clients, NEW a \in NAAddrs, SelectNA(c, a)
      PROVE  RemovalsOfEnded'
  <2>1. queue' = queue \o <<Request("lookupApply", a, Relay(VlanOf[c]))>>
    BY <1>1, Exports DEF SelectNA
  <2>2. \A x \in Addrs : IsActive(x)' => IsActive(x) \/ ~Busy(x)
    BY <1>1, <1>o DEF SelectNA, IsActive
  <2> QED
    BY <1>1, <2>1, <2>2, OnePost, RequestsTyped DEF SelectNA, otherVars, Removing, Request
<1>2. ASSUME NEW c \in Clients, NEW a \in NAAddrs, ReleaseNA(c, a) \/ DeclineNA(c, a)
      PROVE  RemovalsOfEnded'
  <2>1. queue' = queue \o <<Request("lookupRemove", a, Relay(VlanOf[c]))>>
    BY <1>2, Removals DEF ReleaseNA, DeclineNA, EndNA
  <2>2. /\ \A x \in Addrs : IsActive(x)' => IsActive(x)
        /\ ~IsActive(a)'
    BY <1>2, <1>s DEF ReleaseNA, DeclineNA, EndNA, IsActive
  <2>3. work' = work
    BY <1>2 DEF ReleaseNA, DeclineNA, EndNA, otherVars
  <2> QED
    BY <2>1, <2>2, <2>3, OnePost, RequestsTyped DEF Request
<1>3. ASSUME NEW c \in Clients, NEW p \in Prefixes, SelectPD(c, p)
      PROVE  RemovalsOfEnded'
  <2>1. PICK a \in NAAddrs : queue' = queue \o <<Request("apply", p, Host(a))>>
    BY <1>3, <1>n, Exports DEF SelectPD
  <2>2. \A x \in Addrs : IsActive(x)' => IsActive(x) \/ ~Busy(x)
    BY <1>3, <1>o DEF SelectPD, IsActive
  <2> QED
    BY <1>3, <2>1, <2>2, OnePost, RequestsTyped DEF SelectPD, otherVars, Removing, Request
<1>4. ASSUME NEW c \in Clients, NEW p \in Prefixes, ReleasePD(c, p)
      PROVE  RemovalsOfEnded'
  <2>1. /\ \A x \in Addrs : IsActive(x)' => IsActive(x)
        /\ ~IsActive(p)' /\ work' = work
    BY <1>4, <1>s DEF ReleasePD, IsActive, otherVars
  <2>2. ASSUME NEW a \in NAAddrs, removeRoute(IA_PDInfo(Host(a), p), c)
        PROVE  RemovalsOfEnded'
    <3>1. queue' = queue \o <<Request("remove", p, Host(a))>>
      BY <2>2, Removals
    <3> QED
      BY <2>1, <3>1, OnePost, RequestsTyped DEF Request
  <2>3. CASE UNCHANGED queue
    BY <2>1, <2>3, NoPost
  <2> QED
    BY <1>4, <1>n, <2>2, <2>3 DEF ReleasePD
<1>5. ASSUME NEW x \in Addrs, Expire(x)
      PROVE  RemovalsOfEnded'
  <2>1. /\ \A y \in Addrs : IsActive(y)' => IsActive(y)
        /\ ~IsActive(x)' /\ work' = work
    BY <1>5, <1>s DEF Expire, IsActive, otherVars
  <2>2. \E r \in Requests : queue' = queue \o <<r>> /\ r.src = x
    <3> DEFINE c == lease[x].client
    <3>1. CASE x \in NAAddrs
      <4>1. removeRoute(IA_NAInfoFuzzyRemove(x), c)
        BY <1>5, <3>1 DEF Expire
      <4>2. queue' = queue \o <<Request("lookupRoute", x, None)>>
        BY <3>1, <4>1, Removals
      <4> QED
        BY <4>2, RequestsTyped DEF Request
    <3>2. CASE x \in Prefixes /\ x \notin NAAddrs
      <4>1. removeRoute(IA_PDInfoFuzzyRemove(x), c)
        BY <1>5, <3>2 DEF Expire
      <4>2. \/ \E a \in NAAddrs : queue' = queue \o <<Request("remove", x, Host128(a))>>
            \/ queue' = queue \o <<Request("lookupRoute", x, None)>>
        BY <1>n, <3>2, <4>1, Removals
      <4> QED
        BY <4>2, RequestsTyped DEF Request
    <3> QED
      BY <3>1, <3>2 DEF Addrs
  <2> QED
    BY <2>1, <2>2, OnePost
<1>6. ASSUME NEW c \in Clients, NEW q \in Addrs, NEW x \in Addrs, NEW mayMove,
             Callout({q, x}), Extends(c, q, x, mayMove), lease' = Extended(c, q, x)
      PROVE  /\ \A y \in Addrs : IsActive(y)' => IsActive(y) \/ ~Busy(y)
             /\ q # x => ~IsActive(q)'
  <2>1. ~Busy(x)
    BY <1>6, <1>o
  <2>2. /\ lease'[x] = Active(c)
        /\ q # x => lease'[q] = IF Holds(c, q) THEN Free ELSE lease[q]
        /\ \A y \in Addrs \ {q, x} : lease'[y] = lease[y]
    BY <1>6 DEF Extended
  <2>3. q # x => ~IsActive(q) \/ Holds(c, q)
    BY <1>6 DEF Extends
  <2> QED
    BY <1>s, <2>1, <2>2, <2>3 DEF IsActive
<1>7. ASSUME NEW c \in Clients, NEW q \in NAAddrs, NEW a \in NAAddrs, RenewNA(c, q, a)
      PROVE  RemovalsOfEnded'
  <2>1. /\ \A y \in Addrs : IsActive(y)' => IsActive(y) \/ ~Busy(y)
        /\ q # a => ~IsActive(q)'
    BY <1>6, <1>7 DEF RenewNA
  <2>2. work' = work
    BY <1>7 DEF RenewNA, otherVars
  <2>3. CASE q # a
    <3>1. queue' = queue \o <<Request("lookupRemove", q, Relay(VlanOf[c])),
                              Request("lookupApply", a, Relay(VlanOf[c]))>>
      BY <1>7, <2>3, Replacements DEF RenewNA
    <3> QED
      BY <2>1, <2>2, <2>3, <3>1, TwoPosts, RequestsTyped DEF Removing, Request
  <2>4. CASE q = a
    <3>1. queue' = queue \o <<Request("lookupApply", a, Relay(VlanOf[c]))>>
      BY <1>7, <2>4, Exports DEF RenewNA
    <3> QED
      BY <2>1, <2>2, <3>1, OnePost, RequestsTyped DEF Removing, Request
  <2> QED
    BY <2>3, <2>4
<1>8. ASSUME NEW c \in Clients, NEW q \in Prefixes, NEW p \in Prefixes,
             NEW rebind \in BOOLEAN, RenewPD(c, q, p, rebind)
      PROVE  RemovalsOfEnded'
  <2>1. /\ \A y \in Addrs : IsActive(y)' => IsActive(y) \/ ~Busy(y)
        /\ q # p => ~IsActive(q)'
    BY <1>6, <1>8 DEF RenewPD
  <2>2. work' = work
    BY <1>8 DEF RenewPD, otherVars
  <2>3. ASSUME q # p, NEW a \in NAAddrs,
               replaceRoute(IA_PDInfo(Relay(VlanOf[c]), q), IA_PDInfo(Host(a), p))
        PROVE  RemovalsOfEnded'
    <3>1. queue' = queue \o <<Request("remove", q, Relay(VlanOf[c])),
                              Request("apply", p, Host(a))>>
      BY <2>3, Replacements
    <3> QED
      BY <2>1, <2>2, <2>3, <3>1, TwoPosts, RequestsTyped DEF Removing, Request
  <2>4. ASSUME NEW a \in NAAddrs, exportRoute(IA_PDInfo(Host(a), p))
        PROVE  RemovalsOfEnded'
    <3>1. queue' = queue \o <<Request("apply", p, Host(a))>>
      BY <2>4, Exports
    <3> QED
      BY <2>1, <2>2, <3>1, OnePost, RequestsTyped DEF Removing, Request
  <2>5. CASE UNCHANGED queue
    BY <2>1, <2>2, <2>5, NoPost
  <2> QED
    BY <1>8, <1>n, <2>3, <2>4, <2>5 DEF RenewPD
<1> QED
  BY <1>1, <1>2, <1>3, <1>4, <1>5, <1>7, <1>8 DEF CalloutStep

(* A step of the pool keeps the invariant if what it posts is a removal    *)
(* only where the request it goes on from was one.                         *)
LEMMA PoolRemovals ==
    ASSUME KeptInv, UNCHANGED lease,
           \A r \in InPool' : Removing(r) =>
              \E s \in InPool : Removing(s) /\ s.src = r.src
    PROVE  RemovalsOfEnded'
<1>1. \A x : IsActive(x)' = IsActive(x)
  BY DEF IsActive
<1> QED
  BY <1>1 DEF KeptInv, RemovalsOfEnded

(* A thread that works on, or ends, keeps its request, and others theirs.  *)
LEMMA WorkStays ==
    ASSUME KeptInv, NEW w \in Workers,
           \/ work' = [work EXCEPT ![w] = Idle]
           \/ /\ work' \in [Workers -> Slots] /\ work[w].phase # "idle"
              /\ work'[w].req = work[w].req
              /\ \A v \in Workers \ {w} : work'[v] = work[v]
    PROVE  \A v \in ActiveWorkers' : v \in ActiveWorkers /\ work'[v].req = work[v].req
  BY TypesUsed, IdleTyped DEF KeptInv, ActiveWorkers

LEMMA WorksOn ==
    ASSUME KeptInv, UNCHANGED lease, NEW w \in Workers,
           \A v \in ActiveWorkers' : v \in ActiveWorkers /\ work'[v].req = work[v].req,
           UNCHANGED queue
    PROVE  RemovalsOfEnded'
<1>1. InPool' \subseteq InPool
  BY DEF InPool
<1> QED
  BY <1>1, PoolRemovals

LEMMA GoesOn ==
    ASSUME KeptInv, UNCHANGED lease, NEW w \in Workers,
           \A v \in ActiveWorkers' : v \in ActiveWorkers /\ work'[v].req = work[v].req,
           NEW r \in Requests, queue' = queue \o <<r>>,
           Removing(r) => \E s \in InPool : Removing(s) /\ s.src = r.src
    PROVE  RemovalsOfEnded'
<1>1. <<r>> \in Seq(Requests) /\ \A j \in DOMAIN <<r>> : <<r>>[j] = r
  OBVIOUS
<1>2. \A i \in DOMAIN queue' : queue'[i] = r \/ queue'[i] \in InPool
  BY <1>1, Posted, TypesUsed DEF KeptInv, InPool
<1>3. \A s \in InPool' : s = r \/ s \in InPool
  BY <1>2 DEF InPool
<1> QED
  BY <1>3, PoolRemovals

LEMMA ClientStepRemovals ==
    ASSUME KeptInv, NEW w \in Workers, ClientStep(w)
    PROVE  RemovalsOfEnded'
<1>0. UNCHANGED lease /\ work \in [Workers -> Slots] /\ queue \in Seq(Requests)
  BY TypesUsed DEF KeptInv, ClientStep
<1>1. CASE Take(w)
  <2>1. /\ Head(queue) \in InPool
        /\ \A i \in DOMAIN queue' : queue'[i] \in InPool
    BY <1>0, <1>1, Taken DEF Take, InPool
  <2>2. \A v \in ActiveWorkers' : work'[v].req \in InPool
    BY <1>0, <1>1, <2>1 DEF Take, InPool, ActiveWorkers, Idle
  <2>3. InPool' \subseteq InPool
    BY <2>1, <2>2 DEF InPool
  <2> QED
    BY <1>0, <2>3, PoolRemovals
<1>2. ASSUME NEW phase, NEW answer, work[w].phase # "idle", Reply(w, phase, answer), UNCHANGED queue
      PROVE  RemovalsOfEnded'
  <2>1. \A v \in ActiveWorkers' : v \in ActiveWorkers /\ work'[v].req = work[v].req
    BY <1>0, <1>2 DEF Reply, ActiveWorkers, Slots
  <2> QED
    BY <1>0, <1>2, <2>1, WorksOn
<1>3. CASE Serve(w) /\ ~ServeNeighbors(w)
  BY <1>2, <1>3 DEF Serve, ServeRelayLookup, ServeRouteLookup, ServeApply, ServeRemove, Sent
<1>4. CASE ServeNeighbors(w)
  <2>1. \A v \in ActiveWorkers' : v \in ActiveWorkers /\ work'[v].req = work[v].req
    BY <1>0, <1>4 DEF ServeNeighbors, Sent, ActiveWorkers, Slots
  <2> QED
    BY <1>0, <1>4, <2>1, WorksOn DEF ServeNeighbors
<1>5. CASE HandleLookup(w)
  <2> DEFINE req == work[w].req
             r   == Request(IF req.op = "lookupApply" THEN "apply" ELSE "remove",
                            req.src, work[w].answer)
  <2>1. /\ queue' = queue \o <<r>> /\ work' = [work EXCEPT ![w] = Idle]
        /\ work[w].phase = "answered" /\ req.op \in Lookups /\ req \in Requests
    BY <1>0, <1>5 DEF HandleLookup, Post, Slots
  <2>2. r \in Requests
    BY <2>1 DEF KeptInv, TypeInv, AnswersTyped, Lookups, Requests, NeighborsRequest, Request
  <2>3. req \in InPool
    BY <2>1 DEF InPool, ActiveWorkers
  <2>4. Removing(r) => Removing(req) /\ req.src = r.src
    BY <2>1 DEF Removing, Request, Lookups
  <2>5. \A v \in ActiveWorkers' : v \in ActiveWorkers /\ work'[v].req = work[v].req
    BY <2>1, WorkStays
  <2> HIDE DEF r, req
  <2> QED
    BY <1>0, <2>1, <2>2, <2>3, <2>4, <2>5, GoesOn
<1>6. CASE HandleLookupMissing(w) \/ HandleRouteReply(w)
  BY <1>0, <1>6, WorkStays, WorksOn DEF HandleLookupMissing, HandleRouteReply
<1> QED
  BY <1>1, <1>3, <1>4, <1>5, <1>6 DEF ClientStep, Serve

(* A restore only exports.                                                 *)
LEMMA RestoreStepRemovals ==
    ASSUME KeptInv, NEW w \in Workers, RestoreStep(w)
    PROVE  RemovalsOfEnded'
<1>0. /\ UNCHANGED lease /\ work \in [Workers -> Slots] /\ queue \in Seq(Requests)
      /\ \A c \in Clients : VlanOf[c] \in Vlans
  BY TypesUsed DEF KeptInv, RestoreStep, HandleNeighbors, RestoreThrows, RestoreNA,
                   RestorePD, RestoreDone
<1>1. CASE HandleNeighbors(w)
  <2>1. \A v \in ActiveWorkers' : v \in ActiveWorkers /\ work'[v].req = work[v].req
    BY <1>0, <1>1, IdleTyped DEF HandleNeighbors, ActiveWorkers, Slots
  <2> QED
    BY <1>0, <1>1, <2>1, WorksOn DEF HandleNeighbors
<1>2. CASE RestoreThrows(w) \/ RestoreDone(w)
  BY <1>0, <1>2, WorkStays, WorksOn DEF RestoreThrows, RestoreDone
<1>3. CASE RestoreNA(w)
  <2>1. PICK row \in work[w].todo :
          /\ row.addr \in NAAddrs
          /\ IF row.client \in work[w].known
             THEN exportRoute(IA_NAFast(VlanOf[row.client], row.addr))
             ELSE UNCHANGED queue
          /\ work' = [work EXCEPT ![w].todo = @ \ {row}]
    BY <1>3 DEF RestoreNA
  <2>2. \A v \in ActiveWorkers' : v \in ActiveWorkers /\ work'[v].req = work[v].req
    BY <1>0, <2>1 DEF ActiveWorkers, Slots
  <2>3. CASE UNCHANGED queue
    BY <1>0, <2>2, <2>3, WorksOn
  <2>4. CASE row.client \in work[w].known
    <3> DEFINE r == Request("apply", row.addr, VlanIf(VlanOf[row.client]))
    <3>1. queue' = queue \o <<r>>
      BY <2>1, <2>4 DEF exportRoute, Post, sendRoutesToSwitch, IA_NAFast, RouteInfo
    <3>2. VlanOf[row.client] \in Vlans
      BY <1>0, <2>4 DEF Slots
    <3>3. r \in Requests /\ ~Removing(r)
      BY <2>1, <3>2 DEF Requests, Request, VlanIf, Endpoints, Addrs, Removing
    <3> QED
      BY <1>0, <2>2, <3>1, <3>3, GoesOn
  <2> QED
    BY <2>1, <2>3, <2>4
<1>4. CASE RestorePD(w)
  <2>1. PICK row \in work[w].todo :
          /\ row.addr \in Prefixes
          /\ \/ \E a \in NAAddrs : exportRoute(IA_PDInfo(Host(a), row.addr))
             \/ UNCHANGED queue
    BY <1>4 DEF RestorePD, findIA_NALeaseByDUID_IAID
  <2>2. \A v \in ActiveWorkers' : v \in ActiveWorkers /\ work'[v].req = work[v].req
    BY <1>4, WorkStays DEF RestorePD
  <2>3. CASE UNCHANGED queue
    BY <1>0, <2>2, <2>3, WorksOn
  <2>4. ASSUME NEW a \in NAAddrs, exportRoute(IA_PDInfo(Host(a), row.addr))
        PROVE  RemovalsOfEnded'
    <3> DEFINE r == Request("apply", row.addr, Host(a))
    <3>1. queue' = queue \o <<r>>
      BY <2>1, <2>4, Exports
    <3>2. r \in Requests /\ ~Removing(r)
      BY <2>1, RequestsTyped DEF Removing, Request, Addrs
    <3> QED
      BY <1>0, <2>2, <3>1, <3>2, GoesOn
  <2> QED
    BY <2>1, <2>3, <2>4
<1> QED
  BY <1>1, <1>2, <1>3, <1>4 DEF RestoreStep

(* What is lost is lost.                                                   *)
LEMMA FaultStepRemovals ==
    ASSUME KeptInv, NEW w \in Workers, FaultStep(w)
    PROVE  RemovalsOfEnded'
<1>0. UNCHANGED <<lease, queue>> /\ work \in [Workers -> Slots]
  BY TypesUsed DEF KeptInv, FaultStep, LoseRequestOrReply, SwallowReply
<1>1. CASE work' = [work EXCEPT ![w] = Idle]
  BY <1>0, <1>1, WorkStays, WorksOn
<1>2. CASE Reply(w, "failed", None) /\ work[w].phase # "idle"
  <2>1. \A v \in ActiveWorkers' : v \in ActiveWorkers /\ work'[v].req = work[v].req
    BY <1>0, <1>2 DEF Reply, ActiveWorkers, Slots
  <2> QED
    BY <1>0, <2>1, WorksOn
<1> QED
  BY <1>1, <1>2 DEF FaultStep, LoseRequestOrReply, SwallowReply

LEMMA SwitchStepRemovals ==
    ASSUME KeptInv, SwitchStep
    PROVE  RemovalsOfEnded'
<1>1. CASE ConnectionRestored
  <2>1. /\ queue' = queue \o <<NeighborsRequest>> /\ work' = work /\ lease' = lease
        /\ NeighborsRequest \in Requests /\ ~Removing(NeighborsRequest)
    BY <1>1 DEF ConnectionRestored, Post, Requests, NeighborsRequest, Request, Removing
  <2> QED
    BY <2>1, OnePost DEF IsActive
<1>2. CASE UNCHANGED <<lease, queue, work>>
  BY <1>2, NoPost DEF IsActive
<1> QED
  BY <1>1, <1>2 DEF SwitchStep, Reboot, NeighborLearned

LEMMA NextRemovals ==
    ASSUME Relaxed \cap {"overlap", "otherIA"} = {}
    PROVE  KeptInv /\ [Next]_vars => KeptInv'
<1> SUFFICES ASSUME KeptInv, [Next]_vars PROVE KeptInv'
  OBVIOUS
<1>1. TypeInv'
  BY NextTyped DEF KeptInv
<1>2. ASSUME UNCHANGED vars PROVE RemovalsOfEnded'
  BY <1>2, NoPost DEF vars, clientVars, IsActive
<1>3. RemovalsOfEnded'
  BY <1>2, CalloutStepRemovals, ClientStepRemovals, RestoreStepRemovals,
     FaultStepRemovals, SwitchStepRemovals DEF Next, PoolStep, Halted
<1> QED
  BY <1>1, <1>3 DEF KeptInv

LEMMA InitRemovals == Init => KeptInv
<1> SUFFICES ASSUME Init PROVE KeptInv
  OBVIOUS
<1>1. queue = <<>> /\ ActiveWorkers = {}
  BY IdleTyped DEF Init, ClientInit, ActiveWorkers
<1> QED
  BY <1>1, InitTyped DEF KeptInv, RemovalsOfEnded, InPool

(* Whatever gets lost, reboots, is restored or expires early, a removal is *)
(* only under way for what is not leased: nothing is leased again before   *)
(* the removal of its old route is done.                                   *)
THEOREM RemovalsAreOfEnded ==
    ASSUME Relaxed \cap {"overlap", "otherIA"} = {}
    PROVE  SafetySpec => []RemovalsOfEnded
<1>1. KeptInv => RemovalsOfEnded
  BY DEF KeptInv
<1> QED
  BY InitRemovals, NextRemovals, <1>1, PTL DEF SafetySpec

(* No callout, lookup, reply, loss or restore takes a route away from a    *)
(* lease that stays as it is: only a reboot does.  The two assumptions are *)
(* needed: the run exporter_other_ia drops one, and without the other a    *)
(* late removal of one callout meets what the next one has installed.      *)
THEOREM ActiveRoutesStay ==
    ASSUME Relaxed \cap {"overlap", "otherIA"} = {}
    PROVE  SafetySpec => ActiveRouteKept
<1> DEFINE Kept == \A x \in Addrs : IsActive(x) /\ lease'[x] = lease[x]
                       => routes \cap ({x} \X Endpoints) \subseteq routes'
<1>1. KeptInv /\ [Next]_vars => [Reboot \/ Kept]_vars
  <2> SUFFICES ASSUME KeptInv, Next PROVE Kept \/ Reboot \/ UNCHANGED vars
    OBVIOUS
  <2>1. CASE UNCHANGED routes
    BY <2>1
  <2>2. ASSUME NEW w \in Workers, ServeApply(w) PROVE Kept
    BY <2>2 DEF ServeApply
  <2>3. ASSUME NEW w \in Workers, ServeRemove(w) PROVE Kept
    <3>1. PICK r : r = work[w].req
      OBVIOUS
    <3>2. /\ r \in InPool /\ Removing(r)
          /\ routes' = routes \ {<<r.src, NextHop(r.dst)>>}
      BY <2>3, <3>1 DEF ServeRemove, Sent, InPool, ActiveWorkers, Removing
    <3>3. ~IsActive(r.src)
      BY <3>2 DEF KeptInv, RemovalsOfEnded
    <3> QED
      BY <3>2, <3>3
  <2>4. CASE CalloutStep \/ Halted
    BY <2>1, <2>4
       DEF CalloutStep, SelectNA, ReleaseNA, DeclineNA, EndNA, SelectPD, ReleasePD,
           Expire, RenewNA, RenewPD, otherVars, Halted, vars, clientVars
  <2>5. ASSUME NEW w \in Workers, PoolStep(w) \/ FaultStep(w) PROVE Kept
    BY <2>1, <2>2, <2>3, <2>5
       DEF PoolStep, ClientStep, Take, Serve, ServeRelayLookup, ServeRouteLookup,
           ServeNeighbors, HandleLookup, HandleLookupMissing, HandleRouteReply,
           RestoreStep, HandleNeighbors, RestoreThrows, RestoreNA, RestorePD,
           RestoreDone, FaultStep, LoseRequestOrReply, SwallowReply
  <2>6. CASE SwitchStep
    BY <2>1, <2>6 DEF SwitchStep, ConnectionRestored, NeighborLearned
  <2> QED
    BY <2>4, <2>5, <2>6 DEF Next
<1> QED
  BY InitRemovals, NextRemovals, <1>1, PTL DEF SafetySpec, ActiveRouteKept


=============================================================================
