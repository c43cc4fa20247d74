------------------------- MODULE LeaseHistoryProofs -------------------------
(***************************************************************************)
(* The exporter installs only routes that some lease called for, for every *)
(* choice of the constants: any pool size, any set of dropped assumptions. *)
(* The invariant HInv follows a route backwards, from the switch to the    *)
(* request a thread is sending, to the request in the queue or the lookup  *)
(* or restore that will produce it, to the lease it came from.             *)
(***************************************************************************)
EXTENDS LeaseHistory, DHCP6ExporterProofs

(* The history only grows, so what is justified stays justified.           *)
LEMMA JustifiedStays ==
    ASSUME held \subseteq held'
    PROVE  /\ \A x, d : Justified(held, x, d) => Justified(held', x, d)
           /\ \A r : RequestJustified(held, r) => RequestJustified(held', r)
           /\ \A s : SlotJustified(held, s) => SlotJustified(held', s)
  <1>1. \A x, d : Justified(held, x, d) => Justified(held', x, d)
    BY DEF Justified
  <1>2. \A r : RequestJustified(held, r) => RequestJustified(held', r)
    BY <1>1 DEF RequestJustified
  <1>3. \A s : SlotJustified(held, s) => SlotJustified(held', s)
    BY <1>2 DEF SlotJustified
  <1> QED BY <1>1, <1>2, <1>3

LEMMA QueueStays ==
    ASSUME held \subseteq held', QueueJustified, UNCHANGED queue
    PROVE  QueueJustified'
  BY JustifiedStays DEF QueueJustified

LEMMA WorkStays ==
    ASSUME held \subseteq held', WorkJustified, UNCHANGED work
    PROVE  WorkJustified'
  BY JustifiedStays DEF WorkJustified

LEMMA RoutesStay ==
    ASSUME held \subseteq held', OnlyLeasedRoutes, routes' \subseteq routes
    PROVE  OnlyLeasedRoutes'
  BY JustifiedStays DEF OnlyLeasedRoutes

(* Posting justified requests.                                             *)
LEMMA PostJustified ==
    ASSUME held \subseteq held', queue \in Seq(Requests), QueueJustified
    PROVE  /\ \A r \in Requests :
                Post(<<r>>) /\ RequestJustified(held', r) => QueueJustified'
           /\ \A r, s \in Requests :
                Post(<<r, s>>) /\ RequestJustified(held', r) /\ RequestJustified(held', s)
                    => QueueJustified'
  <1>1. \A i \in 1..Len(queue) : RequestJustified(held', queue[i])
    BY JustifiedStays DEF QueueJustified
  <1>2. ASSUME NEW r \in Requests, Post(<<r>>), RequestJustified(held', r)
        PROVE  QueueJustified'
    <2>1. queue' = queue \o <<r>>
      BY <1>2 DEF Post
    <2>2. Len(queue') = Len(queue) + 1
      BY <2>1
    <2>3. ASSUME NEW i \in 1..Len(queue')
          PROVE  queue'[i] = IF i <= Len(queue) THEN queue[i] ELSE r
      BY <2>1, <2>2, <2>3
    <2>4. ASSUME NEW i \in 1..Len(queue')
          PROVE  RequestJustified(held', queue'[i])
      <3>1. CASE i <= Len(queue)
        BY <1>1, <2>3, <3>1
      <3>2. CASE ~(i <= Len(queue))
        BY <1>2, <2>3, <3>2
      <3> QED BY <3>1, <3>2
    <2> QED BY <2>4 DEF QueueJustified
  <1>3. ASSUME NEW r \in Requests, NEW s \in Requests, Post(<<r, s>>),
               RequestJustified(held', r), RequestJustified(held', s)
        PROVE  QueueJustified'
    <2>1. queue' = queue \o <<r, s>>
      BY <1>3 DEF Post
    <2>2. Len(queue') = Len(queue) + 2
      BY <2>1
    <2>3. ASSUME NEW i \in 1..Len(queue')
          PROVE  queue'[i] = IF i <= Len(queue) THEN queue[i]
                             ELSE IF i = Len(queue) + 1 THEN r ELSE s
      BY <2>1, <2>2, <2>3
    <2>4. ASSUME NEW i \in 1..Len(queue')
          PROVE  RequestJustified(held', queue'[i])
      <3>1. CASE i <= Len(queue)
        BY <1>1, <2>3, <3>1
      <3>2. CASE ~(i <= Len(queue))
        BY <1>3, <2>3, <3>2
      <3> QED BY <3>1, <3>2
    <2> QED BY <2>4 DEF QueueJustified
  <1> QED BY <1>2, <1>3

(* A removal never installs a route.                                       *)
LEMMA RemovalJustified ==
    ASSUME NEW r, NEW na, NEW req \in removeRoutesFromSwitch(r, na)
    PROVE  \A h : RequestJustified(h, req)
  <1>1. req.op \in {"lookupRemove", "remove", "lookupRoute"}
    BY DEF removeRoutesFromSwitch, Request
  <1> QED BY <1>1 DEF RequestJustified

----------------------------------------------------------------------------
(* What the handlers export for a lease in the history is justified.       *)

LEMMA ExportJustified ==
    ASSUME held \subseteq held', queue \in Seq(Requests), QueueJustified,
           NEW c \in Clients, NEW a \in NAAddrs, <<c, a>> \in held'
    PROVE  /\ exportRoute(IA_NAInfo(VlanOf[c], a)) => QueueJustified'
           /\ exportRoute(IA_NAFast(VlanOf[c], a)) => QueueJustified'
           /\ \A p \in Prefixes : <<c, p>> \in held' /\ exportRoute(IA_PDInfo(Host(a), p))
                => QueueJustified'
           /\ \A q \in NAAddrs :
                replaceRoute(IA_NAInfo(VlanOf[c], q), IA_NAInfo(VlanOf[c], a))
                => QueueJustified'
           /\ \A p, q \in Prefixes :
                /\ <<c, p>> \in held'
                /\ replaceRoute(IA_PDInfo(Relay(VlanOf[c]), q), IA_PDInfo(Host(a), p))
                => QueueJustified'
  <1> DEFINE na   == sendRoutesToSwitch(IA_NAInfo(VlanOf[c], a))
             fast == sendRoutesToSwitch(IA_NAFast(VlanOf[c], a))
             pd(p) == sendRoutesToSwitch(IA_PDInfo(Host(a), p))
  <1>v. VlanOf[c] \in Vlans
    BY VlanAssumption
  <1>1. na \in Requests /\ RequestJustified(held', na)
    BY <1>v DEF sendRoutesToSwitch, IA_NAInfo, RouteInfo, Relay, Request,
                Requests, Endpoints, Addrs, RequestJustified
  <1>2. fast \in Requests /\ RequestJustified(held', fast)
    BY <1>v DEF sendRoutesToSwitch, IA_NAFast, RouteInfo, VlanIf, Request,
                Requests, Endpoints, Addrs, RequestJustified, Justified
  <1>3. ASSUME NEW p \in Prefixes, <<c, p>> \in held'
        PROVE  pd(p) \in Requests /\ RequestJustified(held', pd(p))
    BY <1>3 DEF sendRoutesToSwitch, IA_PDInfo, RouteInfo, Host, Request,
                Requests, Endpoints, Addrs, RequestJustified, Justified
  <1>4. ASSUME NEW q \in NAAddrs,
               NEW req \in removeRoutesFromSwitch(IA_NAInfo(VlanOf[c], q), {})
        PROVE  req \in Requests /\ RequestJustified(held', req)
    <2>1. IA_NAInfo(VlanOf[c], q).src \in Addrs /\ IA_NAInfo(VlanOf[c], q).dst \in Endpoints
      BY <1>v DEF IA_NAInfo, RouteInfo, Relay, Endpoints, Addrs
    <2>2. req \in Requests
      BY <2>1, RemoveTyped
    <2> QED BY <2>2, RemovalJustified
  <1>5. ASSUME NEW q \in Prefixes,
               NEW req \in removeRoutesFromSwitch(IA_PDInfo(Relay(VlanOf[c]), q), {})
        PROVE  req \in Requests /\ RequestJustified(held', req)
    <2>1. /\ IA_PDInfo(Relay(VlanOf[c]), q).src \in Addrs
          /\ IA_PDInfo(Relay(VlanOf[c]), q).dst \in Endpoints
      BY <1>v DEF IA_PDInfo, RouteInfo, Relay, Endpoints, Addrs
    <2>2. req \in Requests
      BY <2>1, RemoveTyped
    <2> QED BY <2>2, RemovalJustified
  <1> HIDE DEF na, fast, pd
  <1>6. exportRoute(IA_NAInfo(VlanOf[c], a)) => QueueJustified'
    BY <1>1, PostJustified DEF exportRoute, na
  <1>7. exportRoute(IA_NAFast(VlanOf[c], a)) => QueueJustified'
    BY <1>2, PostJustified DEF exportRoute, fast
  <1>8. ASSUME NEW p \in Prefixes, <<c, p>> \in held', exportRoute(IA_PDInfo(Host(a), p))
        PROVE  QueueJustified'
    BY <1>3, <1>8, PostJustified DEF exportRoute, pd
  <1>9. ASSUME NEW q \in NAAddrs,
               replaceRoute(IA_NAInfo(VlanOf[c], q), IA_NAInfo(VlanOf[c], a))
        PROVE  QueueJustified'
    BY <1>1, <1>4, <1>9, PostJustified DEF replaceRoute, na
  <1>10. ASSUME NEW p \in Prefixes, NEW q \in Prefixes, <<c, p>> \in held',
                replaceRoute(IA_PDInfo(Relay(VlanOf[c]), q), IA_PDInfo(Host(a), p))
         PROVE  QueueJustified'
    BY <1>3, <1>5, <1>10, PostJustified DEF replaceRoute, pd
  <1> QED BY <1>6, <1>7, <1>8, <1>9, <1>10

LEMMA RemoveRouteJustified ==
    ASSUME held \subseteq held', queue \in Seq(Requests), QueueJustified,
           NEW r, NEW c, removeRoute(r, c), r.src \in Addrs,
           r.type \in {"IA_NAInfo", "IA_PDInfo"} => r.dst \in Endpoints
    PROVE  QueueJustified'
  <1>1. findIA_NALeaseByDUID_IAID(c) \in SUBSET NAAddrs
    BY DEF findIA_NALeaseByDUID_IAID
  <1> QED BY <1>1, RemoveTyped, RemovalJustified, PostJustified DEF removeRoute

(* A lease that is granted enters the history; one that ends either loses  *)
(* its client or keeps the one it had.                                     *)
LEMMA LeasesHeldStays ==
    ASSUME held' = held \cup Granted', LeasesHeld,
           \A x \in Addrs : \/ lease'[x].client \in {None, lease[x].client}
                            \/ lease'[x].state = "active"
    PROVE  LeasesHeld'
  BY DEF LeasesHeld, Granted, IsActive

(* A callout keeps HInv if what it posts and the leases it changes do.     *)
LEMMA CalloutKeeps ==
    ASSUME HInv, held \subseteq held', UNCHANGED otherVars, QueueJustified',
           LeasesHeld'
    PROVE  HInv'
  <1>1. WorkJustified'
    BY WorkStays DEF HInv, otherVars
  <1>2. OnlyLeasedRoutes'
    BY RoutesStay DEF HInv, otherVars
  <1> QED BY <1>1, <1>2 DEF HInv

LEMMA CalloutStepKeeps ==
    ASSUME TypeInv, HInv, CalloutStep, held' = held \cup Granted'
    PROVE  HInv'
  <1> lease \in [Addrs -> Leases] /\ queue \in Seq(Requests)
    BY DEF TypeInv, TypeOK, LeaseTypeOK, ClientTypeOK
  <1> held \subseteq held' /\ QueueJustified /\ LeasesHeld
    BY DEF HInv
  <1> NAAddrs \subseteq Addrs /\ Prefixes \subseteq Addrs
    BY DEF Addrs
  <1>v. \A c \in Clients : VlanOf[c] \in Vlans
    BY VlanAssumption
  <1>g. ASSUME NEW c \in Clients, NEW x \in Addrs, lease'[x] = Active(c)
        PROVE  <<c, x>> \in held'
    BY <1>g DEF Granted, IsActive, Active
  <1>n. ASSUME NEW c \in Clients, NEW a \in findIA_NALeaseByDUID_IAID(c)
        PROVE  a \in NAAddrs /\ <<c, a>> \in held'
    <2>1. a \in NAAddrs /\ lease[a] = Active(c)
      BY DEF findIA_NALeaseByDUID_IAID, Holds
    <2>2. c # None
      BY ClientsAssumption
    <2> QED BY <2>1, <2>2 DEF LeasesHeld, Active
  <1>1. ASSUME NEW c \in Clients, NEW a \in NAAddrs, SelectNA(c, a)
        PROVE  HInv'
    <2>1. lease'[a] = Active(c)
      BY <1>1 DEF SelectNA
    <2>2. QueueJustified'
      BY <1>1, <1>g, <2>1, ExportJustified DEF SelectNA
    <2>3. LeasesHeld'
      BY <1>1, LeasesHeldStays DEF SelectNA, Active
    <2> QED BY <1>1, <2>2, <2>3, CalloutKeeps DEF SelectNA
  <1>2. ASSUME NEW c \in Clients, NEW a \in NAAddrs,
               ReleaseNA(c, a) \/ DeclineNA(c, a)
        PROVE  HInv'
    <2> DEFINE r == IA_NAInfo(VlanOf[c], a)
    <2>1. r.src \in Addrs /\ r.dst \in Endpoints
      BY <1>v DEF IA_NAInfo, RouteInfo, Relay, Endpoints
    <2>2. QueueJustified'
      BY <1>2, <2>1, RemoveRouteJustified DEF ReleaseNA, DeclineNA, EndNA
    <2>3. LeasesHeld'
      BY <1>2, LeasesHeldStays DEF ReleaseNA, DeclineNA, EndNA, Free, Declined
    <2> QED BY <1>2, <2>2, <2>3, CalloutKeeps DEF ReleaseNA, DeclineNA, EndNA
  <1>3. ASSUME NEW c \in Clients, NEW p \in Prefixes, SelectPD(c, p)
        PROVE  HInv'
    <2>1. PICK a \in findIA_NALeaseByDUID_IAID(c) : exportRoute(IA_PDInfo(Host(a), p))
      BY <1>3 DEF SelectPD
    <2>2. lease'[p] = Active(c)
      BY <1>3 DEF SelectPD
    <2>3. QueueJustified'
      BY <1>g, <1>n, <2>1, <2>2, ExportJustified
    <2>4. LeasesHeld'
      BY <1>3, LeasesHeldStays DEF SelectPD, Active
    <2> QED BY <1>3, <2>3, <2>4, CalloutKeeps DEF SelectPD
  <1>4. ASSUME NEW c \in Clients, NEW p \in Prefixes, ReleasePD(c, p)
        PROVE  HInv'
    <2>1. ASSUME NEW a \in NAAddrs, removeRoute(IA_PDInfo(Host(a), p), c)
          PROVE  QueueJustified'
      <3>1. /\ IA_PDInfo(Host(a), p).src \in Addrs
            /\ IA_PDInfo(Host(a), p).dst \in Endpoints
        BY DEF IA_PDInfo, RouteInfo, Host, Endpoints
      <3> QED BY <2>1, <3>1, RemoveRouteJustified
    <2>2. QueueJustified'
      BY <1>4, <1>n, <2>1, QueueStays DEF ReleasePD
    <2>3. LeasesHeld'
      BY <1>4, LeasesHeldStays DEF ReleasePD, Free
    <2> QED BY <1>4, <2>2, <2>3, CalloutKeeps DEF ReleasePD
  <1>5. ASSUME NEW x \in Addrs, Expire(x)
        PROVE  HInv'
    <2> DEFINE r == IF x \in NAAddrs THEN IA_NAInfoFuzzyRemove(x)
                                     ELSE IA_PDInfoFuzzyRemove(x)
    <2>1. r.src \in Addrs /\ r.type \notin {"IA_NAInfo", "IA_PDInfo"}
      BY DEF IA_NAInfoFuzzyRemove, IA_PDInfoFuzzyRemove, RouteInfo
    <2>2. removeRoute(r, lease[x].client)
      BY <1>5 DEF Expire
    <2>3. QueueJustified'
      BY <2>1, <2>2, RemoveRouteJustified
    <2>4. LeasesHeld'
      BY <1>5, LeasesHeldStays DEF Expire, Free, Reclaimed
    <2> QED BY <1>5, <2>3, <2>4, CalloutKeeps DEF Expire
  <1>e. ASSUME NEW c \in Clients, NEW q \in Addrs, NEW x \in Addrs,
               lease' = Extended(c, q, x)
        PROVE  LeasesHeld' /\ <<c, x>> \in held'
    <2>1. lease'[x] = Active(c)
      BY <1>e DEF Extended
    <2>2. \A y \in Addrs : \/ lease'[y].client \in {None, lease[y].client}
                           \/ lease'[y].state = "active"
      BY <1>e DEF Extended, Active, Free
    <2> QED BY <1>g, <2>1, <2>2, LeasesHeldStays
  <1>6. ASSUME NEW c \in Clients, NEW q \in NAAddrs, NEW a \in NAAddrs,
               RenewNA(c, q, a)
        PROVE  HInv'
    <2>1. LeasesHeld' /\ <<c, a>> \in held'
      BY <1>6, <1>e DEF RenewNA
    <2>2. QueueJustified'
      BY <1>6, <2>1, ExportJustified DEF RenewNA
    <2> QED BY <1>6, <2>1, <2>2, CalloutKeeps DEF RenewNA
  <1>7. ASSUME NEW c \in Clients, NEW q \in Prefixes, NEW p \in Prefixes,
               NEW rebind \in BOOLEAN, RenewPD(c, q, p, rebind)
        PROVE  HInv'
    <2>1. LeasesHeld' /\ <<c, p>> \in held'
      BY <1>7, <1>e DEF RenewPD
    <2>2. UNCHANGED queue => QueueJustified'
      BY QueueStays
    <2>3. ASSUME NEW a \in findIA_NALeaseByDUID_IAID(c),
                 \/ exportRoute(IA_PDInfo(Host(a), p))
                 \/ replaceRoute(IA_PDInfo(Relay(VlanOf[c]), q), IA_PDInfo(Host(a), p))
          PROVE  QueueJustified'
      BY <1>n, <2>1, <2>3, ExportJustified
    <2>4. QueueJustified'
      BY <1>7, <2>2, <2>3 DEF RenewPD
    <2> QED BY <1>7, <2>1, <2>4, CalloutKeeps DEF RenewPD
  <1> QED BY <1>1, <1>2, <1>3, <1>4, <1>5, <1>6, <1>7 DEF CalloutStep

----------------------------------------------------------------------------
(* Steps of the pool threads.                                              *)

LEMMA IdleJustified == \A h : SlotJustified(h, Idle)
  BY DEF SlotJustified, Idle, RequestJustified, NeighborsRequest, Request

LEMMA FreeSlotKeeps ==
    ASSUME held \subseteq held', work \in [Workers -> Slots], WorkJustified,
           NEW w \in Workers, work' = [work EXCEPT ![w] = Idle]
    PROVE  WorkJustified'
  <1>1. \A u \in Workers : work'[u] = IF u = w THEN Idle ELSE work[u]
    BY DEF Slots
  <1> QED BY <1>1, IdleJustified, JustifiedStays DEF WorkJustified

(* A reply matters only for the lookups that continue with an apply.       *)
LEMMA ReplyKeeps ==
    ASSUME held \subseteq held', work \in [Workers -> Slots], WorkJustified,
           NEW w \in Workers, NEW phase, NEW answer, Reply(w, phase, answer),
           phase = "answered" /\ work[w].req.op = "lookupApply"
                => answer = VlanIf(work[w].req.dst.id)
    PROVE  WorkJustified'
  <1>1. /\ work'[w].req = work[w].req /\ work'[w].todo = work[w].todo
        /\ work'[w].phase = phase /\ work'[w].answer = answer
        /\ \A u \in Workers \ {w} : work'[u] = work[u]
    BY DEF Reply, Slots
  <1>2. SlotJustified(held', work[w])
    BY JustifiedStays DEF WorkJustified
  <1>3. SlotJustified(held', work'[w])
    BY <1>1, <1>2 DEF SlotJustified
  <1>4. \A u \in Workers \ {w} : SlotJustified(held', work'[u])
    BY <1>1, JustifiedStays DEF WorkJustified
  <1> QED BY <1>3, <1>4 DEF WorkJustified

LEMMA ClientStepKeeps ==
    ASSUME TypeInv, HInv, NEW w \in Workers, ClientStep(w),
           held' = held \cup Granted'
    PROVE  HInv'
  <1> queue \in Seq(Requests) /\ work \in [Workers -> Slots] /\ AnswersTyped
    BY DEF TypeInv, TypeOK, ClientTypeOK
  <1> held \subseteq held' /\ QueueJustified /\ WorkJustified /\ OnlyLeasedRoutes
    BY DEF HInv
  <1>l. LeasesHeld'
    BY LeasesHeldStays DEF HInv, ClientStep
  <1>r. work[w].req \in Requests /\ SlotJustified(held', work[w])
    BY JustifiedStays DEF Slots, WorkJustified
  <1>s. SUFFICES OnlyLeasedRoutes' /\ QueueJustified' /\ WorkJustified'
    BY <1>l DEF HInv
  <1>1. CASE Take(w)
    <2> DEFINE slot == [Idle EXCEPT !.phase = "sent", !.req = Head(queue)]
    <2>1. queue # <<>> /\ queue' = Tail(queue) /\ UNCHANGED routes
      BY <1>1 DEF Take
    <2>2. \A i \in 1..Len(queue) : RequestJustified(held', queue[i])
      BY JustifiedStays DEF QueueJustified
    <2>3. Head(queue) = queue[1] /\ 1 \in 1..Len(queue)
      BY <2>1
    <2>4. \A i \in 1..Len(queue') : queue'[i] = queue[i + 1] /\ i + 1 \in 1..Len(queue)
      BY <2>1
    <2>5. QueueJustified'
      BY <2>2, <2>4 DEF QueueJustified
    <2>6. SlotJustified(held', slot)
      BY <2>2, <2>3 DEF SlotJustified, Idle
    <2>7. \A u \in Workers : work'[u] = IF u = w THEN slot ELSE work[u]
      BY <1>1 DEF Take
    <2>8. WorkJustified'
      BY <2>6, <2>7, JustifiedStays DEF WorkJustified
    <2> QED BY <2>1, <2>5, <2>8, RoutesStay
  <1>2. CASE ServeRelayLookup(w)
    <2>1. UNCHANGED <<queue, routes>>
      BY <1>2 DEF ServeRelayLookup
    <2>2. WorkJustified'
      BY <1>2, ReplyKeeps DEF ServeRelayLookup
    <2> QED BY <2>1, <2>2, RoutesStay, QueueStays
  <1>3. CASE ServeRouteLookup(w)
    <2>1. UNCHANGED <<queue, routes>> /\ work[w].req.op = "lookupRoute"
      BY <1>3 DEF ServeRouteLookup, Sent
    <2>2. WorkJustified'
      BY <1>3, <2>1, ReplyKeeps DEF ServeRouteLookup
    <2> QED BY <2>1, <2>2, RoutesStay, QueueStays
  <1>4. CASE ServeApply(w)
    <2>1. UNCHANGED queue /\ work[w].req.op = "apply"
      BY <1>4 DEF ServeApply, Sent
    <2>2. Justified(held', work[w].req.src, work[w].req.dst)
      BY <1>r, <2>1 DEF SlotJustified, RequestJustified
    <2>3. routes' = routes \cup {<<work[w].req.src, work[w].req.dst>>}
      BY <1>4 DEF ServeApply
    <2>4. OnlyLeasedRoutes'
      <3>1. ASSUME NEW r \in routes'
            PROVE  Justified(held', r[1], r[2])
        <4>1. CASE r \in routes
          BY <4>1, JustifiedStays DEF OnlyLeasedRoutes
        <4>2. CASE r = <<work[w].req.src, work[w].req.dst>>
          <5>1. r[1] = work[w].req.src /\ r[2] = work[w].req.dst
            BY <4>2
          <5> QED BY <2>2, <5>1
        <4> QED BY <2>3, <4>1, <4>2
      <3> QED BY <3>1 DEF OnlyLeasedRoutes
    <2>5. WorkJustified'
      BY <1>4, <2>1, ReplyKeeps DEF ServeApply
    <2> QED BY <2>1, <2>4, <2>5, QueueStays
  <1>5. CASE ServeRemove(w)
    <2>1. UNCHANGED queue /\ work[w].req.op = "remove" /\ routes' \subseteq routes
      BY <1>5 DEF ServeRemove, Sent
    <2>2. WorkJustified'
      BY <1>5, <2>1, ReplyKeeps DEF ServeRemove
    <2> QED BY <2>1, <2>2, RoutesStay, QueueStays
  <1>6. CASE ServeNeighbors(w)
    <2>1. UNCHANGED <<queue, routes>> /\ work[w].req.op = "neighbors"
      BY <1>6 DEF ServeNeighbors, Sent
    <2>2. /\ work'[w].req = work[w].req /\ work'[w].todo = work[w].todo
          /\ \A u \in Workers \ {w} : work'[u] = work[u]
      BY <1>6 DEF ServeNeighbors, Slots
    <2>3. SlotJustified(held', work'[w])
      BY <1>r, <2>1, <2>2 DEF SlotJustified
    <2>4. WorkJustified'
      BY <2>2, <2>3, JustifiedStays DEF WorkJustified
    <2> QED BY <2>1, <2>4, RoutesStay, QueueStays
  <1>7. CASE HandleLookup(w)
    <2> DEFINE op  == IF work[w].req.op = "lookupApply" THEN "apply" ELSE "remove"
               req == Request(op, work[w].req.src, work[w].answer)
    <2>1. /\ Post(<<req>>) /\ UNCHANGED routes
          /\ work[w].phase = "answered" /\ work[w].req.op \in Lookups
          /\ work' = [work EXCEPT ![w] = Idle]
      BY <1>7 DEF HandleLookup
    <2>2. req \in Requests
      BY <1>r, <2>1 DEF Lookups, Requests, NeighborsRequest, Request, AnswersTyped
    <2>3. RequestJustified(held', req)
      <3>1. CASE work[w].req.op = "lookupApply"
        <4>1. PICK c \in Clients : /\ <<c, work[w].req.src>> \in held'
                                   /\ work[w].req.dst = Relay(VlanOf[c])
          BY <1>r, <3>1 DEF SlotJustified, RequestJustified
        <4>2. work[w].req.src \in NAAddrs /\ work[w].answer = VlanIf(VlanOf[c])
          BY <1>r, <2>1, <3>1, <4>1 DEF SlotJustified, RequestJustified, Relay
        <4> QED BY <3>1, <4>1, <4>2 DEF RequestJustified, Justified, Request
      <3>2. CASE work[w].req.op # "lookupApply"
        BY <3>2 DEF RequestJustified, Request
      <3> QED BY <3>1, <3>2
    <2>4. QueueJustified'
      BY <2>1, <2>2, <2>3, PostJustified
    <2> QED BY <2>1, <2>4, FreeSlotKeeps, RoutesStay
  <1>8. CASE HandleLookupMissing(w) \/ HandleRouteReply(w)
    BY <1>8, FreeSlotKeeps, RoutesStay, QueueStays
       DEF HandleLookupMissing, HandleRouteReply
  <1> QED BY <1>1, <1>2, <1>3, <1>4, <1>5, <1>6, <1>7, <1>8
          DEF ClientStep, Serve

LEMMA RestoreStepKeeps ==
    ASSUME TypeInv, HInv, NEW w \in Workers, RestoreStep(w),
           held' = held \cup Granted'
    PROVE  HInv'
  <1> lease \in [Addrs -> Leases] /\ queue \in Seq(Requests)
    BY DEF TypeInv, TypeOK, LeaseTypeOK, ClientTypeOK
  <1> work \in [Workers -> Slots]
    BY DEF TypeInv, TypeOK, ClientTypeOK
  <1> /\ held \subseteq held' /\ QueueJustified /\ WorkJustified
      /\ OnlyLeasedRoutes /\ LeasesHeld
    BY DEF HInv
  <1>u. UNCHANGED <<lease, routes>>
    BY DEF RestoreStep, HandleNeighbors, RestoreThrows, RestoreNA, RestorePD,
           RestoreDone
  <1>l. LeasesHeld'
    BY <1>u, LeasesHeldStays
  <1>s. SUFFICES QueueJustified' /\ WorkJustified'
    BY <1>l, <1>u, RoutesStay DEF HInv
  <1>r. SlotJustified(held', work[w])
    BY JustifiedStays DEF WorkJustified
  <1>1. CASE HandleNeighbors(w)
    <2> DEFINE rows == {[addr |-> x, client |-> lease[x].client] :
                            x \in {y \in Addrs : lease[y].state # "free"}}
    <2>1. CASE work[w].phase = "failed"
      BY <1>1, <2>1, FreeSlotKeeps, QueueStays DEF HandleNeighbors
    <2>2. CASE work[w].phase = "answered"
      <3>1. work' = [work EXCEPT ![w].phase = "restoring", ![w].todo = rows]
        BY <1>1, <2>2 DEF HandleNeighbors
      <3>2. /\ work'[w].req = work[w].req /\ work'[w].phase = "restoring"
            /\ work'[w].todo = rows
            /\ \A u \in Workers \ {w} : work'[u] = work[u]
        BY <3>1 DEF Slots
      <3>3. \A row \in rows : row.client # None => <<row.client, row.addr>> \in held'
        BY DEF LeasesHeld
      <3>4. SlotJustified(held', work'[w])
        BY <1>r, <3>2, <3>3 DEF SlotJustified
      <3>5. WorkJustified'
        BY <3>2, <3>4, JustifiedStays DEF WorkJustified
      <3> QED BY <1>1, <3>5, QueueStays DEF HandleNeighbors
    <2> QED BY <1>1, <2>1, <2>2 DEF HandleNeighbors
  <1>2. CASE RestoreThrows(w) \/ RestoreDone(w)
    BY <1>2, FreeSlotKeeps, QueueStays DEF RestoreThrows, RestoreDone
  <1>3. CASE RestoreNA(w)
    <2>1. PICK row \in work[w].todo :
            /\ row.client # None /\ row.addr \in NAAddrs
            /\ IF row.client \in work[w].known
               THEN exportRoute(IA_NAFast(VlanOf[row.client], row.addr))
               ELSE UNCHANGED queue
            /\ work' = [work EXCEPT ![w].todo = @ \ {row}]
      BY <1>3 DEF RestoreNA
    <2>2. row \in LeaseRows
      BY DEF Slots
    <2>3. row.client \in Clients /\ <<row.client, row.addr>> \in held'
      BY <1>r, <2>1, <2>2 DEF SlotJustified, LeaseRows
    <2>4. QueueJustified'
      BY <2>1, <2>3, ExportJustified, QueueStays
    <2>5. /\ work'[w].req = work[w].req /\ work'[w].phase = work[w].phase
          /\ work'[w].todo \subseteq work[w].todo /\ work'[w].answer = work[w].answer
          /\ \A u \in Workers \ {w} : work'[u] = work[u]
      BY <2>1 DEF Slots
    <2>6. SlotJustified(held', work'[w])
      BY <1>r, <2>5 DEF SlotJustified
    <2>7. WorkJustified'
      BY <2>5, <2>6, JustifiedStays DEF WorkJustified
    <2> QED BY <2>4, <2>7
  <1>4. CASE RestorePD(w)
    <2>1. PICK row \in work[w].todo :
            /\ row.client # None /\ row.addr \in Prefixes
            /\ \/ \E a \in findIA_NALeaseByDUID_IAID(row.client) :
                        exportRoute(IA_PDInfo(Host(a), row.addr))
               \/ UNCHANGED queue
      BY <1>4 DEF RestorePD
    <2>2. row \in LeaseRows
      BY DEF Slots
    <2>3. row.client \in Clients /\ <<row.client, row.addr>> \in held'
      BY <1>r, <2>1, <2>2 DEF SlotJustified, LeaseRows
    <2>4. ASSUME NEW a \in findIA_NALeaseByDUID_IAID(row.client)
          PROVE  a \in NAAddrs /\ <<row.client, a>> \in held'
      <3>1. a \in NAAddrs /\ lease[a] = Active(row.client)
        BY DEF findIA_NALeaseByDUID_IAID, Holds
      <3> QED BY <2>1, <3>1 DEF LeasesHeld, Active, Addrs
    <2>5. QueueJustified'
      BY <2>1, <2>3, <2>4, ExportJustified, QueueStays
    <2> QED BY <1>4, <2>5, FreeSlotKeeps DEF RestorePD
  <1> QED BY <1>1, <1>2, <1>3, <1>4 DEF RestoreStep

LEMMA FaultStepKeeps ==
    ASSUME TypeInv, HInv, NEW w \in Workers, FaultStep(w),
           held' = held \cup Granted'
    PROVE  HInv'
  <1> work \in [Workers -> Slots]
    BY DEF TypeInv, TypeOK, ClientTypeOK
  <1>1. UNCHANGED <<lease, queue, routes>>
    BY DEF FaultStep, LoseRequestOrReply, SwallowReply
  <1>2. WorkJustified'
    BY FreeSlotKeeps, ReplyKeeps DEF HInv, FaultStep, LoseRequestOrReply, SwallowReply
  <1>3. LeasesHeld'
    BY <1>1, LeasesHeldStays DEF HInv
  <1> QED BY <1>1, <1>2, <1>3, RoutesStay, QueueStays DEF HInv

LEMMA SwitchStepKeeps ==
    ASSUME TypeInv, HInv, SwitchStep, held' = held \cup Granted'
    PROVE  HInv'
  <1> queue \in Seq(Requests)
    BY DEF TypeInv, TypeOK, ClientTypeOK
  <1>1. UNCHANGED <<lease, work>> /\ routes' \subseteq routes
    BY DEF SwitchStep, ConnectionRestored, Reboot, NeighborLearned
  <1>2. LeasesHeld'
    BY <1>1, LeasesHeldStays DEF HInv
  <1>3. NeighborsRequest \in Requests /\ RequestJustified(held', NeighborsRequest)
    BY DEF Requests, RequestJustified, NeighborsRequest, Request
  <1>4. QueueJustified'
    BY <1>3, PostJustified, QueueStays
       DEF HInv, SwitchStep, ConnectionRestored, Reboot, NeighborLearned
  <1> QED BY <1>1, <1>2, <1>4, RoutesStay, WorkStays DEF HInv

LEMMA StutterKeeps ==
    ASSUME HInv, UNCHANGED vars, held' = held \/ held' = held \cup Granted'
    PROVE  HInv'
  <1>1. UNCHANGED <<lease, queue, work, routes>> /\ held \subseteq held'
    BY DEF vars, clientVars
  <1>2. LeasesHeld'
    BY <1>1 DEF HInv, LeasesHeld
  <1> QED BY <1>1, <1>2, RoutesStay, QueueStays, WorkStays DEF HInv

(* The initial state has no lease and no route.                            *)
LEMMA HInitKeeps == HInit => HInv
  <1> SUFFICES ASSUME HInit PROVE HInv
    OBVIOUS
  <1>1. LeasesHeld
    BY DEF HInit, Init, LeaseInit, LeasesHeld, Free
  <1>2. OnlyLeasedRoutes /\ QueueJustified
    BY DEF HInit, Init, ClientInit, OnlyLeasedRoutes, QueueJustified
  <1>3. WorkJustified
    BY IdleJustified DEF HInit, Init, ClientInit, WorkJustified
  <1> QED BY <1>1, <1>2, <1>3 DEF HInv

(* For any number of clients, addresses, VLANs and pool threads, whatever  *)
(* the environment does, every route on the switch is one that a lease     *)
(* called for.                                                             *)
THEOREM RoutesAreLeased == HSpec => []OnlyLeasedRoutes
  <1>1. HInit => TypeInv /\ HInv
    BY HInitKeeps, InitTyped DEF HInit
  <1>2. ASSUME TypeInv, HInv, [HNext]_hvars
        PROVE  TypeInv' /\ HInv'
    <2>1. CASE HNext
      <3>1. TypeInv'
        BY <1>2, <2>1, NextTyped DEF HNext
      <3>2. held' = held \cup Granted' /\ Next
        BY <2>1 DEF HNext
      <3>3. HInv'
        BY <1>2, <3>2, CalloutStepKeeps, ClientStepKeeps, RestoreStepKeeps,
           FaultStepKeeps, SwitchStepKeeps, StutterKeeps
           DEF Next, PoolStep, Halted
      <3> QED BY <3>1, <3>3
    <2>2. CASE UNCHANGED hvars
      <3>1. UNCHANGED vars /\ held' = held
        BY <2>2 DEF hvars
      <3> QED BY <1>2, <3>1, StutterTyped, StutterKeeps
    <2> QED BY <1>2, <2>1, <2>2
  <1>3. HInv => OnlyLeasedRoutes
    BY DEF HInv
  <1> QED BY <1>1, <1>2, <1>3, PTL DEF HSpec

=============================================================================
