------------------------ MODULE NXOSManagementClient ------------------------
(***************************************************************************)
(* NXOSManagementClient (src/nxos_management_client.cpp) on top of the     *)
(* HTTP client's thread pool (src/nxos_http_client.cpp), and the switch it *)
(* talks to.  sendRequest posts a closure to the pool's IOService; a pool  *)
(* thread takes it, blocks in the HTTP POST and then runs the response     *)
(* handler, which may post the next request.  The switch is external: it   *)
(* keeps static routes and an ND table and executes the CLI commands.      *)
(*                                                                         *)
(* The pool's own start and stop protocol is module HttpClientPool.        *)
(***************************************************************************)
EXTENDS LeaseDatabase, Sequences

CONSTANTS
    Workers,      \* the pool's threads (4 in the code)
    VlanOf        \* the VLAN each client sits on

ASSUME VlanAssumption == VlanOf \in [Clients -> Vlans]

VARIABLES
    queue,        \* closures posted to m_ioService and not yet taken
    work,         \* what each pool thread is doing
    routes,       \* the switch's static routes, pairs <<src, endpoint>>
    neighbors,    \* clients whose hardware address is in the ND table
    crashed       \* the process died of undefined behaviour

clientVars == <<queue, work, routes, neighbors, crashed>>

(* A lease as getLeases6 returns it to the restore handler.                *)
LeaseRows == [addr : Addrs, client : Clients \cup {None}]

(* sent: in cli.Post; answered: the switch executed the command and        *)
(* replied; missing: it replied without TABLE_prefix; failed: no reply;    *)
(* restoring: in the loop of restoreLeasesFromLeaseDatabase.               *)
Phases == {"idle", "sent", "answered", "missing", "failed", "restoring"}

Slots == [phase  : Phases,
          req    : Requests,
          answer : Endpoints \cup {None},
          known  : SUBSET Clients,
          todo   : SUBSET LeaseRows]

Idle == [phase |-> "idle", req |-> NeighborsRequest, answer |-> None,
         known |-> {}, todo |-> {}]

ClientTypeOK ==
    /\ queue \in Seq(Requests)
    /\ work \in [Workers -> Slots]
    /\ routes \subseteq Addrs \X Endpoints
    /\ neighbors \subseteq Clients
    /\ crashed \in BOOLEAN

ClientInit ==
    /\ queue = <<>>
    /\ work = [w \in Workers |-> Idle]
    /\ routes = {}
    /\ neighbors = {}
    /\ crashed = FALSE

RoutesOf(x) == EndpointsOf(routes, x)

(* sendRequest for a sequence of requests, in order.                       *)
Post(reqs) == queue' = queue \o reqs

----------------------------------------------------------------------------
(* The pool thread and the switch.                                         *)

(* A pool thread dequeues the oldest closure and sends its request.        *)
Take(w) ==
    /\ ~crashed
    /\ work[w].phase = "idle"
    /\ queue # <<>>
    /\ work' = [work EXCEPT ![w] = [Idle EXCEPT !.phase = "sent",
                                                !.req = Head(queue)]]
    /\ queue' = Tail(queue)
    /\ UNCHANGED <<routes, neighbors, crashed>>

Sent(w, ops) ==
    /\ ~crashed
    /\ work[w].phase = "sent"
    /\ work[w].req.op \in ops

Reply(w, phase, answer) ==
    work' = [work EXCEPT ![w].phase = phase, ![w].answer = answer]

(* "show ipv6 route <relay>/128": the relay address is a local address of  *)
(* one VLAN interface, which the reply names.                              *)
ServeRelayLookup(w) ==
    /\ Sent(w, {"lookupApply", "lookupRemove"})
    /\ Reply(w, "answered", VlanIf(work[w].req.dst.id))
    /\ UNCHANGED <<queue, routes, neighbors, crashed>>

(* "show ipv6 route <src>": the reply lists the paths of src, of which the *)
(* handler takes the first, or has no TABLE_prefix when there is no route. *)
ServeRouteLookup(w) ==
    /\ Sent(w, {"lookupRoute"})
    /\ LET paths == RoutesOf(work[w].req.src) IN
           \/ \E d \in paths : Reply(w, "answered", d)
           \/ paths = {} /\ Reply(w, "missing", None)
    /\ UNCHANGED <<queue, routes, neighbors, crashed>>

(* "ipv6 route <src> <dst>".                                               *)
ServeApply(w) ==
    /\ Sent(w, {"apply"})
    /\ routes' = routes \cup {<<work[w].req.src, work[w].req.dst>>}
    /\ Reply(w, "answered", None)
    /\ UNCHANGED <<queue, neighbors, crashed>>

(* "no ipv6 route <src> <dst>"; for a VLAN interface the same batch ends   *)
(* with "clear ipv6 neighbor <vlan> force-delete", which the switch may    *)
(* skip when the first command fails for want of the route.                *)
ServeRemove(w) ==
    /\ Sent(w, {"remove"})
    /\ LET r       == <<work[w].req.src, NextHop(work[w].req.dst)>>
           cleared == {c \in neighbors : work[w].req.dst = VlanIf(VlanOf[c])}
       IN  /\ routes' = routes \ {r}
           /\ \/ neighbors' = neighbors \ cleared
              \/ r \notin routes /\ neighbors' = neighbors
    /\ Reply(w, "answered", None)
    /\ UNCHANGED <<queue, crashed>>

(* "show ipv6 neighbor".                                                   *)
ServeNeighbors(w) ==
    /\ Sent(w, {"neighbors"})
    /\ work' = [work EXCEPT ![w].phase = "answered", ![w].known = neighbors]
    /\ UNCHANGED <<queue, routes, neighbors, crashed>>

Serve(w) ==
    \/ ServeRelayLookup(w) \/ ServeRouteLookup(w)
    \/ ServeApply(w) \/ ServeRemove(w) \/ ServeNeighbors(w)

(* The request is lost before the switch sees it, or the reply on its way  *)
(* back, and the handler runs with a responseError.  All handlers but the  *)
(* one of the neighbor lookup log that and return; nothing is retried.     *)
LoseRequestOrReply(w) ==
    /\ ~crashed
    /\ work[w].phase \in {"sent", "answered", "missing"}
    /\ IF work[w].req.op = "neighbors"
       THEN Reply(w, "failed", None)
       ELSE work' = [work EXCEPT ![w] = Idle]
    /\ UNCHANGED <<queue, routes, neighbors, crashed>>

(* A reply with an empty body makes validateResponse throw isc::BadValue,  *)
(* which sendRequest does not catch: the handler never runs.               *)
SwallowReply(w) ==
    /\ ~crashed
    /\ work[w].phase = "answered"
    /\ work' = [work EXCEPT ![w] = Idle]
    /\ UNCHANGED <<queue, routes, neighbors, crashed>>

----------------------------------------------------------------------------
(* Response handlers.                                                      *)

(* Mutations of HandleLookup: every lookup continues with a removal ...    *)
HandleLookupAlwaysRemoves(w) ==
    /\ ~crashed
    /\ work[w].phase = "answered"
    /\ work[w].req.op \in Lookups
    /\ Post(<<Request("remove", work[w].req.src, work[w].answer)>>)
    /\ work' = [work EXCEPT ![w] = Idle]
    /\ UNCHANGED <<routes, neighbors, crashed>>

(* ... or the address that was looked up takes the place of the answer.    *)
HandleLookupKeepsRelay(w) ==
    LET req == work[w].req
        op  == IF req.op = "lookupApply" THEN "apply" ELSE "remove"
    IN  /\ ~crashed
        /\ work[w].phase = "answered"
        /\ req.op \in Lookups
        /\ Post(<<Request(op, req.src, IF req.dst = None THEN work[w].answer
                                                        ELSE req.dst)>>)
        /\ work' = [work EXCEPT ![w] = Idle]
        /\ UNCHANGED <<routes, neighbors, crashed>>

(* The handlers given to asyncLookupAddressInternal: apply or remove the   *)
(* route with the endpoint the switch named.                               *)
HandleLookup(w) ==
    LET req == work[w].req
        op  == IF req.op = "lookupApply" THEN "apply" ELSE "remove"
    IN  /\ ~crashed
        /\ work[w].phase = "answered"
        /\ req.op \in Lookups
        /\ Post(<<Request(op, req.src, work[w].answer)>>)
        /\ work' = [work EXCEPT ![w] = Idle]
        /\ UNCHANGED <<routes, neighbors, crashed>>

(* !has_value() && ->size() != 1 reads the size of a vector that was never *)
(* constructed: the size test throws isc::BadValue (or returns, line 574), *)
(* or the code goes on to index the vector and dies.                       *)
HandleLookupMissing(w) ==
    /\ ~crashed
    /\ work[w].phase = "missing"
    /\ work' = [work EXCEPT ![w] = Idle]
    /\ crashed' \in BOOLEAN
    /\ UNCHANGED <<queue, routes, neighbors>>

(* handleRouteApply and handleRouteRemove: the outcome is only logged.     *)
HandleRouteReply(w) ==
    /\ ~crashed
    /\ work[w].phase = "answered"
    /\ work[w].req.op \in {"apply", "remove"}
    /\ work' = [work EXCEPT ![w] = Idle]
    /\ UNCHANGED <<queue, routes, neighbors, crashed>>

=============================================================================
