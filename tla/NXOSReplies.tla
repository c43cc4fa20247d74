---------------------------- MODULE NXOSReplies ----------------------------
(***************************************************************************)
(* One request to the switch and what becomes of its reply: the closure of *)
(* NXOSHttpClientImpl::sendRequest, the JSON-RPC checks, and the response  *)
(* handlers of NXOSManagementClient and NXOSHeartbeatService.  The modules *)
(* NXOSManagementClient and Heartbeat only say that a reply is an answer,  *)
(* a missing table or a failure; this one says which reply is which.       *)
(***************************************************************************)
EXTENDS NXOSStructs, JsonRpcUtils

CONSTANTS
    VlanNames,      \* interface names that VlanIfRegex matches
    BadMacs,        \* what stands for an address the switch does not know
    LookupBodies,   \* bodies of "show ipv6 route"
    NeighborBodies, \* bodies of "show ipv6 neighbor"
    UptimeBodies,   \* bodies of "show version"
    Docs,           \* JSON-RPC documents
    Statuses        \* HTTP status codes

(* An uptime as the switch prints it.                                      *)
IsUptime(body) ==
    /\ body.form = "object" /\ body.rows = <<body.rows[1]>>
    /\ body.rows[1] \in [days : Nat, hrs : 0..23, mins : 0..59, secs : 0..59]

(* The rows of some tables.  The route of a lookup is five tables deep,    *)
(* below TABLE_vrf, TABLE_addrf, TABLE_prefix, TABLE_path and ROW_path; a  *)
(* neighbour is three deep, and in the table of its ROW_adj.               *)
RowsOf(tables) == UNION {Range(t.rows) : t \in tables}

VrfRows(body)    == RowsOf({body})
AddrRows(body)   == RowsOf(VrfRows(body))
PrefixRows(body) == RowsOf(AddrRows(body))
RoutePaths(body) == RowsOf(PrefixRows(body))
PathRows(body)   == RowsOf(RoutePaths(body))

AdjRows(body) == RowsOf(RowsOf(RowsOf({body})))

ASSUME ReplyAssumption ==
    /\ \A doc \in Docs :
          /\ doc.form \in DocForms
          /\ doc.responses \in Seq([error : Errors, id : Ids, result : Results])
          /\ doc.form = "object" => Len(doc.responses) = 1
    /\ \A body \in UptimeBodies : body = Table("missing", <<>>) \/ IsUptime(body)

(* Whatever is in a reply, its tables are what JSON makes of a table.      *)
ASSUME TableAssumption ==
    /\ \A body \in LookupBodies :
          \A t \in {body} \cup VrfRows(body) \cup AddrRows(body) \cup PrefixRows(body)
                        \cup RoutePaths(body) : IsTable(t)
    /\ \A body \in NeighborBodies :
          /\ \A t \in {body} \cup RowsOf({body}) \cup RowsOf(RowsOf({body})) : IsTable(t)
          /\ \A adj \in AdjRows(body) : adj.nested \in BOOLEAN /\ IsTable(adj.objects)

VARIABLES
    wraps,    \* the compiler: what braces around a json value mean
    stage,    \* "idle", "replied", "validated" or "done"
    request,  \* the kind of request under way
    reply,    \* transport, status, doc and body
    rpc,      \* what validateResponse returned or threw
    outcome   \* what the response handler did

replyVars == <<wraps, stage, request, reply, rpc, outcome>>

(* Which of the response handlers waits for the reply.                     *)
RouteRequests  == {"apply", "remove"}
LookupRequests == {"relay", "fuzzyNA", "fuzzyPD"}
Requests       == RouteRequests \cup LookupRequests \cup {"neighbors", "uptime"}

Did(kind, what) == [kind |-> kind, what |-> what]
Failed    == Did("failed", {})     \* logged, nothing follows
Thrown    == Did("thrown", {})     \* an exception leaves the handler
Undefined == Did("undefined", {})  \* undefined behaviour
Nothing   == Did("nothing", {})

NoReply == [transport |-> "error", status |-> 200,
            doc |-> [form |-> "empty", responses |-> <<>>],
            body |-> Table("missing", <<>>)]

ReplyInit ==
    /\ wraps \in BOOLEAN
    /\ stage = "idle"
    /\ request = "none"
    /\ reply = NoReply
    /\ rpc = Outcome("ok", <<>>)
    /\ outcome = Nothing

----------------------------------------------------------------------------
(* The closure that sendRequest posts.                                     *)

Bodies(kind) ==
    CASE kind \in LookupRequests -> LookupBodies
      [] kind = "neighbors"      -> NeighborBodies
      [] kind = "uptime"         -> UptimeBodies
      [] kind \in RouteRequests  -> {NoReply.body}

HasBody(doc) == doc.responses # <<>> /\ Head(doc.responses).result = "body"

(* cli.Post returns.  A lookup does not look at the status.                *)
Receive(kind) ==
    /\ stage = "idle"
    /\ \E status \in Statuses, doc \in Docs :
       \E body \in IF HasBody(doc) THEN Bodies(kind) ELSE {NoReply.body} :
          /\ kind \in LookupRequests => status = 200
          /\ reply' = [transport |-> "ok", status |-> status, doc |-> doc,
                       body |-> body]
    /\ request' = kind
    /\ stage' = "replied"
    /\ UNCHANGED <<wraps, rpc, outcome>>

(* The connection fails: no responses, no exception, status 200.           *)
ReceiveNothing(kind) ==
    /\ stage = "idle"
    /\ request' = kind
    /\ reply' = NoReply
    /\ rpc' = Outcome("ok", <<>>)
    /\ stage' = "validated"
    /\ UNCHANGED <<wraps, outcome>>

(* Only a JsonRpcException is caught, and handed to the response handler.  *)
ValidateReply ==
    /\ stage = "replied"
    /\ rpc' = validateResponse(reply.doc, wraps)
    /\ \/ rpc'.verdict \in {"ok", "rpc"} /\ stage' = "validated" /\ UNCHANGED outcome
       \/ rpc'.verdict = "thrown" /\ stage' = "done" /\ outcome' = Thrown
       \/ rpc'.verdict = "undefined" /\ stage' = "done" /\ outcome' = Undefined
    /\ UNCHANGED <<wraps, request, reply>>

jsonRpcException == rpc.verdict = "rpc"
EmptyResponse    == rpc.responses = <<>>

(* response->front().result["body"]: a result that is no object throws,    *)
(* and a missing body reads as null.                                       *)
ResultBody == IF Head(rpc.responses).result = "scalar" THEN {} ELSE {reply.body}

----------------------------------------------------------------------------
(* The response handlers.  Each says what it may come to, of which there   *)
(* is more than one where it reads something that is not there.            *)

(* handleRouteApply and handleRouteRemove only log.  Status 500 is treated *)
(* as any other.                                                           *)
RouteFails ==
    \/ reply.transport # "ok"
    \/ reply.status = 401
    \/ reply.status # 200 /\ jsonRpcException
    \/ EmptyResponse

handleRouteReply == IF RouteFails THEN {Failed} ELSE {Did("success", {})}

isValidVlanName(name) == name \in VlanNames

(* What a lookup takes from the path it has found, which the next command  *)
(* names: the first value there is.                                        *)
Wanted(kind, path) ==
    LET names == IF kind = "fuzzyPD" THEN path.ipnexthop ELSE path.ifname
        found == {i \in DOMAIN names :
                     /\ names[i] # {}
                     /\ kind = "fuzzyNA" => \E n \in names[i] : isValidVlanName(n)}
    IN  IF found = {} THEN {} ELSE names[Min(found)]

(* The handler behind asyncLookupAddressInternal.  The one for a relay     *)
(* address catches its exceptions; the fuzzy ones let them go.             *)
Refused(kind) == IF kind = "relay" THEN Failed ELSE Thrown

(* TABLE_prefix is missing: the test of its size reads a vector that was   *)
(* never constructed.  Either the handler gives up, the IA_PD one without  *)
(* an exception, or it goes on with a row that does not exist.             *)
MissingPrefix(kind) ==
    {Undefined, IF kind = "fuzzyPD" THEN Failed ELSE Refused(kind)}

(* A TABLE_prefix with several rows passes the test, and counts as its     *)
(* first row.  An empty one passes it, too, and has no first row.          *)
TakePrefix(kind, paths) ==
    IF Len(paths) # 1
    THEN {Refused(kind)}
    ELSE LET found == Wanted(kind, Head(paths))
         IN  IF found = {} THEN {Refused(kind)} ELSE {Did("posted", found)}

HandleRoutes(kind, vrfs) ==
    IF Len(vrfs) # 1 \/ (Len(vrfs) = 1 /\ Len(Head(vrfs)) # 1)
    THEN {Refused(kind)}
    ELSE LET addrf == Head(Head(vrfs))
         IN  IF ~addrf.has_value
             THEN MissingPrefix(kind)
             ELSE IF addrf.table_prefix = <<>>
             THEN {Undefined}
             ELSE TakePrefix(kind, Head(addrf.table_prefix))

asyncLookupAddressInternal(kind) ==
    IF EmptyResponse
    THEN {Failed}
    ELSE LET decoded == UNION {RouteLookupResponse(body, wraps) : body \in ResultBody}
         IN  IF decoded = {} THEN {Failed}
             ELSE UNION {HandleRoutes(kind, vrfs) : vrfs \in decoded}

(* The neighbours in the order of the reply, over all tables.              *)
Objects(vrfs) == FlattenSeq(FlattenSeq(FlattenSeq(vrfs)))

(* The map from the hardware addresses of the objects taken to their       *)
(* interfaces, where a later entry replaces an earlier one.                *)
(* fromRawCiscoString throws outside of the try block.                     *)
Mapping(objects, taken) ==
    LET last == {i \in taken :
                    \A k \in taken : k > i => objects[k].mac # objects[i].mac}
    IN  IF \E i \in taken : objects[i].mac \in BadMacs
        THEN Thrown
        ELSE Did("mapping", {<<objects[i].mac, objects[i].intf_out>> : i \in last})

(* The handler of the neighbour lookup.  A reply that cannot be decoded is *)
(* one way for it to fail.  response->front() is not guarded against a     *)
(* response without items.                                                 *)
HandlerFailed == Did("handlerFailed", {})

NeighborReply(Taken(_), undecoded) ==
    LET decoded == UNION {NeighborLookupResponse(body, wraps) : body \in ResultBody}
    IN  IF reply.transport # "ok" \/ reply.status # 200 \/ jsonRpcException
        THEN {HandlerFailed}
        ELSE IF EmptyResponse
        THEN {Undefined}
        ELSE IF decoded = {}
        THEN {undecoded}
        ELSE {LET objects == Objects(vrfs)
              IN  Mapping(objects, {i \in DOMAIN objects : Taken(objects[i])}) :
                 vrfs \in decoded}

OnVlan(object) == isValidVlanName(object.intf_out)

(* Mutations: interfaces that are no VLAN are taken, too; a reply that     *)
(* cannot be decoded is not caught.                                        *)
asyncGetHWAddrAnyInterface ==
    LET Every(object) == TRUE IN NeighborReply(Every, HandlerFailed)
asyncGetHWAddrUncaught == NeighborReply(OnVlan, Thrown)

asyncGetHWAddrToInterfaceNameMapping == NeighborReply(OnVlan, HandlerFailed)

(* The heartbeat's test for a failed connection, and the uptime else.      *)
checkForFailedConnectionOrRPCResponse ==
    LET decoded == UNION {UptimeResponse(body) : body \in ResultBody}
    IN  IF \/ reply.transport # "ok" \/ reply.status # 200
           \/ jsonRpcException \/ EmptyResponse
        THEN {Did("lost", {})}
        ELSE IF decoded = {}
        THEN {Did("lost", {})}
        ELSE {Did("alive", {getUptimeSecondsFromResponse(u)}) : u \in decoded}

----------------------------------------------------------------------------
(* The specification.                                                      *)

Handle(kinds, outcomes) ==
    /\ stage = "validated" /\ request \in kinds
    /\ outcome' \in outcomes
    /\ stage' = "done"
    /\ UNCHANGED <<wraps, request, reply, rpc>>

HandleRoute     == Handle(RouteRequests, handleRouteReply)
HandleLookup    == Handle(LookupRequests, asyncLookupAddressInternal(request))
HandleNeighbors == Handle({"neighbors"}, asyncGetHWAddrToInterfaceNameMapping)
HandleHeartbeat == Handle({"uptime"}, checkForFailedConnectionOrRPCResponse)

(* The closure ends; what it held is gone.                                 *)
Finish ==
    /\ stage = "done"
    /\ stage' = "idle" /\ request' = "none" /\ reply' = NoReply
    /\ rpc' = Outcome("ok", <<>>) /\ outcome' = Nothing
    /\ UNCHANGED wraps

ReplyNext ==
    \/ \E kind \in Requests : Receive(kind) \/ ReceiveNothing(kind)
    \/ ValidateReply
    \/ HandleRoute \/ HandleLookup \/ HandleNeighbors \/ HandleHeartbeat
    \/ Finish

----------------------------------------------------------------------------
(* Properties.                                                             *)

(* The field of a path that a lookup is for: an installation and the       *)
(* removal of an address need an interface, that of a prefix a next hop.   *)
Field(kind, row) == IF kind = "fuzzyPD" THEN row.ipnexthop ELSE row.ifname

(* Every path table of the reply is a single row, as it is for a route     *)
(* that this program has installed.                                        *)
OnePath(body) == \A path \in RoutePaths(body) : path.form = "object"

(* What is read from a lookup ends in a command that removes or installs a *)
(* route, so it has to be what the reply says: an interface of one of its  *)
(* paths, however many rows the tables have, and for a prefix the next hop *)
(* of its path.  (Of a prefix with several paths no such thing is claimed: *)
(* RowPath makes up a next hop where a row of an array has none.)          *)
ActsOnReply ==
    /\ outcome.kind = "posted"
    /\ request = "fuzzyPD" => OnePath(reply.body)
    => \A x \in outcome.what :
           \E row \in PathRows(reply.body) : x \in Field(request, row)

(* A reply in which every table has one row.                               *)
SingleRows(body) ==
    \A t \in {body} \cup VrfRows(body) \cup AddrRows(body) \cup PrefixRows(body)
                  \cup RoutePaths(body) : t.form = "object"

(* A response as NX-API sends it for a command that worked.                *)
Good(response) ==
    response.error = "none" /\ response.id \in {"int", "string"}
        /\ response.result = "body"

(* What the lookup can act on in a path: the removal of an address needs   *)
(* the interface of a VLAN.                                                *)
Sought(kind, row) ==
    {x \in Field(kind, row) : kind = "fuzzyNA" => x \in VlanNames}

(* Such a reply is acted upon, whatever the compiler makes of the braces:  *)
(* the next command names the interface of the route when one is sought,   *)
(* also of a route without a next hop (as the program installs them for    *)
(* addresses), and the next hop when that is sought, also of a route       *)
(* without an interface (as it installs them for prefixes).                *)
SingleRouteUsed ==
    /\ stage = "done" /\ request \in LookupRequests
    /\ reply.doc.form = "object" /\ Good(Head(reply.doc.responses))
    /\ SingleRows(reply.body)
    => \A row \in PathRows(reply.body) :
           Sought(request, row) # {} => outcome = Did("posted", Field(request, row))

(* A route command counts as successful only if no response of the batch   *)
(* reports an error: the removal sends two commands at once.               *)
SuccessIsReal ==
    outcome.kind = "success" =>
        /\ reply.transport = "ok" /\ reply.status # 401
        /\ reply.doc.responses # <<>>
        /\ \A r \in Range(reply.doc.responses) : r.error = "none"

(* A restore hears of the end of its neighbour lookup, with the neighbours *)
(* or through handlerFailed, if the reply is one JSON-RPC response and all *)
(* its hardware addresses can be read.  Otherwise it may not: an empty     *)
(* body, an empty array or an address such as INCOMPLETE end it silently.  *)
RestoreHeard ==
    /\ stage = "done" /\ request = "neighbors"
    /\ reply.doc.form \in {"object", "unparsable"}
    /\ \A r \in Range(reply.doc.responses) : r.id # "null" /\ r.result # "missing"
    => \/ outcome.kind \in {"mapping", "handlerFailed"}
       \/ \E row \in AdjRows(reply.body) :
             \E o \in Range(row.objects.rows) : o.mac \in BadMacs

(* The neighbours of the reply on VLAN interfaces, however deep they are.  *)
Neighbors(body) ==
    {o \in UNION {Range(adj.objects.rows) : adj \in AdjRows(body)} :
        o.intf_out \in VlanNames}

(* The restore routes an address to the interface that the switch reports  *)
(* for its hardware address, and finds every neighbour of a nested reply.  *)
(* (Of a reply with ROW_adj once, RowAdj reads no neighbour: the restore   *)
(* then finds no client.)                                                  *)
NeighborsAreReal ==
    outcome.kind = "mapping" =>
        /\ outcome.what \subseteq {<<o.mac, o.intf_out>> : o \in Neighbors(reply.body)}
        /\ (\A adj \in AdjRows(reply.body) : adj.nested) =>
               {pair[1] : pair \in outcome.what} = {o.mac : o \in Neighbors(reply.body)}

(* u is an earlier uptime than v, read as days, hours, minutes, seconds.   *)
Earlier(u, v) ==
    \/ u.days < v.days
    \/ u.days = v.days /\ u.hrs < v.hrs
    \/ u.days = v.days /\ u.hrs = v.hrs /\ u.mins < v.mins
    \/ u.days = v.days /\ u.hrs = v.hrs /\ u.mins = v.mins /\ u.secs < v.secs

(* The heartbeat takes the switch to be alive only on a good answer with   *)
(* status 200, and recognises a reboot by a smaller number of seconds:     *)
(* the numbers are ordered as the uptimes are.                             *)
HeartbeatIsTrue ==
    outcome.kind = "alive" =>
        /\ reply.status = 200 /\ Good(Head(reply.doc.responses))
        /\ \A u \in Range(reply.body.rows), other \in UptimeBodies :
           \A v \in Range(other.rows), secs \in outcome.what :
               (secs < getUptimeSecondsFromResponse(v)) <=> Earlier(u, v)

=============================================================================
