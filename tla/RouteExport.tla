---------------------------- MODULE RouteExport ----------------------------
(***************************************************************************)
(* The values that travel from the hook handlers to the switch: the five   *)
(* alternatives of RouteExport::routeInfo (include/route_export.hpp) and   *)
(* the NX-API requests NXOSManagementClient builds from them               *)
(* (src/nxos_management_client.cpp).                                       *)
(*                                                                         *)
(* An address stands for its "/128" route and a prefix for its "/length"   *)
(* route.  What the code writes after the route is an endpoint: a VLAN     *)
(* interface name, a host address, a host address with the "/128" suffix   *)
(* (line 530), or the relay's link address.                                *)
(***************************************************************************)

CONSTANTS
    NAAddrs,      \* addresses handed out as IA_NA leases
    Prefixes,     \* prefixes handed out as IA_PD leases
    Vlans,        \* VLAN interfaces of the switch, one relay address each
    None          \* "no value"

ASSUME AddrsAssumption ==
    /\ NAAddrs \cap Prefixes = {}
    /\ None \notin NAAddrs \cup Prefixes \cup Vlans

Addrs == NAAddrs \cup Prefixes

----------------------------------------------------------------------------
(* Endpoints.                                                              *)

Endpoints == [kind : {"vlan", "host", "host128", "relay"},
              id   : Vlans \cup NAAddrs]

VlanIf(v)  == [kind |-> "vlan",    id |-> v]
Host(a)    == [kind |-> "host",    id |-> a]
Host128(a) == [kind |-> "host128", id |-> a]
Relay(v)   == [kind |-> "relay",   id |-> v]

(* The switch reads a next hop "a/128" as the next hop "a".                *)
NextHop(d) == IF d.kind = "host128" THEN Host(d.id) ELSE d

(* The endpoints of x in a table of routes <<src, endpoint>>.              *)
EndpointsOf(table, x) == {d \in Endpoints : <<x, d>> \in table}

----------------------------------------------------------------------------
(* The alternatives of RouteExport::routeInfo.                             *)

RouteInfo(type, src, dst) == [type |-> type, src |-> src, dst |-> dst]

IA_NAInfo(v, a)         == RouteInfo("IA_NAInfo", a, Relay(v))
IA_PDInfo(d, p)         == RouteInfo("IA_PDInfo", p, d)
IA_NAFast(v, a)         == RouteInfo("IA_NAFast", a, VlanIf(v))
IA_NAInfoFuzzyRemove(a) == RouteInfo("IA_NAInfoFuzzyRemove", a, None)
IA_PDInfoFuzzyRemove(p) == RouteInfo("IA_PDInfoFuzzyRemove", p, None)

----------------------------------------------------------------------------
(* Requests posted to the HTTP client.  "lookupApply" and "lookupRemove"   *)
(* ask for the relay address's VLAN and continue with that operation;      *)
(* "lookupRoute" asks for src's own route and continues with its removal.  *)

Lookups == {"lookupApply", "lookupRemove", "lookupRoute"}

Request(op, src, dst) == [op |-> op, src |-> src, dst |-> dst]

NeighborsRequest == Request("neighbors", None, None)

Requests ==
    [op  : {"lookupApply", "lookupRemove", "apply", "remove"},
     src : Addrs,
     dst : Endpoints]
    \cup [op : {"lookupRoute"}, src : Addrs, dst : {None}]
    \cup {NeighborsRequest}

(* sendRoutesToSwitch: an IA_NAInfo starts with the relay lookup, the two  *)
(* other alternatives carry all that the route command needs.              *)
sendRoutesToSwitch(r) ==
    Request(IF r.type = "IA_NAInfo" THEN "lookupApply" ELSE "apply",
            r.src, r.dst)

(* Mutation of removeRoutesFromSwitch: an expired IA_NA lease goes the way *)
(* of a released one, although it names no relay.                          *)
removeFuzzyAsNAInfo(r, naLeases) ==
    IF r.type \in {"IA_NAInfo", "IA_NAInfoFuzzyRemove"}
    THEN {Request("lookupRemove", r.src, r.dst)}
    ELSE {Request("lookupRoute", r.src, None)}

(* removeRoutesFromSwitch, for the IA_NA leases naLeases that the client   *)
(* of the route has: a fuzzy IA_PD removal takes its next hop from the     *)
(* lease database when there is one, and asks the switch otherwise.        *)
removeRoutesFromSwitch(r, naLeases) ==
    CASE r.type = "IA_NAInfo" -> {Request("lookupRemove", r.src, r.dst)}
      [] r.type = "IA_PDInfo" -> {Request("remove", r.src, r.dst)}
      [] r.type = "IA_PDInfoFuzzyRemove" /\ naLeases # {} ->
            {Request("remove", r.src, Host128(a)) : a \in naLeases}
      [] OTHER -> {Request("lookupRoute", r.src, None)}

=============================================================================
