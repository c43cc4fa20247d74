--------------------------- MODULE MCHookLibrary ---------------------------
(***************************************************************************)
(* HookLibrary for TLC: configurations near a good one, and replies near   *)
(* the ones NX-OS gives.  Words have 16 values and a second has three      *)
(* milliseconds, so that an interval of -5 or 6 wraps into a positive      *)
(* period, one of -1 or 3 into a negative one, and 1 fits.                 *)
(***************************************************************************)
EXTENDS HookLibrary

GoodConfig ==
    [family |-> "AF_INET6", connection_type |-> "nxos", connection_params |-> "map",
     host |-> "http", heartbeat_interval |-> "integer", seconds |-> 1,
     credentials |-> "map", login |-> "string", password |-> "string",
     certificate |-> "string", keyfile |-> "string"]

Deviations ==
    {[GoodConfig EXCEPT !.seconds = n] : n \in {-5, -1, 0, 1, 3, 6}}
        \cup UNION {{[GoodConfig EXCEPT ![f] = v] : v \in {"missing", "wrong"}} :
                       f \in DOMAIN GoodConfig \ {"seconds"}}
        \cup {[GoodConfig EXCEPT !.host = "https"]}

(* At most two parameters differ from the good ones; certificates only     *)
(* where they are read.                                                    *)
MCConfigs ==
    {c \in {[f \in DOMAIN GoodConfig |-> IF b[f] # GoodConfig[f] THEN b[f] ELSE a[f]] :
               a \in Deviations, b \in Deviations} :
        c.host = "https" \/ (c.certificate = "string" /\ c.keyfile = "string")}

----------------------------------------------------------------------------
(* Documents: a response, or an array of one or two.  Only a response that *)
(* is accepted comes with a body: bodies of the others are not looked at.  *)

GoodResponse == Response("none", "int", "body")

BadResponses ==
    {Response("object", "int", "missing"), Response("string", "int", "missing"),
     Response("none", "none", "null"), Response("none", "null", "null")}
        \cup {Response("none", "int", result) : result \in Results \ {"body"}}

MCDocs ==
    {[form |-> form, responses |-> <<>>] :
        form \in {"empty", "unparsable", "scalar", "array"}}
    \cup {[form |-> form, responses |-> <<r>>] :
              form \in {"object", "array"}, r \in BadResponses \cup {GoodResponse}}
    \cup {[form |-> "object", responses |-> <<Response("none", "string", "body")>>]}
    \cup {[form |-> "array", responses |-> <<GoodResponse, r>>] :
              r \in {GoodResponse, Response("object", "int", "missing"),
                     Response("none", "null", "null"), Response("none", "int", "missing")}}

----------------------------------------------------------------------------
(* Bodies.  Outer tables have one row, written either way, or the same row *)
(* twice.                                                                  *)

Outer == {"object", "array1", "array2"}
Gone  == {Table(form, <<>>) : form \in {"missing", "other", "array"}}

Wrapped(form, table) ==
    CASE form = "object" -> Table("object", <<table>>)
      [] form = "array1" -> Table("array", <<table>>)
      [] form = "array2" -> Table("array", <<table, table>>)

(* At most one outer table is not written as an object.                    *)
Near(forms) == Cardinality({i \in DOMAIN forms : forms[i] # "object"}) <= 1

Names == {{}, {"vlan10"}, {"ethernet1"}}
Paths == [ifname : Names, ipnexthop : {{}, {"address1"}}]

RowPaths ==
    Gone \cup {Table("object", <<p>>) : p \in Paths}
         \cup {Table("array", <<p>>) : p \in Paths}
         \cup {Table("array", <<p, q>>) : p \in Paths, q \in Paths}

PathTables(f)   == Gone \cup {Wrapped(f, t) : t \in RowPaths}
PrefixTables(f) == Gone \cup {Wrapped(f[3], t) : t \in PathTables(f[4])}
AddrTables(f)   == Gone \cup {Wrapped(f[2], t) : t \in PrefixTables(f)}

MCLookupBodies ==
    Gone \cup UNION {{Wrapped(f[1], t) : t \in AddrTables(f)} :
                        f \in {g \in [1..4 -> Outer] : Near(g)}}

Adjacencies ==
    [mac : {"mac1", "mac2", "INCOMPLETE"}, intf_out : {"vlan10", "ethernet1"}]

Objects1 == {Table("object", <<o>>) : o \in Adjacencies}
Objects2 == {Table("array", <<o, p>>) : o \in Adjacencies, p \in Adjacencies}

Adjs ==
    {[nested |-> n, objects |-> t] : n \in BOOLEAN, t \in Objects1 \cup Objects2}
        \cup {[nested |-> n, objects |-> t] : n \in {TRUE}, t \in Gone}
        \cup {[nested |-> FALSE, objects |-> Table("missing", <<>>)]}

AdjTables(f) == Gone \cup {Wrapped(f[3], a) : a \in Adjs}
AfiTables(f) == Gone \cup {Wrapped(f[2], t) : t \in AdjTables(f)}

MCNeighborBodies ==
    Gone \cup UNION {{Wrapped(f[1], t) : t \in AfiTables(f)} :
                        f \in {g \in [1..3 -> Outer] : Near(g)}}

Uptimes == [days : {0, 1}, hrs : {0, 23}, mins : {0, 59}, secs : {0, 59}]

MCUptimeBodies == {Table("missing", <<>>)} \cup {Table("object", <<u>>) : u \in Uptimes}

=============================================================================
