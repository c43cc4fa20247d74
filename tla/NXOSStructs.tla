---------------------------- MODULE NXOSStructs ----------------------------
(***************************************************************************)
(* The replies of the switch as nxos_structs.hpp reads them: the from_json *)
(* functions.  A reply is a nest of tables.  NX-OS writes a table with one *)
(* row as an object and one with several rows as an array; a table without *)
(* rows is missing or something else, say an empty string.                 *)
(*                                                                         *)
(* A reader returns the set of what it may return: {} when it throws.  The *)
(* same notation serves std::optional.                                     *)
(*                                                                         *)
(* Most readers copy a table with `auto table{inner.at(...)}'.  What that  *)
(* means depends on the compiler: for GCC the braces are an initializer    *)
(* list and make an array of one item, the table; for Clang they copy.     *)
(* The parameter wraps is TRUE for the former.                             *)
(***************************************************************************)
EXTENDS Integers, SequencesExt

(* What a moved-from std::string holds; names and addresses are strings.   *)
MovedFrom == ""

Table(form, rows) == [form |-> form, rows |-> rows]

IsTable(t) ==
    /\ t.form \in {"object", "array", "missing", "other"}
    /\ t.rows \in Seq(Range(t.rows))
    /\ t.form = "object" => Len(t.rows) = 1
    /\ t.form \in {"missing", "other"} => t.rows = <<>>

(* get_to of a std::vector: all rows are read, or none.                    *)
Each(rows, Read(_)) ==
    IF \E i \in DOMAIN rows : Read(rows[i]) = {}
    THEN {}
    ELSE {[i \in DOMAIN rows |-> CHOOSE row \in Read(rows[i]) : TRUE]}

(* The copied table.  When it is wrapped, an object becomes the only item  *)
(* of an array and is read as one row; anything else becomes a row itself, *)
(* of the wrong type.                                                      *)
ReadTable(table, wraps, Read(_)) ==
    IF wraps /\ table.form \in {"array", "other"}
    THEN {}
    ELSE Each(table.rows, Read)

----------------------------------------------------------------------------
(* show ipv6 route.                                                        *)

(* Mutation of RowPath: the two members are mixed up.                      *)
RowPathSwapped(path) ==
    IF path.form = "missing"
    THEN {}
    ELSE {[ifname    |-> [i \in DOMAIN path.rows |-> path.rows[i].ipnexthop],
           ipnexthop |-> [i \in DOMAIN path.rows |-> path.rows[i].ifname]]}

(* ROW_path: two vectors of optional names.  In an array, a row without    *)
(* ipnexthop gets what moving the ifname has left in tmp: an optional that *)
(* still has a value.                                                      *)
RowPath(path) ==
    LET Hop(row) == IF path.form = "object" \/ row.ipnexthop # {}
                    THEN row.ipnexthop
                    ELSE {MovedFrom : name \in row.ifname}
    IN  IF path.form = "missing"
        THEN {}
        ELSE {[ifname    |-> [i \in DOMAIN path.rows |-> path.rows[i].ifname],
               ipnexthop |-> [i \in DOMAIN path.rows |-> Hop(path.rows[i])]]}

(* TABLE_path is not copied.                                               *)
RowPrefix(paths) ==
    IF paths.form \in {"missing", "other"} THEN {} ELSE Each(paths.rows, RowPath)

(* Mutation of RowAddr: a single row is read, but not kept.                *)
RowAddrArraysOnly(prefixes, wraps) ==
    {[has_value |-> prefixes.form = "array", table_prefix |-> rows] :
        rows \in ReadTable(prefixes, wraps, RowPrefix)}

(* TABLE_prefix is optional.                                               *)
RowAddr(prefixes, wraps) ==
    {[has_value |-> prefixes.form \in {"object", "array"}, table_prefix |-> rows] :
        rows \in ReadTable(prefixes, wraps, RowPrefix)}

RowVrf(addrs, wraps) ==
    LET Read(row) == RowAddr(row, wraps) IN ReadTable(addrs, wraps, Read)

RouteLookupResponse(vrfs, wraps) ==
    LET Read(row) == RowVrf(row, wraps) IN ReadTable(vrfs, wraps, Read)

----------------------------------------------------------------------------
(* show ipv6 neighbor.                                                     *)

AdjObject(object) == {object}

(* The reader of TABLE_adj takes its member ROW_adj and looks for a member *)
(* ROW_adj of that again (nested); where there is none it reads no object. *)
RowAdj(adj, wraps) ==
    IF adj.nested
    THEN ReadTable(adj.objects, wraps, AdjObject)
    ELSE IF adj.objects.form = "missing" THEN {} ELSE {<<>>}

RowAfi(adjs, wraps) ==
    LET Read(row) == RowAdj(row, wraps) IN ReadTable(adjs, wraps, Read)

RowVrfNeighborLookup(afis, wraps) ==
    LET Read(row) == RowAfi(row, wraps) IN ReadTable(afis, wraps, Read)

(* TABLE_vrf is required and not copied.                                   *)
NeighborLookupResponse(vrfs, wraps) ==
    LET Read(row) == RowVrfNeighborLookup(row, wraps)
    IN  IF vrfs.form = "missing" THEN {} ELSE Each(vrfs.rows, Read)

----------------------------------------------------------------------------
(* show version: four numbers, all of them required.                       *)

UptimeResponse(version) == {fields \in Range(version.rows) : version.form = "object"}

(* Mutation: a digit of the seconds of a day is lost.                      *)
getUptimeShortDays(u) == u.secs + u.mins * 60 + u.hrs * 3600 + u.days * 8640

getUptimeSecondsFromResponse(u) ==
    u.secs + u.mins * 60 + u.hrs * 3600 + u.days * 86400

=============================================================================
