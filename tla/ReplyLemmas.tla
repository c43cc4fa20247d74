---------------------------- MODULE ReplyLemmas ----------------------------
(***************************************************************************)
(* What the readers of NXOSStructs make of a table, and what the response  *)
(* handlers of NXOSReplies make of what was read: lemmas for the proofs    *)
(* about HookLibrary.                                                      *)
(***************************************************************************)
EXTENDS NXOSReplies, SequenceLemmas

(* The rows of a table have a first one unless there is none, and are      *)
(* among the rows of a set with the table.                                 *)
LEMMA RowIn ==
    ASSUME NEW tables, NEW t \in tables, NEW i \in DOMAIN t.rows
    PROVE  t.rows[i] \in RowsOf(tables)
  BY DEF RowsOf, Range

LEMMA TableRows ==
    ASSUME NEW t, IsTable(t)
    PROVE  /\ Len(t.rows) \in Nat /\ DOMAIN t.rows = 1..Len(t.rows)
           /\ t.form = "object" => Len(t.rows) = 1
           /\ t.form \in {"missing", "other"} => Len(t.rows) = 0
  BY DEF IsTable

(* v was read from the rows of t, one by one.                              *)
ReadFrom(v, t) == v \in Seq(Range(v)) /\ Len(v) = Len(t.rows)

LEMMA ReadSeq ==
    ASSUME NEW t, IsTable(t), NEW v, v = [i \in DOMAIN t.rows |-> v[i]]
    PROVE  ReadFrom(v, t)
<1> DEFINE n == Len(t.rows)
           R == Range(v)
<1>1. n \in Nat /\ DOMAIN t.rows = 1..n
  BY TableRows
<1>2. \A i \in 1..n : v[i] \in R
  BY <1>1 DEF Range
<1> HIDE DEF n, R
<1>3. v \in [1..n -> R]
  BY <1>1, <1>2
<1>4. v \in Seq(R) /\ Len(v) = n
  BY <1>1, <1>3
<1> QED
  BY <1>4 DEF ReadFrom, n, R

----------------------------------------------------------------------------
(* show ipv6 route, from the outside to the inside.                        *)

LEMMA RouteLookupRead ==
    ASSUME NEW t, IsTable(t), NEW w, NEW v \in RouteLookupResponse(t, w)
    PROVE  ReadFrom(v, t) /\ \A i \in DOMAIN t.rows : v[i] \in RowVrf(t.rows[i], w)
<1>1. \A i \in DOMAIN t.rows : RowVrf(t.rows[i], w) # {}
  BY DEF RouteLookupResponse, ReadTable, Each
<1>2. v = [i \in DOMAIN t.rows |-> CHOOSE row \in RowVrf(t.rows[i], w) : TRUE]
  BY DEF RouteLookupResponse, ReadTable, Each
<1> QED
  BY <1>1, <1>2, ReadSeq

LEMMA RowVrfRead ==
    ASSUME NEW t, IsTable(t), NEW w, NEW v \in RowVrf(t, w)
    PROVE  ReadFrom(v, t) /\ \A i \in DOMAIN t.rows : v[i] \in RowAddr(t.rows[i], w)
<1>1. \A i \in DOMAIN t.rows : RowAddr(t.rows[i], w) # {}
  BY DEF RowVrf, ReadTable, Each
<1>2. v = [i \in DOMAIN t.rows |-> CHOOSE row \in RowAddr(t.rows[i], w) : TRUE]
  BY DEF RowVrf, ReadTable, Each
<1> QED
  BY <1>1, <1>2, ReadSeq

LEMMA RowAddrRead ==
    ASSUME NEW t, IsTable(t), NEW w, NEW v \in RowAddr(t, w)
    PROVE  /\ v.has_value <=> t.form \in {"object", "array"}
           /\ ReadFrom(v.table_prefix, t)
           /\ \A i \in DOMAIN t.rows : v.table_prefix[i] \in RowPrefix(t.rows[i])
<1>1. \A i \in DOMAIN t.rows : RowPrefix(t.rows[i]) # {}
  BY DEF RowAddr, ReadTable, Each
<1>2. v = [has_value |-> t.form \in {"object", "array"},
           table_prefix |-> [i \in DOMAIN t.rows |->
                                CHOOSE row \in RowPrefix(t.rows[i]) : TRUE]]
  BY DEF RowAddr, ReadTable, Each
<1> DEFINE p == [i \in DOMAIN t.rows |-> CHOOSE row \in RowPrefix(t.rows[i]) : TRUE]
<1>3. p = [i \in DOMAIN t.rows |-> p[i]]
  OBVIOUS
<1>4. ReadFrom(p, t)
  <2> HIDE DEF p
  <2> QED
    BY <1>3, ReadSeq
<1>5. \A i \in DOMAIN t.rows : p[i] \in RowPrefix(t.rows[i])
  BY <1>1
<1>6. v.has_value = (t.form \in {"object", "array"}) /\ v.table_prefix = p
  BY <1>2
<1> QED
  BY <1>4, <1>5, <1>6

LEMMA RowPrefixRead ==
    ASSUME NEW t, IsTable(t), NEW v \in RowPrefix(t)
    PROVE  ReadFrom(v, t) /\ \A i \in DOMAIN t.rows : v[i] \in RowPath(t.rows[i])
<1>1. \A i \in DOMAIN t.rows : RowPath(t.rows[i]) # {}
  BY DEF RowPrefix, Each
<1>2. v = [i \in DOMAIN t.rows |-> CHOOSE row \in RowPath(t.rows[i]) : TRUE]
  BY DEF RowPrefix, Each
<1> QED
  BY <1>1, <1>2, ReadSeq

(* What is wanted of a path comes from one of its rows.                    *)
LEMMA WantedFromRow ==
    ASSUME NEW kind, NEW t, IsTable(t), NEW path \in RowPath(t), Wanted(kind, path) # {}
    PROVE  \E i \in DOMAIN t.rows :
              \/ Wanted(kind, path) = Field(kind, t.rows[i])
              \/ kind = "fuzzyPD" /\ t.form # "object"
<1> DEFINE names == IF kind = "fuzzyPD" THEN path.ipnexthop ELSE path.ifname
           found == {i \in DOMAIN names :
                        /\ names[i] # {}
                        /\ kind = "fuzzyNA" => \E n \in names[i] : isValidVlanName(n)}
<1>1. Wanted(kind, path) = IF found = {} THEN {} ELSE names[Min(found)]
  BY DEF Wanted
<1>2. DOMAIN t.rows = 1..Len(t.rows) /\ Len(t.rows) \in Nat
  BY TableRows
<1>3. DOMAIN names = DOMAIN t.rows
  BY DEF RowPath
<1>4. PICK i \in found : i = Min(found)
  <2>1. found # {}
    BY <1>1
  <2>2. \A i \in found : i \in DOMAIN names
    OBVIOUS
  <2>3. found \in SUBSET Nat
    <3> HIDE DEF found, names
    <3> QED
      BY <1>2, <1>3, <2>2
  <2> HIDE DEF found
  <2> QED
    BY <2>1, <2>3, Least DEF Min
<1>5. i \in DOMAIN t.rows /\ Wanted(kind, path) = names[i] /\ names[i] # {}
  BY <1>1, <1>3, <1>4
<1>6. CASE kind # "fuzzyPD"
  <2>1. names[i] = t.rows[i].ifname
    BY <1>5, <1>6 DEF RowPath
  <2> QED
    BY <1>5, <1>6, <2>1 DEF Field
<1>7. CASE kind = "fuzzyPD" /\ t.form = "object"
  <2>1. names[i] = t.rows[i].ipnexthop
    BY <1>5, <1>7 DEF RowPath
  <2> QED
    BY <1>5, <1>7, <2>1 DEF Field
<1> QED
  BY <1>5, <1>6, <1>7

(* The tables of a route lookup's reply, down to those of its paths.       *)
RouteTables(body) ==
    \A t \in {body} \cup VrfRows(body) \cup AddrRows(body) \cup PrefixRows(body)
                  \cup RoutePaths(body) : IsTable(t)

(* What a lookup posts was wanted of the only path of a reply.             *)
LEMMA PostedFromPath ==
    ASSUME NEW kind, NEW body, NEW w,
           RouteTables(body),
           NEW vrfs \in RouteLookupResponse(body, w),
           NEW o \in HandleRoutes(kind, vrfs), o.kind = "posted"
    PROVE  \E t \in RoutePaths(body) : \E path \in RowPath(t) :
              o = Did("posted", Wanted(kind, path)) /\ Wanted(kind, path) # {}
<1> USE DEF ReadFrom, RouteTables
<1>1. Failed.kind # "posted" /\ Thrown.kind # "posted" /\ Undefined.kind # "posted"
  BY DEF Failed, Thrown, Undefined, Did
<1> DEFINE addrf == vrfs[1][1]
           paths == addrf.table_prefix[1]
           t1 == body.rows[1]
           t2 == t1.rows[1]
           t3 == t2.rows[1]
           t4 == t3.rows[1]
<1>2. /\ Len(vrfs) = 1 /\ Len(vrfs[1]) = 1 /\ addrf.has_value
      /\ addrf.table_prefix # <<>>
      /\ o \in TakePrefix(kind, Head(addrf.table_prefix))
  BY <1>1 DEF HandleRoutes, Refused, MissingPrefix
<1>3. t1 \in VrfRows(body) /\ vrfs[1] \in RowVrf(t1, w)
  BY <1>2, RouteLookupRead, TableRows, RowIn DEF VrfRows
<1>4. t2 \in AddrRows(body) /\ addrf \in RowAddr(t2, w)
  BY <1>2, <1>3, RowVrfRead, TableRows, RowIn DEF AddrRows
<1>5. t3 \in PrefixRows(body) /\ paths \in RowPrefix(t3) /\ Head(addrf.table_prefix) = paths
  BY <1>2, <1>4, RowAddrRead, TableRows, RowIn DEF PrefixRows
<1>6. Len(paths) = 1 /\ Wanted(kind, Head(paths)) # {}
      /\ o = Did("posted", Wanted(kind, Head(paths)))
  BY <1>1, <1>2, <1>5 DEF TakePrefix, Refused
<1>7. t4 \in RoutePaths(body) /\ paths[1] \in RowPath(t4) /\ Head(paths) = paths[1]
  BY <1>5, <1>6, RowPrefixRead, TableRows, RowIn DEF RoutePaths
<1> QED
  BY <1>6, <1>7

(* ActsOnReply, of a lookup's handler: what it posts is in the reply.      *)
LEMMA LookupActsOnReply ==
    ASSUME NEW kind, NEW body, NEW w,
           RouteTables(body),
           NEW vrfs \in RouteLookupResponse(body, w),
           NEW o \in HandleRoutes(kind, vrfs), o.kind = "posted",
           kind = "fuzzyPD" => OnePath(body),
           NEW x \in o.what
    PROVE  \E row \in PathRows(body) : x \in Field(kind, row)
<1>1. PICK t \in RoutePaths(body) : \E path \in RowPath(t) :
         o = Did("posted", Wanted(kind, path)) /\ Wanted(kind, path) # {}
  BY PostedFromPath
<1> PICK path \in RowPath(t) :
         o = Did("posted", Wanted(kind, path)) /\ Wanted(kind, path) # {}
  BY <1>1
<1>2. x \in Wanted(kind, path) /\ IsTable(t)
  BY DEF Did, RouteTables
<1>3. PICK i \in DOMAIN t.rows :
         \/ Wanted(kind, path) = Field(kind, t.rows[i])
         \/ kind = "fuzzyPD" /\ t.form # "object"
  BY <1>2, WantedFromRow
<1>4. t.rows[i] \in PathRows(body)
  BY RowIn DEF PathRows
<1> QED
  BY <1>2, <1>3, <1>4 DEF OnePath

----------------------------------------------------------------------------
(* A reply in which every table has one row is read, by either compiler.   *)

LEMMA ReadOne ==
    ASSUME NEW t, IsTable(t), t.form = "object", NEW v, ReadFrom(v, t)
    PROVE  /\ 1 \in DOMAIN t.rows
           /\ Len(v) = 1 /\ v # <<>> /\ Head(v) = v[1]
<1> DEFINE R == Range(v)
<1>1. v \in Seq(R) /\ Len(v) = 1 /\ 1 \in DOMAIN t.rows
  BY TableRows DEF ReadFrom
<1> HIDE DEF R
<1>2. v # <<>>
  BY <1>1
<1>3. Head(v) = v[1]
  BY <1>1, <1>2
<1> QED
  BY <1>1, <1>2, <1>3

LEMMA ObjectReads ==
    ASSUME NEW t, t.form = "object", NEW w
    PROVE  /\ (\A i \in DOMAIN t.rows : RowPath(t.rows[i]) # {}) => RowPrefix(t) # {}
           /\ (\A i \in DOMAIN t.rows : RowPrefix(t.rows[i]) # {}) => RowAddr(t, w) # {}
           /\ (\A i \in DOMAIN t.rows : RowAddr(t.rows[i], w) # {}) => RowVrf(t, w) # {}
           /\ (\A i \in DOMAIN t.rows : RowVrf(t.rows[i], w) # {}) =>
                  RouteLookupResponse(t, w) # {}
<1>1. ASSUME \A i \in DOMAIN t.rows : RowPath(t.rows[i]) # {} PROVE RowPrefix(t) # {}
  BY <1>1 DEF RowPrefix, Each
<1>2. ASSUME \A i \in DOMAIN t.rows : RowPrefix(t.rows[i]) # {} PROVE RowAddr(t, w) # {}
  BY <1>2 DEF RowAddr, ReadTable, Each
<1>3. ASSUME \A i \in DOMAIN t.rows : RowAddr(t.rows[i], w) # {} PROVE RowVrf(t, w) # {}
  BY <1>3 DEF RowVrf, ReadTable, Each
<1>4. ASSUME \A i \in DOMAIN t.rows : RowVrf(t.rows[i], w) # {}
      PROVE  RouteLookupResponse(t, w) # {}
  BY <1>4 DEF RouteLookupResponse, ReadTable, Each
<1> QED
  BY <1>1, <1>2, <1>3, <1>4

LEMMA SingleRead ==
    ASSUME NEW body, NEW w, SingleRows(body),
           RouteTables(body)
    PROVE  /\ RouteLookupResponse(body, w) # {}
           /\ \E t \in RoutePaths(body) :
                 /\ t.form = "object" /\ IsTable(t) /\ PathRows(body) = {t.rows[1]}
                 /\ \A vrfs \in RouteLookupResponse(body, w) : \E paths :
                       /\ Len(paths) = 1 /\ Head(paths) \in RowPath(t)
                       /\ \A kind : HandleRoutes(kind, vrfs) = TakePrefix(kind, paths)
<1> DEFINE t1 == body.rows[1]
           t2 == t1.rows[1]
           t3 == t2.rows[1]
           t4 == t3.rows[1]
<1>1. ASSUME NEW t, t.form = "object", IsTable(t)
      PROVE  DOMAIN t.rows = {1} /\ RowsOf({t}) = {t.rows[1]}
  <2>1. DOMAIN t.rows = {1}
    BY <1>1, TableRows
  <2> QED
    BY <2>1 DEF RowsOf, Range
<1>2. t1 = body.rows[1] /\ t2 = t1.rows[1] /\ t3 = t2.rows[1] /\ t4 = t3.rows[1]
  OBVIOUS
<1>3. VrfRows(body) = {t1} /\ AddrRows(body) = {t2} /\ PrefixRows(body) = {t3}
      /\ RoutePaths(body) = {t4} /\ PathRows(body) = {t4.rows[1]}
      /\ \A t \in {body, t1, t2, t3, t4} : t.form = "object" /\ IsTable(t)
  <2>1. VrfRows(body) = {t1} /\ body.form = "object" /\ IsTable(body)
    BY <1>1 DEF SingleRows, RouteTables, VrfRows
  <2>2. AddrRows(body) = {t2} /\ t1.form = "object" /\ IsTable(t1)
    BY <1>1, <2>1 DEF SingleRows, RouteTables, AddrRows
  <2>3. PrefixRows(body) = {t3} /\ t2.form = "object" /\ IsTable(t2)
    BY <1>1, <2>2 DEF SingleRows, RouteTables, PrefixRows
  <2>4. RoutePaths(body) = {t4} /\ t3.form = "object" /\ IsTable(t3)
    BY <1>1, <2>3 DEF SingleRows, RouteTables, RoutePaths
  <2>5. PathRows(body) = {t4.rows[1]} /\ t4.form = "object" /\ IsTable(t4)
    BY <1>1, <2>4 DEF SingleRows, RouteTables, PathRows
  <2> QED
    BY <2>1, <2>2, <2>3, <2>4, <2>5
<1> HIDE DEF t1, t2, t3, t4
<1>4. RowPath(t4) # {}
  BY <1>3 DEF RowPath
<1>10. \A t \in {body, t1, t2, t3} : DOMAIN t.rows = {1}
  BY <1>1, <1>3
<1>5. RowPrefix(t3) # {}
  BY <1>2, <1>3, <1>4, <1>10, ObjectReads
<1>6. RowAddr(t2, w) # {}
  BY <1>2, <1>3, <1>5, <1>10, ObjectReads
<1>7. RowVrf(t1, w) # {}
  BY <1>2, <1>3, <1>6, <1>10, ObjectReads
<1>8. RouteLookupResponse(body, w) # {}
  BY <1>2, <1>3, <1>7, <1>10, ObjectReads
<1>9. ASSUME NEW vrfs \in RouteLookupResponse(body, w)
      PROVE  \E paths :
                /\ Len(paths) = 1 /\ Head(paths) \in RowPath(t4)
                /\ \A kind : HandleRoutes(kind, vrfs) = TakePrefix(kind, paths)
  <2> DEFINE addrf == vrfs[1][1]
             paths == addrf.table_prefix[1]
  <2> HIDE DEF addrf, paths
  <2>0. addrf = vrfs[1][1] /\ paths = addrf.table_prefix[1]
    BY DEF addrf, paths
  <2>1. Len(vrfs) = 1 /\ Head(vrfs) = vrfs[1] /\ vrfs[1] \in RowVrf(t1, w)
    BY <1>1, <1>2, <1>3, RouteLookupRead, ReadOne
  <2>2. Len(vrfs[1]) = 1 /\ Head(vrfs[1]) = addrf /\ addrf \in RowAddr(t2, w)
    BY <2>0, <1>2, <1>3, <2>1, RowVrfRead, ReadOne
  <2>3. /\ addrf.has_value /\ addrf.table_prefix # <<>>
        /\ Head(addrf.table_prefix) = paths /\ paths \in RowPrefix(t3)
    <3>1. addrf.has_value /\ ReadFrom(addrf.table_prefix, t2)
          /\ \A i \in DOMAIN t2.rows : addrf.table_prefix[i] \in RowPrefix(t2.rows[i])
      BY <1>3, <2>2, RowAddrRead
    <3> QED
      BY <2>0, <1>2, <1>3, <3>1, ReadOne
  <2>4. Len(paths) = 1 /\ Head(paths) \in RowPath(t4)
    <3>1. ReadFrom(paths, t3) /\ \A i \in DOMAIN t3.rows : paths[i] \in RowPath(t3.rows[i])
      BY <1>3, <2>3, RowPrefixRead
    <3>2. 1 \in DOMAIN t3.rows /\ Len(paths) = 1 /\ Head(paths) = paths[1]
      <4>1. IsTable(t3) /\ t3.form = "object"
        BY <1>3
      <4> QED
        BY <3>1, <4>1, ReadOne
    <3> QED
      BY <1>2, <3>1, <3>2
  <2>5. \A kind : HandleRoutes(kind, vrfs) = TakePrefix(kind, paths)
    BY <2>1, <2>2, <2>3 DEF HandleRoutes
  <2> QED
    BY <2>4, <2>5
<1> QED
  BY <1>3, <1>8, <1>9

(* What is taken from a single row that has what is wanted.                *)
LEMMA SingleWanted ==
    ASSUME NEW kind, NEW t, IsTable(t), t.form = "object",
           NEW paths, Len(paths) = 1, Head(paths) \in RowPath(t),
           Sought(kind, t.rows[1]) # {}
    PROVE  TakePrefix(kind, paths) = {Did("posted", Field(kind, t.rows[1]))}
<1> DEFINE path == Head(paths)
           names == IF kind = "fuzzyPD" THEN path.ipnexthop ELSE path.ifname
           found == {i \in DOMAIN names :
                        /\ names[i] # {}
                        /\ kind = "fuzzyNA" => \E m \in names[i] : isValidVlanName(m)}
           name  == Field(kind, t.rows[1])
<1>1. DOMAIN t.rows = {1}
  BY TableRows
<1>2. DOMAIN names = {1} /\ names[1] = name
  BY <1>1 DEF RowPath, Field
<1>3. name # {} /\ (kind = "fuzzyNA" => \E m \in name : isValidVlanName(m))
  BY DEF isValidVlanName, Sought
<1>4. Wanted(kind, path) = IF found = {} THEN {} ELSE names[Min(found)]
  BY DEF Wanted
<1>5. found = {1}
  <2> HIDE DEF names, name
  <2> QED
    BY <1>2, <1>3
<1> HIDE DEF found, names, name
<1>6. Min(found) = 1
  BY <1>5 DEF Min
<1>7. Wanted(kind, path) = name
  BY <1>2, <1>4, <1>5, <1>6
<1> QED
  BY <1>3, <1>7 DEF TakePrefix, name

----------------------------------------------------------------------------
(* show ipv6 neighbor, from the inside to the outside.                     *)

LEMMA RowAdjRead ==
    ASSUME NEW adj, adj.nested \in BOOLEAN, IsTable(adj.objects), NEW w,
           NEW v \in RowAdj(adj, w)
    PROVE  v = IF adj.nested THEN adj.objects.rows ELSE <<>>
<1>1. CASE adj.nested
  <2>1. v = [i \in DOMAIN adj.objects.rows |->
                CHOOSE row \in {adj.objects.rows[i]} : TRUE]
    BY <1>1 DEF RowAdj, ReadTable, Each, AdjObject
  <2>2. adj.objects.rows = [i \in DOMAIN adj.objects.rows |-> adj.objects.rows[i]]
    BY DEF IsTable
  <2>3. \A i \in DOMAIN adj.objects.rows :
           (CHOOSE row \in {adj.objects.rows[i]} : TRUE) = adj.objects.rows[i]
    OBVIOUS
  <2> QED
    BY <1>1, <2>1, <2>2, <2>3
<1>2. CASE ~adj.nested
  BY <1>2 DEF RowAdj
<1> QED
  BY <1>1, <1>2

LEMMA RowAfiRead ==
    ASSUME NEW t, IsTable(t), NEW w, NEW v \in RowAfi(t, w)
    PROVE  ReadFrom(v, t) /\ \A i \in DOMAIN t.rows : v[i] \in RowAdj(t.rows[i], w)
<1>1. \A i \in DOMAIN t.rows : RowAdj(t.rows[i], w) # {}
  BY DEF RowAfi, ReadTable, Each
<1>2. v = [i \in DOMAIN t.rows |-> CHOOSE row \in RowAdj(t.rows[i], w) : TRUE]
  BY DEF RowAfi, ReadTable, Each
<1> QED
  BY <1>1, <1>2, ReadSeq

LEMMA RowVrfNeighborRead ==
    ASSUME NEW t, IsTable(t), NEW w, NEW v \in RowVrfNeighborLookup(t, w)
    PROVE  ReadFrom(v, t) /\ \A i \in DOMAIN t.rows : v[i] \in RowAfi(t.rows[i], w)
<1>1. \A i \in DOMAIN t.rows : RowAfi(t.rows[i], w) # {}
  BY DEF RowVrfNeighborLookup, ReadTable, Each
<1>2. v = [i \in DOMAIN t.rows |-> CHOOSE row \in RowAfi(t.rows[i], w) : TRUE]
  BY DEF RowVrfNeighborLookup, ReadTable, Each
<1> QED
  BY <1>1, <1>2, ReadSeq

LEMMA NeighborLookupRead ==
    ASSUME NEW t, IsTable(t), NEW w, NEW v \in NeighborLookupResponse(t, w)
    PROVE  /\ ReadFrom(v, t)
           /\ \A i \in DOMAIN t.rows : v[i] \in RowVrfNeighborLookup(t.rows[i], w)
<1>1. \A i \in DOMAIN t.rows : RowVrfNeighborLookup(t.rows[i], w) # {}
  BY DEF NeighborLookupResponse, Each
<1>2. v = [i \in DOMAIN t.rows |->
              CHOOSE row \in RowVrfNeighborLookup(t.rows[i], w) : TRUE]
  BY DEF NeighborLookupResponse, Each
<1> QED
  BY <1>1, <1>2, ReadSeq

LEMMA UnionOfRanges ==
    ASSUME NEW ss, NEW x
    PROVE  x \in UNION {Range(ss[i]) : i \in DOMAIN ss} <=> \E s \in Range(ss) : x \in Range(s)
<1>1. \A s : s \in Range(ss) <=> \E i \in DOMAIN ss : s = ss[i]
  BY DEF Range
<1> QED
  BY <1>1

(* Everything in three levels of sequences is in the sequence of objects.  *)
LEMMA ObjectsRange ==
    ASSUME NEW S, NEW vrfs \in Seq(Seq(Seq(Seq(S))))
    PROVE  /\ Objects(vrfs) \in Seq(S)
           /\ \A o : o \in Range(Objects(vrfs)) <=>
                 \E i \in DOMAIN vrfs : \E j \in DOMAIN vrfs[i] :
                 \E k \in DOMAIN vrfs[i][j] : o \in Range(vrfs[i][j][k])
<1> DEFINE afis == FlattenSeq(vrfs)
           adjs == FlattenSeq(afis)
<1>1. /\ afis \in Seq(Seq(Seq(S)))
      /\ Range(afis) = UNION {Range(vrfs[i]) : i \in DOMAIN vrfs}
  BY FlattenRange
<1> HIDE DEF afis
<1>2. /\ adjs \in Seq(Seq(S))
      /\ Range(adjs) = UNION {Range(afis[i]) : i \in DOMAIN afis}
  BY <1>1, FlattenRange
<1> HIDE DEF adjs
<1>3. /\ Objects(vrfs) = FlattenSeq(adjs)
      /\ FlattenSeq(adjs) \in Seq(S)
      /\ Range(FlattenSeq(adjs)) = UNION {Range(adjs[i]) : i \in DOMAIN adjs}
  BY <1>2, FlattenRange DEF Objects, afis, adjs
<1>4. \A o : o \in Range(Objects(vrfs)) <=> \E adj \in Range(adjs) : o \in Range(adj)
  BY <1>3, UnionOfRanges
<1>5. \A adj : adj \in Range(adjs) <=> \E afi \in Range(afis) : adj \in Range(afi)
  BY <1>2, UnionOfRanges
<1>6. \A afi : afi \in Range(afis) <=> \E i \in DOMAIN vrfs : afi \in Range(vrfs[i])
  BY <1>1
<1>7. \A s, x : x \in Range(s) <=> \E i \in DOMAIN s : x = s[i]
  BY DEF Range
<1>8. \A adj : adj \in Range(adjs) <=>
         \E i \in DOMAIN vrfs : \E j \in DOMAIN vrfs[i] : adj \in Range(vrfs[i][j])
  BY <1>5, <1>6, <1>7
<1>9. \A o : o \in Range(Objects(vrfs)) <=>
         \E i \in DOMAIN vrfs : \E j \in DOMAIN vrfs[i] :
         \E k \in DOMAIN vrfs[i][j] : o \in Range(vrfs[i][j][k])
  BY <1>4, <1>7, <1>8
<1> QED
  BY <1>3, <1>9

(* The tables of a reply to "show ipv6 neighbor".                          *)
NeighborTables(body) ==
    /\ \A t \in {body} \cup RowsOf({body}) \cup RowsOf(RowsOf({body})) : IsTable(t)
    /\ \A adj \in AdjRows(body) : adj.nested \in BOOLEAN /\ IsTable(adj.objects)

(* All objects of such a reply.                                            *)
AllObjects(body) == UNION {Range(adj.objects.rows) : adj \in AdjRows(body)}

LEMMA SeqOfAll ==
    ASSUME NEW X, NEW t, IsTable(t), NEW v, ReadFrom(v, t),
           \A i \in DOMAIN t.rows : v[i] \in X
    PROVE  v \in Seq(X) /\ DOMAIN v = DOMAIN t.rows
<1> DEFINE n == Len(t.rows)
           R == Range(v)
<1>1. v \in Seq(R) /\ Len(v) = n /\ n \in Nat /\ DOMAIN t.rows = 1..n
  BY TableRows DEF ReadFrom
<1> HIDE DEF n, R
<1>2. DOMAIN v = 1..n /\ v = [i \in 1..n |-> v[i]]
  BY <1>1
<1> QED
  BY <1>1, <1>2

(* The handler's sequence of neighbours holds objects of the reply, and    *)
(* all of them if every ROW_adj is nested.                                 *)
LEMMA NeighborObjects ==
    ASSUME NEW body, NeighborTables(body), NEW w, NEW vrfs \in NeighborLookupResponse(body, w)
    PROVE  /\ Objects(vrfs) \in Seq(AllObjects(body))
           /\ (\A adj \in AdjRows(body) : adj.nested) =>
                 Range(Objects(vrfs)) = AllObjects(body)
<1> DEFINE O == AllObjects(body)
           T(i) == body.rows[i]
           T2(i, j) == T(i).rows[j]
           Adj(i, j, k) == T2(i, j).rows[k]
<1>1. IsTable(body) /\ ReadFrom(vrfs, body)
      /\ \A i \in DOMAIN body.rows :
            /\ T(i) \in RowsOf({body}) /\ IsTable(T(i))
            /\ vrfs[i] \in RowVrfNeighborLookup(T(i), w)
  BY NeighborLookupRead, RowIn DEF NeighborTables
<1>2. \A i \in DOMAIN body.rows :
         /\ ReadFrom(vrfs[i], T(i))
         /\ \A j \in DOMAIN T(i).rows :
               /\ T2(i, j) \in RowsOf(RowsOf({body})) /\ IsTable(T2(i, j))
               /\ vrfs[i][j] \in RowAfi(T2(i, j), w)
  <2> HIDE DEF T
  <2> QED
    BY <1>1, RowVrfNeighborRead, RowIn DEF NeighborTables
<1>3. \A i \in DOMAIN body.rows : \A j \in DOMAIN T(i).rows :
         /\ ReadFrom(vrfs[i][j], T2(i, j))
         /\ \A k \in DOMAIN T2(i, j).rows :
               /\ Adj(i, j, k) \in AdjRows(body)
               /\ vrfs[i][j][k] \in RowAdj(Adj(i, j, k), w)
  <2> HIDE DEF T, T2
  <2> QED
    BY <1>2, RowAfiRead, RowIn DEF AdjRows
<1> HIDE DEF T, T2, Adj
<1>4. ASSUME NEW i \in DOMAIN body.rows, NEW j \in DOMAIN T(i).rows,
             NEW k \in DOMAIN T2(i, j).rows
      PROVE  /\ vrfs[i][j][k] \in Seq(O)
             /\ Adj(i, j, k).nested => vrfs[i][j][k] = Adj(i, j, k).objects.rows
  <2> DEFINE adj == Adj(i, j, k)
             v == vrfs[i][j][k]
  <2>1. adj \in AdjRows(body) /\ v \in RowAdj(adj, w)
    BY <1>3
  <2> HIDE DEF adj, v
  <2>2. adj.nested \in BOOLEAN /\ IsTable(adj.objects)
    BY <2>1 DEF NeighborTables
  <2>3. v = IF adj.nested THEN adj.objects.rows ELSE <<>>
    BY <2>1, <2>2, RowAdjRead
  <2>4. Range(adj.objects.rows) \subseteq O
    BY <2>1 DEF AllObjects
  <2>5. adj.objects.rows \in Seq(Range(adj.objects.rows))
    BY <2>2 DEF IsTable
  <2>6. adj.objects.rows \in Seq(O)
    <3> DEFINE rows == adj.objects.rows
               R == Range(rows)
    <3> HIDE DEF rows, R, O
    <3>1. rows \in Seq(R) /\ R \subseteq O
      BY <2>4, <2>5 DEF rows, R
    <3> QED
      BY <3>1 DEF rows
  <2>7. v \in Seq(O)
    BY <2>3, <2>6
  <2> QED
    BY <2>3, <2>7 DEF adj, v
<1> HIDE DEF O
<1>5. \A i \in DOMAIN body.rows : \A j \in DOMAIN T(i).rows :
         vrfs[i][j] \in Seq(Seq(O)) /\ DOMAIN vrfs[i][j] = DOMAIN T2(i, j).rows
  BY <1>2, <1>3, <1>4, SeqOfAll
<1>6. \A i \in DOMAIN body.rows :
         vrfs[i] \in Seq(Seq(Seq(O))) /\ DOMAIN vrfs[i] = DOMAIN T(i).rows
  BY <1>1, <1>2, <1>5, SeqOfAll
<1>7. vrfs \in Seq(Seq(Seq(Seq(O)))) /\ DOMAIN vrfs = DOMAIN body.rows
  BY <1>1, <1>6, SeqOfAll
<1>8. Objects(vrfs) \in Seq(O)
  BY <1>7, ObjectsRange
<1>9. ASSUME \A adj \in AdjRows(body) : adj.nested
      PROVE  Range(Objects(vrfs)) = O
  <2>1. ASSUME NEW o \in O PROVE o \in Range(Objects(vrfs))
    <3>1. PICK adj \in AdjRows(body) : o \in Range(adj.objects.rows)
      BY <2>1 DEF O, AllObjects
    <3>2. PICK i \in DOMAIN body.rows : \E j \in DOMAIN T(i).rows :
             \E k \in DOMAIN T2(i, j).rows : adj = Adj(i, j, k)
      BY <3>1 DEF AdjRows, RowsOf, Range, T, T2, Adj
    <3>3. PICK j \in DOMAIN T(i).rows : \E k \in DOMAIN T2(i, j).rows : adj = Adj(i, j, k)
      BY <3>2
    <3>4. PICK k \in DOMAIN T2(i, j).rows : adj = Adj(i, j, k)
      BY <3>3
    <3>5. vrfs[i][j][k] = adj.objects.rows
      BY <1>4, <1>9, <3>1, <3>4
    <3> QED
      BY <1>5, <1>6, <1>7, <3>1, <3>5, ObjectsRange
  <2>2. Range(Objects(vrfs)) \subseteq O
    BY <1>8 DEF Range
  <2> QED
    BY <2>1, <2>2
<1> QED
  BY <1>8, <1>9 DEF O

(* What the map holds: objects that were taken, and one for each of their  *)
(* hardware addresses.                                                     *)
LEMMA MappingOf ==
    ASSUME NEW S, NEW objects \in Seq(S), NEW taken \in SUBSET DOMAIN objects,
           Mapping(objects, taken).kind = "mapping"
    PROVE  LET what == Mapping(objects, taken).what
           IN  /\ what \subseteq {<<objects[i].mac, objects[i].intf_out>> : i \in taken}
               /\ {pair[1] : pair \in what} = {objects[i].mac : i \in taken}
<1> DEFINE last == {i \in taken :
                       \A k \in taken : k > i => objects[k].mac # objects[i].mac}
           what == {<<objects[i].mac, objects[i].intf_out>> : i \in last}
<1>1. Mapping(objects, taken).what = what
  BY DEF Mapping, Thrown, Did
<1>2. ASSUME NEW i \in taken
      PROVE  \E k \in last : objects[k].mac = objects[i].mac
  <2> DEFINE T == {k \in taken : objects[k].mac = objects[i].mac}
             n == Len(objects)
  <2>1. n \in Nat /\ DOMAIN objects = 1..n
    OBVIOUS
  <2>2. T \in SUBSET (1..n) /\ T # {}
    BY <1>2, <2>1
  <2> HIDE DEF n
  <2>3. PICK k \in T : \A m \in T : m <= k
    <3> HIDE DEF T
    <3> QED
      BY <2>1, <2>2, Greatest
  <2>4. ASSUME NEW m \in taken, m > k PROVE objects[m].mac # objects[k].mac
    <3> SUFFICES ASSUME m \in T PROVE FALSE
      BY <2>3
    <3>1. m <= k /\ m \in Nat /\ k \in Nat
      BY <2>1, <2>2, <2>3
    <3> QED
      BY <2>4, <3>1
  <2> QED
    BY <2>3, <2>4
<1>3. {pair[1] : pair \in what} = {objects[i].mac : i \in last}
  <2> DEFINE pairOf(i) == <<objects[i].mac, objects[i].intf_out>>
  <2>1. \A i : pairOf(i)[1] = objects[i].mac
    OBVIOUS
  <2>2. what = {pairOf(i) : i \in last}
    OBVIOUS
  <2> HIDE DEF last, what, pairOf
  <2> QED
    BY <2>1, <2>2
<1> HIDE DEF what
<1>4. {objects[i].mac : i \in last} = {objects[i].mac : i \in taken}
  BY <1>2
<1> QED
  BY <1>1, <1>3, <1>4 DEF what

=============================================================================
