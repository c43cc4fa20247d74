------------------------ MODULE HookLibraryProofs ------------------------
(***************************************************************************)
(* Proofs about HookLibrary, for words and intervals of any size and for   *)
(* any configurations and replies.                                         *)
(***************************************************************************)
EXTENDS HookLibrary, ReplyLemmas

(* The remainder is the only number below the divisor that differs by a    *)
(* multiple of it.                                                         *)
LEMMA Remainder ==
    ASSUME NEW w \in Nat \ {0}, NEW q \in Int, NEW r \in 0..(w - 1)
    PROVE  (w * q + r) % w = r
<1> DEFINE n == w * q + r
           p == n \div w
           d == q - p
<1>1. n \in Int /\ p \in Int /\ d \in Int /\ n % w \in 0..(w - 1)
  OBVIOUS
<1>2. n = (w * p) + (n % w)
  OBVIOUS
<1>3. w * d = (n % w) - r
  BY <1>1, <1>2
<1> HIDE DEF n, p, d
<1>4. -w < w * d /\ w * d < w
  BY <1>1, <1>3
<1>5. ~(d >= 1)
  <2> SUFFICES ASSUME d >= 1 PROVE w * d >= w
    BY <1>1, <1>4
  <2> QED
    BY <1>1
<1>6. ~(d <= -1)
  <2> SUFFICES ASSUME d <= -1 PROVE w * d <= -w
    BY <1>1, <1>4
  <2> QED
    BY <1>1
<1>7. d = 0
  BY <1>1, <1>5, <1>6
<1> QED
  BY <1>1, <1>3, <1>7 DEF n

(* An interval that fits is multiplied exactly, though the multiplication  *)
(* is one of unsigned words and the result is read as a signed one.        *)
LEMMA PeriodExact ==
    ASSUME NEW c \in Configs, Representable(c.seconds)
    PROVE  TimerPeriod(c) = c.seconds * Millis
<1> DEFINE n == c.seconds
           x == n * Millis
<1>1. n \in Int /\ x \in Int /\ Word \in Nat \ {0} /\ Millis \in Nat \ {0}
  BY ConfigAssumption
<1>2. -(Word \div 2) <= x /\ x < Word \div 2
  BY DEF Representable
<1>3. 2 * (Word \div 2) <= Word /\ Word \div 2 \in Nat
  BY <1>1
<1>4. CASE n >= 0
  <2>1. n <= x /\ 0 <= x
    BY <1>1, <1>4
  <2>2. n \in 0..(Word - 1) /\ x \in 0..(Word - 1)
    BY <1>1, <1>2, <1>3, <1>4, <2>1
  <2>3. n % Word = n /\ x % Word = x
    BY <1>1, <2>2
  <2> QED
    BY <1>1, <1>2, <2>3 DEF TimerPeriod, AsSigned, AsUnsigned
<1>5. CASE n < 0
  <2>1. x <= n /\ x < 0
    BY <1>1, <1>5
  <2>2. n + Word \in 0..(Word - 1) /\ x + Word \in 0..(Word - 1)
    BY <1>1, <1>2, <1>3, <1>5, <2>1
  <2>3. n = Word * (-1) + (n + Word)
    BY <1>1
  <2>4. n % Word = n + Word
    <3> HIDE DEF n
    <3>1. (Word * (-1) + (n + Word)) % Word = n + Word
      BY <1>1, <2>2, Remainder
    <3> QED
      BY <2>3, <3>1
  <2>5. (n + Word) * Millis = Word * (Millis - 1) + (x + Word)
    BY <1>1
  <2>6. ((n + Word) * Millis) % Word = x + Word
    <3> DEFINE k == Millis - 1
               r == x + Word
    <3>1. k \in Int /\ r \in 0..(Word - 1) /\ (n + Word) * Millis = Word * k + r
      BY <1>1, <2>2, <2>5
    <3> HIDE DEF k, r
    <3>2. (Word * k + r) % Word = r
      BY <1>1, <3>1, Remainder
    <3> QED
      BY <3>1, <3>2 DEF r
  <2>7. ~(x + Word < Word \div 2)
    BY <1>1, <1>2, <1>3
  <2> QED
    BY <1>1, <2>4, <2>6, <2>7 DEF TimerPeriod, AsSigned, AsUnsigned
<1> QED
  BY <1>1, <1>4, <1>5

----------------------------------------------------------------------------
(* The configuration.                                                      *)

(* A configuration that was loaded has passed parseConfig, and a running   *)
(* service has got a timer.                                                *)
ConfigInv ==
    /\ config \in Configs
    /\ phase \in {"unloaded", "loaded", "running", "crashed"}
    /\ period \in Int
    /\ phase \in {"loaded", "running"} => ~parseConfigRefuses(config)
    /\ phase = "running" => ~StartThrows(config) /\ period = TimerPeriod(config)
    /\ CrashHasReason

(* Timer periods are integers.                                             *)
LEMMA PeriodType == \A c \in Configs : TimerPeriod(c) \in Int
<1> TAKE c \in Configs
<1>1. c.seconds \in Int /\ Millis \in Nat \ {0} /\ Word \in Nat \ {0}
  BY ConfigAssumption
<1>2. AsUnsigned(c.seconds) * Millis \in Int
  BY <1>1 DEF AsUnsigned
<1>3. (AsUnsigned(c.seconds) * Millis) % Word \in Int
  BY <1>1, <1>2
<1> QED
  BY <1>1, <1>3 DEF TimerPeriod, AsSigned

(* Only the reasons that CrashHasReason names keep an accepted             *)
(* configuration from starting.                                            *)
LEMMA StartsIfSound ==
    ASSUME NEW c \in Configs, ~parseConfigRefuses(c), StartThrows(c)
    PROVE  c.host = "https" \/ c.seconds < 0 \/ ~Representable(c.seconds)
<1> SUFFICES ASSUME c.host # "https", ~(c.seconds < 0), Representable(c.seconds)
             PROVE FALSE
  OBVIOUS
<1>1. c.seconds \in Int /\ Millis \in Nat \ {0} /\ Word \in Nat \ {0}
  BY ConfigAssumption
<1>2. c.seconds # 0
  BY <1>1 DEF parseConfigRefuses, HeartbeatRefused, AsUnsigned
<1>3. c.seconds * Millis > 0
  BY <1>1, <1>2
<1> QED
  BY <1>1, <1>3, PeriodExact, PeriodType DEF StartThrows

(* Every step of the configuration keeps the invariant.                    *)
LEMMA ConfigStepInv ==
    ASSUME ConfigInv, ConfigNext
    PROVE  ConfigInv'
<1> USE PeriodType DEF ConfigInv, CrashHasReason
<1>1. ASSUME NEW c \in Configs, LoadRefused(c) PROVE ConfigInv'
  BY <1>1 DEF LoadRefused
<1>2. ASSUME NEW c \in Configs, LoadCrashes(c) PROVE ConfigInv'
  BY <1>2 DEF LoadCrashes, ReadsNull
<1>3. ASSUME NEW c \in Configs, load(c) PROVE ConfigInv'
  BY <1>3 DEF load
<1>4. CASE StartAborts
  BY <1>4, StartsIfSound DEF StartAborts
<1>5. CASE startService
  BY <1>5 DEF startService
<1>6. CASE unload
  BY <1>6 DEF unload
<1> QED
  BY <1>1, <1>2, <1>3, <1>4, <1>5, <1>6 DEF ConfigNext

(* What the invariant says of a running service.                           *)
LEMMA ConfigInvImplies == ConfigInv => RunsAsConfigured
<1> SUFFICES ASSUME ConfigInv, phase = "running" PROVE RunsAsConfigured
  BY DEF RunsAsConfigured
<1>1. config \in Configs /\ ~parseConfigRefuses(config) /\ ~StartThrows(config)
  BY DEF ConfigInv
<1>2. config.host = "http" /\ config.login = "string" /\ config.password = "string"
  BY <1>1 DEF parseConfigRefuses, HostRefused, CredentialsRefused, StartThrows
<1>3. ASSUME Representable(config.seconds)
      PROVE  config.seconds > 0 /\ period = config.seconds * Millis
  <2>1. period = config.seconds * Millis /\ ~(period <= 0) /\ period \in Int
    BY <1>1, <1>3, PeriodExact DEF ConfigInv, StartThrows
  <2>2. config.seconds \in Int /\ Millis \in Nat \ {0}
    BY <1>1, ConfigAssumption
  <2>3. config.seconds > 0
    <3> SUFFICES ASSUME config.seconds <= 0 PROVE FALSE
      BY <2>2
    <3>1. config.seconds * Millis <= 0
      BY <2>2
    <3> QED
      BY <2>1, <3>1
  <2> QED
    BY <2>1, <2>3
<1> QED
  BY <1>2, <1>3 DEF RunsAsConfigured

----------------------------------------------------------------------------
(* The replies.                                                            *)

(* What the response handler of a request may come to.                     *)
Handled(kind) ==
    CASE kind \in RouteRequests  -> handleRouteReply
      [] kind \in LookupRequests -> asyncLookupAddressInternal(kind)
      [] kind = "neighbors"      -> asyncGetHWAddrToInterfaceNameMapping
      [] kind = "uptime"         -> checkForFailedConnectionOrRPCResponse

LEMMA HandledCases ==
    /\ \A kind \in RouteRequests : Handled(kind) = handleRouteReply
    /\ \A kind \in LookupRequests : Handled(kind) = asyncLookupAddressInternal(kind)
    /\ Handled("neighbors") = asyncGetHWAddrToInterfaceNameMapping
    /\ Handled("uptime") = checkForFailedConnectionOrRPCResponse
<1> USE DEF RouteRequests, LookupRequests
<1>1. \A kind \in RouteRequests : Handled(kind) = handleRouteReply
  BY DEF Handled
<1>2. \A kind \in LookupRequests : Handled(kind) = asyncLookupAddressInternal(kind)
  BY DEF Handled
<1>3. Handled("neighbors") = asyncGetHWAddrToInterfaceNameMapping
  BY DEF Handled
<1>4. Handled("uptime") = checkForFailedConnectionOrRPCResponse
  BY DEF Handled
<1> QED
  BY <1>1, <1>2, <1>3, <1>4

(* The bodies that may come with a request's reply.                        *)
LEMMA BodiesCases ==
    /\ \A kind \in LookupRequests : Bodies(kind) = LookupBodies
    /\ Bodies("neighbors") = NeighborBodies
    /\ Bodies("uptime") = UptimeBodies
  BY DEF Bodies, RouteRequests, LookupRequests

(* What validateResponse makes of the reply.                               *)
Validated ==
    IF reply = NoReply THEN Outcome("ok", <<>>) ELSE validateResponse(reply.doc, wraps)

(* The response handler of the request has run on what validateResponse    *)
(* has accepted, and nothing else has.                                     *)
Answered ==
    \/ rpc.verdict = "thrown" /\ outcome = Thrown
    \/ rpc.verdict = "undefined" /\ outcome = Undefined
    \/ rpc.verdict \in {"ok", "rpc"} /\ outcome \in Handled(request)

ReplyInv ==
    /\ stage # "idle" => request \in Requests
    /\ stage \in {"idle", "replied"} => rpc = Outcome("ok", <<>>)
    /\ stage \in {"validated", "done"} => rpc = Validated
    /\ stage = "validated" => rpc.verdict \in {"ok", "rpc"}
    /\ stage # "done" => outcome = Nothing
    /\ stage = "done" => Answered
    /\ stage = "idle" => reply = NoReply
    /\ stage = "replied" => reply # NoReply
    /\ reply = NoReply \/ (reply.transport = "ok" /\ reply.doc \in Docs)
    /\ reply.body # NoReply.body =>
          HasBody(reply.doc) /\ reply.body \in Bodies(request)

(* Responses that are accepted are those of the document, and none of them *)
(* is rejected.                                                            *)
LEMMA ValidateResult ==
    ASSUME NEW doc, doc.form \in DocForms, NEW w
    PROVE  LET o == validateResponse(doc, w)
           IN  /\ o.responses # <<>> =>
                     o.responses = doc.responses /\ Rejected(o.responses) = {}
               /\ o.verdict = "ok" \/ o.responses = <<>>
<1>1. ASSUME NEW rs
      PROVE  LET o == Validate(rs)
             IN  /\ o.responses # <<>> => o.responses = rs /\ Rejected(rs) = {}
                 /\ o.verdict = "ok" \/ o.responses = <<>>
  BY DEF Validate, Outcome
<1>2. validateResponse(doc, w) \in
          {Validate(doc.responses), Outcome("rpc", <<>>), Outcome("thrown", <<>>),
           Outcome("ok", <<>>)}
  BY DEF validateResponse, handleResponse, DocForms
<1> QED
  BY <1>1, <1>2 DEF Outcome

(* No handler but those of the routes ends in success, and none but the    *)
(* heartbeat's finds the switch alive.                                     *)
LEMMA LookupKinds ==
    ASSUME NEW kind, NEW o \in asyncLookupAddressInternal(kind)
    PROVE  o.kind \in {"failed", "thrown", "undefined", "posted"}
<1> DEFINE Kind(s) == \A x \in s : x.kind \in {"failed", "thrown", "undefined", "posted"}
<1>1. /\ Kind({Failed}) /\ Kind({Refused(kind)}) /\ Kind({Undefined})
      /\ Kind(MissingPrefix(kind))
  BY DEF Failed, Refused, Thrown, Undefined, MissingPrefix, Did
<1>2. \A paths : Kind(TakePrefix(kind, paths))
  BY <1>1 DEF TakePrefix, Did
<1> HIDE DEF Kind
<1>3. \A vrfs : Kind(HandleRoutes(kind, vrfs))
  BY <1>1, <1>2 DEF HandleRoutes
<1> QED
  BY <1>1, <1>3 DEF asyncLookupAddressInternal, Kind

(* The objects that are taken of what was read.                            *)
TakenOf(objects) == {i \in DOMAIN objects : OnVlan(objects[i])}

LEMMA NeighborOutcome ==
    ASSUME NEW o \in asyncGetHWAddrToInterfaceNameMapping
    PROVE  \/ o = HandlerFailed
           \/ o = Undefined /\ EmptyResponse /\ ~jsonRpcException
           \/ \E vrfs \in NeighborLookupResponse(reply.body, wraps) :
                 o = Mapping(Objects(vrfs), TakenOf(Objects(vrfs)))
  BY DEF asyncGetHWAddrToInterfaceNameMapping, NeighborReply, ResultBody, TakenOf

LEMMA NeighborKinds ==
    ASSUME NEW o \in asyncGetHWAddrToInterfaceNameMapping
    PROVE  o.kind \in {"handlerFailed", "thrown", "undefined", "mapping"}
<1>1. \A objects, taken : Mapping(objects, taken).kind \in {"thrown", "mapping"}
  BY DEF Mapping, Thrown, Did
<1> QED
  BY <1>1, NeighborOutcome DEF HandlerFailed, Undefined, Did

LEMMA RouteKinds ==
    ASSUME NEW o \in handleRouteReply
    PROVE  o.kind \in {"failed", "success"} /\ (o.kind = "success" => ~RouteFails)
  BY DEF handleRouteReply, Failed, Did

LEMMA HeartbeatKinds ==
    ASSUME NEW o \in checkForFailedConnectionOrRPCResponse
    PROVE  o.kind \in {"lost", "alive"}
  BY DEF checkForFailedConnectionOrRPCResponse, Did

(* What the handlers may come to depends on the reply and the compiler.    *)
LEMMA HandledKept ==
    ASSUME UNCHANGED <<wraps, reply, rpc>>
    PROVE  (\A kind : Handled(kind)' = Handled(kind)) /\ Validated' = Validated
<1>1. jsonRpcException' = jsonRpcException /\ EmptyResponse' = EmptyResponse
      /\ ResultBody' = ResultBody
  BY DEF jsonRpcException, EmptyResponse, ResultBody
<1>2. handleRouteReply' = handleRouteReply
  BY <1>1 DEF handleRouteReply, RouteFails
<1>3. \A kind : asyncLookupAddressInternal(kind)' = asyncLookupAddressInternal(kind)
  BY <1>1 DEF asyncLookupAddressInternal
<1>4. asyncGetHWAddrToInterfaceNameMapping' = asyncGetHWAddrToInterfaceNameMapping
  BY <1>1 DEF asyncGetHWAddrToInterfaceNameMapping, NeighborReply
<1>5. checkForFailedConnectionOrRPCResponse' = checkForFailedConnectionOrRPCResponse
  BY <1>1 DEF checkForFailedConnectionOrRPCResponse
<1>6. Validated' = Validated
  BY DEF Validated
<1> QED
  BY <1>2, <1>3, <1>4, <1>5, <1>6 DEF Handled

(* Every step of a reply keeps the invariant.                              *)
LEMMA ReplyStepInv ==
    ASSUME ReplyInv, ReplyNext
    PROVE  ReplyInv'
<1> USE DEF ReplyInv
<1>1. ASSUME NEW kind \in Requests, Receive(kind) PROVE ReplyInv'
  <2>1. PICK status \in Statuses, doc \in Docs :
           \E body \in IF HasBody(doc) THEN Bodies(kind) ELSE {NoReply.body} :
              reply' = [transport |-> "ok", status |-> status, doc |-> doc, body |-> body]
    BY <1>1 DEF Receive
  <2>2. reply'.transport = "ok" /\ reply'.doc \in Docs
    BY <2>1
  <2>3. reply'.body # NoReply.body => HasBody(reply'.doc) /\ reply'.body \in Bodies(kind)
    BY <2>1
  <2>4. /\ stage' = "replied" /\ request' = kind /\ UNCHANGED <<wraps, rpc, outcome>>
        /\ rpc = Outcome("ok", <<>>) /\ outcome = Nothing
    BY <1>1 DEF Receive
  <2> QED
    BY <1>1, <2>2, <2>3, <2>4 DEF NoReply
<1>2. ASSUME NEW kind \in Requests, ReceiveNothing(kind) PROVE ReplyInv'
  <2>1. /\ stage' = "validated" /\ request' = kind /\ reply' = NoReply
        /\ rpc' = Outcome("ok", <<>>) /\ outcome' = Nothing
    BY <1>2 DEF ReceiveNothing
  <2>2. rpc' = Validated' /\ rpc'.verdict = "ok"
    BY <2>1 DEF Validated, Outcome
  <2> QED
    BY <1>2, <2>1, <2>2
<1>3. CASE ValidateReply
  <2>1. /\ stage = "replied" /\ rpc' = validateResponse(reply.doc, wraps)
        /\ UNCHANGED <<wraps, request, reply>>
    BY <1>3 DEF ValidateReply
  <2>2. \/ /\ stage' = "validated" /\ rpc'.verdict \in {"ok", "rpc"} /\ outcome' = Nothing
        \/ /\ stage' = "done"
           /\ \/ rpc'.verdict = "thrown" /\ outcome' = Thrown
              \/ rpc'.verdict = "undefined" /\ outcome' = Undefined
    BY <1>3, <2>1 DEF ValidateReply
  <2>3. reply # NoReply
    BY <2>1
  <2>4. rpc' = Validated'
    BY <2>1, <2>3 DEF Validated
  <2>5. stage' = "done" => Answered'
    BY <2>2 DEF Answered
  <2> QED
    BY <2>1, <2>2, <2>4, <2>5
<1>4. ASSUME NEW kinds, NEW outcomes, Handle(kinds, outcomes), outcomes = Handled(request)
      PROVE  ReplyInv'
  <2>1. /\ stage = "validated" /\ stage' = "done" /\ outcome' \in Handled(request)
        /\ UNCHANGED <<wraps, request, reply, rpc>>
    BY <1>4 DEF Handle
  <2>2. Handled(request)' = Handled(request) /\ Validated' = Validated
    BY <2>1, HandledKept
  <2>3. Answered'
    BY <2>1, <2>2 DEF Answered
  <2> QED
    BY <2>1, <2>2, <2>3
<1>5. CASE HandleRoute
  <2>1. handleRouteReply = Handled(request)
    BY <1>5, HandledCases DEF HandleRoute, Handle
  <2> QED
    BY <1>4, <1>5, <2>1 DEF HandleRoute
<1>6. CASE HandleLookup
  <2>1. asyncLookupAddressInternal(request) = Handled(request)
    BY <1>6, HandledCases DEF HandleLookup, Handle
  <2> QED
    BY <1>4, <1>6, <2>1 DEF HandleLookup
<1>7. CASE HandleNeighbors
  <2>1. asyncGetHWAddrToInterfaceNameMapping = Handled(request)
    BY <1>7, HandledCases DEF HandleNeighbors, Handle
  <2> QED
    BY <1>4, <1>7, <2>1 DEF HandleNeighbors
<1>8. CASE HandleHeartbeat
  <2>1. checkForFailedConnectionOrRPCResponse = Handled(request)
    BY <1>8, HandledCases DEF HandleHeartbeat, Handle
  <2> QED
    BY <1>4, <1>8, <2>1 DEF HandleHeartbeat
<1>9. CASE Finish
  BY <1>9 DEF Finish
<1> QED
  BY <1>1, <1>2, <1>3, <1>5, <1>6, <1>7, <1>8, <1>9 DEF ReplyNext

(* The number of seconds orders the uptimes.                               *)
LEMMA UptimeOrder ==
    ASSUME NEW u \in [days : Nat, hrs : 0..23, mins : 0..59, secs : 0..59],
           NEW v \in [days : Nat, hrs : 0..23, mins : 0..59, secs : 0..59]
    PROVE  (getUptimeSecondsFromResponse(u) < getUptimeSecondsFromResponse(v))
               <=> Earlier(u, v)
<1> DEFINE ud == u.days  uh == u.hrs  um == u.mins  us == u.secs
           vd == v.days  vh == v.hrs  vm == v.mins  vs == v.secs
<1>1. /\ ud \in Nat /\ uh \in 0..23 /\ um \in 0..59 /\ us \in 0..59
      /\ vd \in Nat /\ vh \in 0..23 /\ vm \in 0..59 /\ vs \in 0..59
  OBVIOUS
<1>2. (us + um * 60 + uh * 3600 + ud * 86400 < vs + vm * 60 + vh * 3600 + vd * 86400)
          <=> \/ ud < vd
              \/ ud = vd /\ uh < vh
              \/ ud = vd /\ uh = vh /\ um < vm
              \/ ud = vd /\ uh = vh /\ um = vm /\ us < vs
  <2> HIDE DEF ud, uh, um, us, vd, vh, vm, vs
  <2> QED
    BY <1>1
<1> QED
  BY <1>2 DEF getUptimeSecondsFromResponse, Earlier

(* An outcome of a kind comes from a handler that ends so.                 *)
LEMMA OutcomeOf ==
    ASSUME ReplyInv, outcome.kind \notin {"nothing", "thrown", "undefined"}
    PROVE  /\ stage = "done" /\ request \in Requests /\ rpc = Validated
           /\ rpc.verdict \in {"ok", "rpc"} /\ outcome \in Handled(request)
           /\ outcome.kind = "success" => request \in RouteRequests /\ ~RouteFails
           /\ outcome.kind = "posted" => request \in LookupRequests
           /\ outcome.kind = "mapping" => request = "neighbors"
           /\ outcome.kind = "alive" => request = "uptime"
<1>1. stage = "done"
  BY DEF ReplyInv, Nothing, Did
<1>2. Answered /\ request \in Requests /\ rpc = Validated
  BY <1>1 DEF ReplyInv
<1>3. rpc.verdict \in {"ok", "rpc"} /\ outcome \in Handled(request)
  BY <1>2 DEF Answered, Thrown, Undefined, Did
<1>4. CASE request \in RouteRequests
  <2>1. outcome.kind \in {"failed", "success"} /\ (outcome.kind = "success" => ~RouteFails)
    BY <1>3, <1>4, RouteKinds, HandledCases
  <2> QED
    BY <1>1, <1>2, <1>3, <1>4, <2>1
<1>5. CASE request \in LookupRequests
  <2>1. outcome.kind \in {"failed", "thrown", "undefined", "posted"}
    BY <1>3, <1>5, LookupKinds, HandledCases
  <2> QED
    BY <1>1, <1>2, <1>3, <1>5, <2>1
<1>6. CASE request = "neighbors"
  <2>1. outcome.kind \in {"handlerFailed", "thrown", "undefined", "mapping"}
    BY <1>3, <1>6, NeighborKinds, HandledCases
  <2> QED
    BY <1>1, <1>2, <1>3, <1>6, <2>1
<1>7. CASE request = "uptime"
  <2>1. outcome.kind \in {"lost", "alive"}
    BY <1>3, <1>7, HeartbeatKinds, HandledCases
  <2> QED
    BY <1>1, <1>2, <1>3, <1>7, <2>1
<1> QED
  BY <1>2, <1>4, <1>5, <1>6, <1>7 DEF Requests

(* Accepted responses are those of the document, and none is rejected.     *)
LEMMA AcceptedResponses ==
    ASSUME ReplyInv, rpc = Validated, rpc.responses # <<>>
    PROVE  /\ reply # NoReply /\ reply.transport = "ok" /\ reply.doc \in Docs
           /\ rpc.verdict = "ok"
           /\ rpc.responses = reply.doc.responses
           /\ \A i \in DOMAIN reply.doc.responses :
                 validator(reply.doc.responses[i]) = "ok"
<1>1. reply # NoReply /\ rpc = validateResponse(reply.doc, wraps)
  BY DEF Validated, Outcome
<1>2. reply.transport = "ok" /\ reply.doc \in Docs
  BY <1>1 DEF ReplyInv
<1>3. reply.doc.form \in DocForms
  BY <1>2, ReplyAssumption
<1>4. rpc.responses = reply.doc.responses /\ Rejected(rpc.responses) = {}
      /\ rpc.verdict = "ok"
  <2>1. LET o == validateResponse(reply.doc, wraps)
        IN  /\ o.responses # <<>> =>
                  o.responses = reply.doc.responses /\ Rejected(o.responses) = {}
            /\ o.verdict = "ok" \/ o.responses = <<>>
    BY <1>3, ValidateResult
  <2> QED
    BY <1>1, <2>1
<1> QED
  BY <1>1, <1>2, <1>4 DEF Rejected

(* A body comes with a good response.                                      *)
LEMMA BodyAccepted ==
    ASSUME ReplyInv, rpc = Validated, rpc.responses # <<>>, reply.body # NoReply.body
    PROVE  Good(Head(reply.doc.responses)) /\ reply.body \in Bodies(request)
<1>1. HasBody(reply.doc) /\ reply.body \in Bodies(request)
  BY DEF ReplyInv
<1> DEFINE rs == reply.doc.responses
           R  == [error : Errors, id : Ids, result : Results]
<1>2. rs \in Seq(R) /\ rs # <<>> /\ Head(rs).result = "body"
  <2>1. reply.doc \in Docs
    BY AcceptedResponses
  <2>2. rs \in Seq(R)
    BY <2>1, ReplyAssumption
  <2> QED
    BY <1>1, <2>2 DEF HasBody
<1>3. 1 \in DOMAIN rs /\ Head(rs) = rs[1] /\ Head(rs).id \in Ids
  <2> HIDE DEF rs, R
  <2>1. 1 \in DOMAIN rs /\ Head(rs) = rs[1] /\ rs[1] \in R
    BY <1>2
  <2> QED
    BY <2>1 DEF R
<1>4. validator(Head(rs)) = "ok"
  BY <1>3, AcceptedResponses
<1> QED
  BY <1>1, <1>2, <1>3, <1>4 DEF Good, validator, Ids

LEMMA SuccessFollows == ReplyInv => SuccessIsReal
<1> SUFFICES ASSUME ReplyInv, outcome.kind = "success"
             PROVE  /\ reply.transport = "ok" /\ reply.status # 401
                    /\ reply.doc.responses # <<>>
                    /\ \A r \in Range(reply.doc.responses) : r.error = "none"
  BY DEF SuccessIsReal
<1>1. ~RouteFails /\ rpc = Validated
  BY OutcomeOf
<1>2. reply.transport = "ok" /\ reply.status # 401 /\ rpc.responses # <<>>
  BY <1>1 DEF RouteFails, EmptyResponse
<1>3. /\ reply.doc.responses # <<>>
      /\ \A i \in DOMAIN reply.doc.responses : validator(reply.doc.responses[i]) = "ok"
  BY <1>1, <1>2, AcceptedResponses
<1>4. \A i \in DOMAIN reply.doc.responses : reply.doc.responses[i].error = "none"
  BY <1>3 DEF validator
<1> QED
  BY <1>2, <1>3, <1>4 DEF Range

LEMMA HeartbeatFollows == ReplyInv => HeartbeatIsTrue
<1> SUFFICES ASSUME ReplyInv, outcome.kind = "alive" PROVE
      /\ reply.status = 200 /\ Good(Head(reply.doc.responses))
      /\ \A u \in Range(reply.body.rows), other \in UptimeBodies :
         \A v \in Range(other.rows), secs \in outcome.what :
             (secs < getUptimeSecondsFromResponse(v)) <=> Earlier(u, v)
  BY DEF HeartbeatIsTrue
<1>9. outcome \in checkForFailedConnectionOrRPCResponse /\ rpc = Validated
      /\ request = "uptime"
  BY OutcomeOf, HandledCases
<1>1. /\ reply.transport = "ok" /\ reply.status = 200 /\ rpc.responses # <<>>
      /\ \E u \in UptimeResponse(reply.body) :
            outcome.what = {getUptimeSecondsFromResponse(u)}
  BY <1>9 DEF checkForFailedConnectionOrRPCResponse, EmptyResponse, ResultBody, Did
<1>2. PICK u \in UptimeResponse(reply.body) :
         outcome.what = {getUptimeSecondsFromResponse(u)}
  BY <1>1
<1>3. reply.body.form = "object"
  BY <1>2 DEF UptimeResponse
<1>4. reply.body # NoReply.body
  BY <1>3 DEF NoReply, Table
<1>5. Good(Head(reply.doc.responses)) /\ reply.body \in UptimeBodies
  BY <1>1, <1>4, <1>9, BodyAccepted, BodiesCases
<1>6. IsUptime(reply.body)
  BY <1>3, <1>5, ReplyAssumption DEF Table
<1>7. \A other \in UptimeBodies : \A v \in Range(other.rows) :
         v \in [days : Nat, hrs : 0..23, mins : 0..59, secs : 0..59]
  <2> SUFFICES ASSUME NEW other \in UptimeBodies, NEW v \in Range(other.rows)
               PROVE v \in [days : Nat, hrs : 0..23, mins : 0..59, secs : 0..59]
    OBVIOUS
  <2>1. other.rows # <<>>
    BY DEF Range
  <2>2. IsUptime(other)
    BY <2>1, ReplyAssumption DEF Table
  <2> QED
    BY <2>2 DEF IsUptime, Range
<1>8. /\ Range(reply.body.rows) = {u}
      /\ u \in [days : Nat, hrs : 0..23, mins : 0..59, secs : 0..59]
  <2> DEFINE row == reply.body.rows[1]
  <2>1. reply.body.rows = <<row>>
    BY <1>6 DEF IsUptime
  <2>2. Range(<<row>>) = {row}
    BY DEF Range
  <2>3. u \in Range(reply.body.rows)
    BY <1>2 DEF UptimeResponse
  <2>4. row \in [days : Nat, hrs : 0..23, mins : 0..59, secs : 0..59]
    BY <1>6 DEF IsUptime
  <2> QED
    BY <2>1, <2>2, <2>3, <2>4
<1> QED
  <2>1. ASSUME NEW other \in UptimeBodies, NEW v \in Range(other.rows)
        PROVE  (getUptimeSecondsFromResponse(u) < getUptimeSecondsFromResponse(v))
                   <=> Earlier(u, v)
    BY <1>7, <1>8, UptimeOrder
  <2>2. ASSUME NEW w \in Range(reply.body.rows), NEW other \in UptimeBodies,
               NEW v \in Range(other.rows), NEW secs \in outcome.what
        PROVE  (secs < getUptimeSecondsFromResponse(v)) <=> Earlier(w, v)
    <3>1. w = u /\ secs = getUptimeSecondsFromResponse(u)
      BY <1>2, <1>8
    <3> QED
      BY <2>1, <3>1
  <2> QED
    BY <1>1, <1>5, <2>2

----------------------------------------------------------------------------
(* The lookups.                                                            *)

(* The body of a lookup's reply is a nest of tables, if there is one.      *)
LEMMA LookupTables ==
    ASSUME ReplyInv, request \in LookupRequests
    PROVE  RouteTables(reply.body)
<1>1. CASE reply.body = NoReply.body
  <2> DEFINE none == Table("missing", <<>>)
  <2>1. reply.body = none /\ none.rows = <<>> /\ IsTable(none)
    BY <1>1 DEF NoReply, Table, IsTable
  <2>2. Range(<<>>) = {}
    BY DEF Range
  <2>3. RowsOf({}) = {}
    BY DEF RowsOf
  <2>4. VrfRows(reply.body) = {}
    BY <2>1, <2>2 DEF VrfRows, RowsOf
  <2> QED
    BY <2>1, <2>3, <2>4 DEF RouteTables, AddrRows, PrefixRows, RoutePaths
<1>2. CASE reply.body # NoReply.body
  <2>1. reply.body \in LookupBodies
    BY <1>2, BodiesCases DEF ReplyInv
  <2> QED
    BY <2>1, TableAssumption DEF RouteTables
<1> QED
  BY <1>1, <1>2

LEMMA ActsFollows == ReplyInv => ActsOnReply
<1> SUFFICES ASSUME ReplyInv, outcome.kind = "posted",
                    request = "fuzzyPD" => OnePath(reply.body),
                    NEW x \in outcome.what
             PROVE  \E row \in PathRows(reply.body) : x \in Field(request, row)
  BY DEF ActsOnReply
<1>1. request \in LookupRequests /\ outcome \in asyncLookupAddressInternal(request)
  BY OutcomeOf, HandledCases
<1>2. PICK vrfs \in RouteLookupResponse(reply.body, wraps) :
         outcome \in HandleRoutes(request, vrfs)
  BY <1>1 DEF asyncLookupAddressInternal, ResultBody, Failed, Did
<1> QED
  BY <1>1, <1>2, LookupTables, LookupActsOnReply

(* An object is one response, and accepted if it is a good one.            *)
LEMMA ObjectAccepted ==
    ASSUME ReplyInv, stage = "done", reply.doc.form = "object"
    PROVE  /\ reply # NoReply /\ reply.doc \in Docs
           /\ DOMAIN reply.doc.responses = {1}
           /\ reply.doc.responses # <<>>
           /\ Head(reply.doc.responses) = reply.doc.responses[1]
           /\ reply.doc.responses[1] \in [error : Errors, id : Ids, result : Results]
           /\ rpc = Validate(reply.doc.responses)
<1>1. reply # NoReply
  BY DEF NoReply
<1>2. reply.doc \in Docs /\ rpc = validateResponse(reply.doc, wraps)
  BY <1>1 DEF ReplyInv, Validated
<1>3. rpc = Validate(reply.doc.responses)
  BY <1>2 DEF validateResponse, handleResponse
<1> DEFINE rs == reply.doc.responses
           R  == [error : Errors, id : Ids, result : Results]
<1>4. rs \in Seq(R) /\ Len(rs) = 1
  BY <1>2, ReplyAssumption
<1> HIDE DEF rs, R
<1>5. DOMAIN rs = {1} /\ rs # <<>> /\ Head(rs) = rs[1] /\ rs[1] \in R
  BY <1>4
<1> QED
  BY <1>1, <1>2, <1>3, <1>5 DEF rs, R

LEMMA SingleFollows == ReplyInv => SingleRouteUsed
<1> DEFINE rs == reply.doc.responses
<1> SUFFICES ASSUME ReplyInv, stage = "done", request \in LookupRequests,
                    reply.doc.form = "object", Good(Head(rs)), SingleRows(reply.body),
                    NEW row \in PathRows(reply.body), Sought(request, row) # {}
             PROVE  outcome = Did("posted", Field(request, row))
  BY DEF SingleRouteUsed
<1>1. /\ DOMAIN rs = {1} /\ rs # <<>> /\ Head(rs) = rs[1] /\ rpc = Validate(rs)
  BY ObjectAccepted
<1>2. validator(rs[1]) = "ok"
  BY <1>1 DEF validator, Good
<1>3. rpc = Outcome("ok", rs)
  <2>1. Rejected(rs) = {}
    BY <1>1, <1>2 DEF Rejected
  <2> QED
    BY <1>1, <2>1 DEF Validate
<1>4. outcome \in asyncLookupAddressInternal(request)
  <2>1. Answered /\ rpc.verdict = "ok"
    BY <1>3 DEF ReplyInv, Outcome
  <2> QED
    BY <2>1, HandledCases DEF Answered
<1>5. ~EmptyResponse /\ ResultBody = {reply.body}
  BY <1>1, <1>3 DEF EmptyResponse, ResultBody, Outcome, Good
<1>6. RouteLookupResponse(reply.body, wraps) # {}
  BY LookupTables, SingleRead
<1>7. PICK t \in RoutePaths(reply.body) :
         /\ t.form = "object" /\ IsTable(t) /\ PathRows(reply.body) = {t.rows[1]}
         /\ \A vrfs \in RouteLookupResponse(reply.body, wraps) : \E paths :
               /\ Len(paths) = 1 /\ Head(paths) \in RowPath(t)
               /\ \A kind : HandleRoutes(kind, vrfs) = TakePrefix(kind, paths)
  BY LookupTables, SingleRead
<1>8. PICK vrfs \in RouteLookupResponse(reply.body, wraps) :
         outcome \in HandleRoutes(request, vrfs)
  BY <1>4, <1>5, <1>6 DEF asyncLookupAddressInternal
<1>9. PICK paths : /\ Len(paths) = 1 /\ Head(paths) \in RowPath(t)
                   /\ HandleRoutes(request, vrfs) = TakePrefix(request, paths)
  BY <1>7, <1>8
<1>10. row = t.rows[1]
  BY <1>7
<1>11. TakePrefix(request, paths) =
           {Did("posted", Field(request, t.rows[1]))}
  BY <1>7, <1>9, <1>10, SingleWanted
<1> QED
  BY <1>8, <1>9, <1>10, <1>11

----------------------------------------------------------------------------
(* The neighbours.                                                         *)

LEMMA ReplyNeighborTables ==
    ASSUME ReplyInv, request = "neighbors"
    PROVE  NeighborTables(reply.body)
<1>1. CASE reply.body = NoReply.body
  <2> DEFINE none == Table("missing", <<>>)
  <2>1. reply.body = none /\ none.rows = <<>> /\ IsTable(none)
    BY <1>1 DEF NoReply, Table, IsTable
  <2>2. Range(<<>>) = {}
    BY DEF Range
  <2>3. RowsOf({}) = {}
    BY DEF RowsOf
  <2>4. RowsOf({reply.body}) = {}
    BY <2>1, <2>2 DEF RowsOf
  <2> QED
    BY <2>1, <2>3, <2>4 DEF NeighborTables, AdjRows
<1>2. CASE reply.body # NoReply.body
  <2>1. reply.body \in NeighborBodies
    BY <1>2, BodiesCases DEF ReplyInv
  <2> QED
    BY <2>1, TableAssumption DEF NeighborTables
<1> QED
  BY <1>1, <1>2

LEMMA NeighborsFollow == ReplyInv => NeighborsAreReal
<1> SUFFICES ASSUME ReplyInv, outcome.kind = "mapping"
             PROVE  /\ outcome.what \subseteq
                          {<<o.mac, o.intf_out>> : o \in Neighbors(reply.body)}
                    /\ (\A adj \in AdjRows(reply.body) : adj.nested) =>
                          {pair[1] : pair \in outcome.what}
                              = {o.mac : o \in Neighbors(reply.body)}
  BY DEF NeighborsAreReal
<1>1. request = "neighbors" /\ outcome \in asyncGetHWAddrToInterfaceNameMapping
  BY OutcomeOf, HandledCases
<1>2. PICK vrfs \in NeighborLookupResponse(reply.body, wraps) :
         outcome = Mapping(Objects(vrfs), TakenOf(Objects(vrfs)))
  BY <1>1, NeighborOutcome DEF HandlerFailed, Undefined, Did
<1> DEFINE objects == Objects(vrfs)
           taken == TakenOf(objects)
           All == AllObjects(reply.body)
<1>3. /\ objects \in Seq(All)
      /\ (\A adj \in AdjRows(reply.body) : adj.nested) => Range(objects) = All
  BY <1>1, ReplyNeighborTables, NeighborObjects
<1> HIDE DEF objects
<1>4. taken \in SUBSET DOMAIN objects
  BY DEF TakenOf
<1>5. outcome = Mapping(objects, taken)
  BY <1>2 DEF objects
<1>6. Neighbors(reply.body) = {o \in All : o.intf_out \in VlanNames}
  BY DEF Neighbors, AllObjects
<1>7. \A i \in taken : objects[i] \in Neighbors(reply.body)
  <2> HIDE DEF All
  <2> QED
    BY <1>3, <1>6 DEF TakenOf, OnVlan, isValidVlanName
<1>8. /\ outcome.what \subseteq {<<objects[i].mac, objects[i].intf_out>> : i \in taken}
      /\ {pair[1] : pair \in outcome.what} = {objects[i].mac : i \in taken}
  <2> HIDE DEF All, taken
  <2> QED
    BY <1>3, <1>4, <1>5, MappingOf
<1>9. ASSUME Range(objects) = All, NEW o \in Neighbors(reply.body)
      PROVE  \E i \in taken : objects[i] = o
  BY <1>6, <1>9 DEF TakenOf, OnVlan, isValidVlanName, Range
<1> HIDE DEF taken, All
<1>10. outcome.what \subseteq {<<o.mac, o.intf_out>> : o \in Neighbors(reply.body)}
  BY <1>7, <1>8
<1>11. ASSUME \A adj \in AdjRows(reply.body) : adj.nested
       PROVE  {pair[1] : pair \in outcome.what} = {o.mac : o \in Neighbors(reply.body)}
  <2>1. \A o \in Neighbors(reply.body) : \E i \in taken : objects[i] = o
    BY <1>3, <1>9, <1>11
  <2> QED
    BY <1>7, <1>8, <2>1
<1> QED
  BY <1>10, <1>11

LEMMA RestoreFollows == ReplyInv => RestoreHeard
<1> DEFINE rs == reply.doc.responses
           Bad == \E row \in AdjRows(reply.body) :
                     \E o \in Range(row.objects.rows) : o.mac \in BadMacs
<1> SUFFICES ASSUME ReplyInv, stage = "done", request = "neighbors",
                    reply.doc.form \in {"object", "unparsable"},
                    \A r \in Range(rs) : r.id # "null" /\ r.result # "missing"
             PROVE  outcome.kind \in {"mapping", "handlerFailed"} \/ Bad
  BY DEF RestoreHeard
<1>1. rpc.verdict = "rpc" \/ (rpc.verdict = "ok" /\ rpc.responses # <<>>)
  <2>1. CASE reply.doc.form = "unparsable"
    <3>1. reply # NoReply
      BY <2>1 DEF NoReply
    <3> QED
      BY <2>1, <3>1 DEF ReplyInv, Validated, validateResponse, handleResponse, Outcome
  <2>2. CASE reply.doc.form = "object"
    <3>1. /\ DOMAIN rs = {1} /\ rs # <<>> /\ rpc = Validate(rs)
          /\ rs[1] \in [error : Errors, id : Ids, result : Results]
      BY <2>2, ObjectAccepted
    <3>2. rs[1].id # "null" /\ rs[1].result # "missing" /\ rs[1].id \in Ids
      BY <3>1 DEF Range
    <3>3. validator(rs[1]) \in {"ok", "rpc"}
      BY <3>2 DEF validator, Ids
    <3>4. CASE Rejected(rs) = {}
      BY <3>1, <3>4 DEF Validate, Outcome
    <3>5. CASE Rejected(rs) # {}
      <4>1. Rejected(rs) = {1} /\ validator(rs[1]) # "ok"
        BY <3>1, <3>5 DEF Rejected
      <4>2. Min({1}) = 1
        BY DEF Min
      <4> QED
        BY <3>1, <3>3, <4>1, <4>2 DEF Validate, Outcome
    <3> QED
      BY <3>4, <3>5
  <2> QED
    BY <2>1, <2>2
<1>2. outcome \in asyncGetHWAddrToInterfaceNameMapping
  BY <1>1, HandledCases DEF ReplyInv, Answered
<1>3. CASE outcome = HandlerFailed
  BY <1>3 DEF HandlerFailed, Did
<1>4. ~(EmptyResponse /\ ~jsonRpcException)
  BY <1>1 DEF EmptyResponse, jsonRpcException
<1>5. ASSUME NEW vrfs \in NeighborLookupResponse(reply.body, wraps),
             outcome = Mapping(Objects(vrfs), TakenOf(Objects(vrfs)))
      PROVE  outcome.kind = "mapping" \/ Bad
  <2> DEFINE objects == Objects(vrfs)
             taken == TakenOf(objects)
  <2>1. objects \in Seq(AllObjects(reply.body))
    BY ReplyNeighborTables, NeighborObjects
  <2>2. ASSUME NEW i \in taken, objects[i].mac \in BadMacs PROVE Bad
    <3>1. objects[i] \in AllObjects(reply.body)
      BY <2>1, <2>2 DEF TakenOf
    <3> QED
      BY <2>2, <3>1 DEF AllObjects
  <2>3. outcome.kind = "mapping" \/ \E i \in taken : objects[i].mac \in BadMacs
    BY <1>5 DEF Mapping, Did
  <2> QED
    BY <2>2, <2>3
<1> QED
  BY <1>2, <1>3, <1>4, <1>5, NeighborOutcome

----------------------------------------------------------------------------
(* The library as a whole.                                                 *)

(* The types of a reply, which every step of one keeps.                    *)
ReplyTypes ==
    /\ wraps \in BOOLEAN
    /\ stage \in Stages
    /\ request \in Requests \cup {"none"}
    /\ rpc.verdict \in {"ok", "rpc", "thrown", "undefined"}
    /\ outcome.kind \in Kinds

LEMMA ReplyStepTypes ==
    ASSUME ReplyTypes, ReplyNext
    PROVE  ReplyTypes'
<1> USE DEF ReplyTypes, Stages, Kinds
<1>1. Nothing.kind = "nothing" /\ Thrown.kind = "thrown" /\ Undefined.kind = "undefined"
      /\ Outcome("ok", <<>>).verdict = "ok"
  BY DEF Nothing, Thrown, Undefined, Did, Outcome
<1>2. ASSUME NEW kind \in Requests, Receive(kind) PROVE ReplyTypes'
  BY <1>2 DEF Receive
<1>3. ASSUME NEW kind \in Requests, ReceiveNothing(kind) PROVE ReplyTypes'
  BY <1>1, <1>3 DEF ReceiveNothing
<1>4. CASE ValidateReply
  BY <1>1, <1>4 DEF ValidateReply
<1>5. CASE HandleRoute
  BY <1>5, RouteKinds DEF HandleRoute, Handle
<1>6. CASE HandleLookup
  BY <1>6, LookupKinds DEF HandleLookup, Handle
<1>7. CASE HandleNeighbors
  BY <1>7, NeighborKinds DEF HandleNeighbors, Handle
<1>8. CASE HandleHeartbeat
  BY <1>8, HeartbeatKinds DEF HandleHeartbeat, Handle
<1>9. CASE Finish
  BY <1>1, <1>9 DEF Finish
<1> QED
  BY <1>2, <1>3, <1>4, <1>5, <1>6, <1>7, <1>8, <1>9 DEF ReplyNext

(* Requests are only under way while the library runs.                     *)
LibraryInv ==
    /\ ConfigInv
    /\ ReplyTypes
    /\ ReplyInv
    /\ stage # "idle" => phase = "running"

LEMMA LibraryInit == Init => LibraryInv
<1> SUFFICES ASSUME Init PROVE LibraryInv
  OBVIOUS
<1>1. ConfigInv
  BY DEF Init, ConfigInit, ConfigInv, CrashHasReason
<1>2. ReplyTypes /\ stage = "idle"
  BY DEF Init, ReplyInit, ReplyTypes, Stages, Kinds, Outcome, Nothing, Did
<1>3. ReplyInv
  BY DEF Init, ReplyInit, ReplyInv
<1> QED
  BY <1>1, <1>2, <1>3 DEF LibraryInv

LEMMA LibraryStep == LibraryInv /\ [Next]_vars => LibraryInv'
<1> SUFFICES ASSUME LibraryInv, [Next]_vars PROVE LibraryInv'
  OBVIOUS
<1> USE DEF LibraryInv
<1>1. ASSUME UNCHANGED replyVars PROVE ReplyTypes' /\ ReplyInv'
  <2>1. ReplyTypes'
    BY <1>1 DEF replyVars, ReplyTypes
  <2>2. /\ \A kind : Handled(kind)' = Handled(kind)
        /\ Validated' = Validated
    BY <1>1, HandledKept DEF replyVars
  <2>3. stage' = stage /\ request' = request /\ reply' = reply /\ rpc' = rpc
        /\ outcome' = outcome
    BY <1>1 DEF replyVars
  <2>4. ReplyInv'
    BY <2>2, <2>3 DEF ReplyInv, Answered
  <2> QED
    BY <2>1, <2>4
<1>2. ASSUME UNCHANGED configVars PROVE ConfigInv' /\ phase' = phase
  BY <1>2 DEF configVars, ConfigInv, CrashHasReason
<1>3. CASE ConfigStep
  BY <1>1, <1>3, ConfigStepInv DEF ConfigStep, replyVars
<1>4. CASE ReplyStep
  BY <1>2, <1>4, ReplyStepInv, ReplyStepTypes DEF ReplyStep
<1>5. CASE UNCHANGED vars
  <2>1. UNCHANGED configVars /\ UNCHANGED replyVars
    BY <1>5 DEF vars
  <2> QED
    BY <1>1, <1>2, <2>1 DEF replyVars
<1> QED
  BY <1>3, <1>4, <1>5 DEF Next

LEMMA LibraryAlways == Spec => []LibraryInv
  BY LibraryInit, LibraryStep, PTL DEF Spec

(* The library keeps its types, and no request is under way unless it      *)
(* runs.                                                                   *)
THEOREM LibraryTypeCorrect == Spec => []TypeOK
<1>1. LibraryInv => TypeOK
  BY ConfigAssumption DEF LibraryInv, ConfigInv, ReplyTypes, TypeOK
<1> QED
  BY <1>1, LibraryAlways, PTL

(* A service that runs does so with the heartbeat that was configured,     *)
(* whatever the width of a word.                                           *)
THEOREM ConfigurationKept == Spec => []RunsAsConfigured
<1>1. LibraryInv => RunsAsConfigured
  BY ConfigInvImplies DEF LibraryInv
<1> QED
  BY <1>1, LibraryAlways, PTL

(* Nothing but the reasons of CrashHasReason takes the server down when    *)
(* the library is loaded and started.                                      *)
THEOREM CrashesHaveReasons == Spec => []CrashHasReason
<1>1. LibraryInv => CrashHasReason
  BY DEF LibraryInv, ConfigInv
<1> QED
  BY <1>1, LibraryAlways, PTL

(* Whatever the switch answers, a route counts as applied or removed only  *)
(* if every response of the batch is free of errors.                       *)
THEOREM SuccessWasReported == Spec => []SuccessIsReal
<1>1. LibraryInv => SuccessIsReal
  BY SuccessFollows DEF LibraryInv
<1> QED
  BY <1>1, LibraryAlways, PTL

(* For any number of days the seconds of an uptime are ordered as it is,   *)
(* and only a good reply yields one.                                       *)
THEOREM UptimesCompare == Spec => []HeartbeatIsTrue
<1>1. LibraryInv => HeartbeatIsTrue
  BY HeartbeatFollows DEF LibraryInv
<1> QED
  BY <1>1, LibraryAlways, PTL

(* Whatever tables the switch sends and whatever the compiler makes of the *)
(* braces, a lookup acts on an interface of the reply, and for a prefix    *)
(* with one path on its next hop.                                          *)
THEOREM LookupsActOnReplies == Spec => []ActsOnReply
<1>1. LibraryInv => ActsOnReply
  BY ActsFollows DEF LibraryInv
<1> QED
  BY <1>1, LibraryAlways, PTL

(* A route that the switch reports in a reply of single rows is acted      *)
(* upon, by either compiler: by its interface or by its next hop, as the   *)
(* request needs, and whether or not it has the other.                     *)
THEOREM SingleRoutesActedUpon == Spec => []SingleRouteUsed
<1>1. LibraryInv => SingleRouteUsed
  BY SingleFollows DEF LibraryInv
<1> QED
  BY <1>1, LibraryAlways, PTL

(* A restore hears of its neighbour lookup if the reply is one response    *)
(* with readable addresses, however many neighbours there are.             *)
THEOREM RestoresHear == Spec => []RestoreHeard
<1>1. LibraryInv => RestoreHeard
  BY RestoreFollows DEF LibraryInv
<1> QED
  BY <1>1, LibraryAlways, PTL

(* For any number of neighbours in any number of tables, a restore learns  *)
(* of those on VLAN interfaces: no others, and of all when the reply is    *)
(* nested.                                                                 *)
THEOREM NeighborsReported == Spec => []NeighborsAreReal
<1>1. LibraryInv => NeighborsAreReal
  BY NeighborsFollow DEF LibraryInv
<1> QED
  BY <1>1, LibraryAlways, PTL

=============================================================================
