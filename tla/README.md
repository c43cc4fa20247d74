# Verification of nxos_dhcp6_exporter

The repository is a Kea DHCPv6 hook library. For every IPv6 lease Kea hands
out it installs a static route on a Cisco NX-OS switch, and it removes the
route when the lease ends. All communication with the switch is asynchronous:
requests go through a thread pool, handlers run in the pool's threads, and a
heartbeat notices outages and reboots and has the routes restored from the
lease database.

This directory holds TLA+ modules for the parts with behaviour over time, TLC
configurations for them and TLAPS proofs. Module names follow the classes of
the code. `PROJECT.json` maps every definition to the lines it models.

## 1. Inventory

| Part (source) | State | Operations | Talks to |
|---|---|---|---|
| Kea callouts (`src/callout.cpp`) | the one `DHCP6ExporterImpl` | `load`, `unload`, `dhcp6_srv_configured`, `lease6_select/renew/rebind/expire/release/decline` | `DHCP6ExporterImpl` |
| `DHCP6ExporterImpl` (`src/dhcp6_exporter_impl.cpp`) | the service pointer | one handler per callout; start and stop | service, lease database |
| `DHCP6ExporterService` (`src/dhcp6_exporter_service.cpp`) | management client, heartbeat service | `exportRoute`, `removeRoute`, `restoreLeasesFromLeaseDatabase` | both of them |
| `LeaseUtils` (`src/lease_utils.cpp`) | none | queries | Kea's lease manager |
| `NXOSManagementClient` (`src/nxos_management_client.cpp`) | none but its HTTP client | apply, remove, fuzzy remove, relay lookup, route lookup, ND table lookup | HTTP client, switch |
| `NXOSHttpClient` (`src/nxos_http_client.cpp`) | `m_threadsState`, `m_threadPool`, `m_runningThreads`, `m_exitedThreads`, an IOService | `startClient`, `stopClient`, `sendRequest`, `threadLoop` | its threads, over one mutex and one condition variable |
| `NXOSHeartbeatService` (`src/nxos_heartbeat_service.cpp`) | `m_prevLostConnection`, `m_prevUptimeSecs`, `m_timer` | `heartbeatLoop`, its response handler, `handlerFailedCallback`, start and stop | its own HTTP client, the service |
| `RouteExport` (`include/route_export.hpp`) | value type | five alternatives of a route | |
| JSON-RPC utilities (`src/jsonrpc/utils.cpp`) | none | check of a response, encoding of commands | HTTP client |
| NX-OS structures (`include/nxos/nxos_structs.hpp`) | none | reading the tables of a reply | management client, heartbeat |
| Connection parameters, factories | none | checks of the configuration, choice of the client | `load` |
| Logging, messages | none | | |
| `post_request_jsonrpc`, `event_queue` | | not listed in `CMakeLists.txt`, not built | |

Interaction. A callout runs in a Kea packet thread and only posts requests. An
IA_NA route takes two requests in a row: the switch is asked which VLAN
interface owns the relay's link address, and the handler of the answer posts
the route command. An IA_PD route goes to the client's IA_NA address, which
comes from the lease database at the time of the callout. An expired lease no
longer knows its relay, so its route is looked up by address ("fuzzy"
removal). The heartbeat has a second pool of its own; its response handler
calls the restore, which posts to the first pool and reports a failure back
through `handlerFailedCallback`.

What is hard here:

* four pool threads complete requests in any order, and the second request of
  a lookup goes to the end of the queue, behind requests posted later;
* nothing is retried: a lost request or reply leaves the switch different from
  the database until the next restore;
* the restore works on a snapshot of the leases while callouts change them;
* removals identify a route by address and next hop and have to name exactly
  the pair that was installed, computed from other data and later;
* the pool's start and stop protocol: counters, one condition variable, a join
  under the mutex, threads thrown out of `run()` by exceptions;
* several heartbeats in flight, whose handlers share one flag with the failure
  callback of a restore that runs in another pool;
* replies that are a nest of tables, each written as an object, as an array or
  not at all, read by code that means one thing to GCC and another to Clang;
* exceptions: which of them are caught, by whom, and which end a handler that
  somebody waits for.

What makes each part correct:

* callouts and management client: when nothing is under way for an address,
  the switch has exactly the route its lease calls for; no removal hits a
  route of a lease that stays; every lease gets its route; no route exists
  that no lease called for;
* restore: every lease in the database is looked at;
* pool: calls return, no deadlock in the join, requests are run;
* heartbeat: every outage is followed by a restore, also when that fails; after
  a reboot restores are repeated until one runs; a stopped service is quiet;
* configuration: what runs is what was configured, and a bad configuration is
  refused when the library is loaded instead of stopping the server later;
* replies: a command only names what the switch has answered, an error is not
  taken for a success, and whoever waits for a reply hears of its failure.

`PROJECT.json` lists the hazards behind these, each at its line.

## 2. Modules

    RouteExport          routes, endpoints and requests (values only)
      LeaseDatabase      Kea's leases and LeaseUtils
        NXOSManagementClient   requests in the pool, handlers, the switch
          DHCP6Exporter        callouts, restore, environment; implements RouteTable
            ExporterInvariant  what each request owes its address
              MCDHCP6Exporter  instances for TLC
            DHCP6ExporterProofs
              RouteTableProofs
            LeaseHistory       adds a history variable
              MCLeaseHistory
              LeaseHistoryProofs
    RouteTable           abstract specification of the exporter
    HttpClientPool       start/stop protocol of the pool; implements RequestPool
      HttpClientPoolProofs
    RequestPool          abstract specification of the pool
    Heartbeat            heartbeat service, timer, restore requests
      HeartbeatProofs
    NXOSStructs          the readers of the switch's tables
    JsonRpcUtils         the check of a JSON-RPC response
      NXOSReplies        a request, its reply and the response handlers
    ConnectionConfig     load, configuration, start, unload
      HookLibrary        both of them: the life of the library
        MCHookLibrary    configurations and replies for TLC
        HookLibraryProofs
    SequenceLemmas       least elements, what FlattenSeq contains (proofs only)
      ReplyLemmas        what the readers make of a reply; used by HookLibraryProofs

### RouteExport, LeaseDatabase

A route is a pair of an address or prefix and an endpoint. The endpoint says
what the code writes after it: a VLAN interface, a host address, the same with
"/128" (which the fuzzy IA_PD removal produces, and which the switch is assumed
to read as the same next hop), or the relay's link address.
`sendRoutesToSwitch` and `removeRoutesFromSwitch` say which request each
alternative of `RouteExport::routeInfo` starts with.

A client is one identity association (DUID and IAID), which is how
`findIA_NALeaseByDUID_IAID` looks leases up. Kea is external; a lease is free,
active, declined (without client, as `Lease6::decline` leaves it) or reclaimed.

### NXOSManagementClient

| State | Code |
|---|---|
| `queue` | closures posted to `m_ioService` |
| `work[w]` | what pool thread `w` does: in `cli.Post`, holding a reply, in the loop of the restore |
| `routes`, `neighbors` | the switch (external): static routes, ND table |
| `crashed` | the process died of undefined behaviour |

`Take` dequeues, `Serve...` is the switch executing the command,
`HandleLookup`, `HandleLookupMissing`, `HandleRouteReply` are the response
handlers. `LoseRequestOrReply` and `SwallowReply` are the failures. A request
is answered in one step of the switch and handled in a later one, so that
replies are handled in another order than the switch executed the commands.

`HandleLookupMissing` is the reply without `TABLE_prefix`: the test
`!has_value() && ->size() != 1` reads the size of a vector that was never
constructed, so the step may end either way.

### DHCP6Exporter

One action per callout and lease type: `SelectNA`, `SelectPD`, `Expire`,
`ReleaseNA`, `DeclineNA`, `ReleasePD`, `RenewNA`, `RenewPD` (RENEW and REBIND).
A callout and the database change Kea makes around it are one step: both run in
one packet thread, and the pool's threads see the lease only through their own
later queries. A callout that returns `NEXT_STEP_SKIP` makes no allocation and
is not a step. The IA_PD branch of the decline handler is left out: Kea
declines IA_NA leases only.

The restore is `ConnectionRestored` (posts the ND lookup), `HandleNeighbors`
(snapshot of the leases), then one step per lease (`RestoreNA`, `RestorePD`,
`RestoreThrows`), because callouts interleave with it.

What the code relies on about its environment is a parameter: `Relaxed` is the
set of assumptions that are dropped.

| Assumption | Dropping it allows |
|---|---|
| `overlap` | a callout about an address whose earlier requests are still in the pool |
| `earlyExpire` | an expiry in that time |
| `faults` | lost requests and replies, replies with an empty body |
| `reboot` | reboots of the switch, restores, learning of neighbours |
| `naUnderPD` | the IA_NA lease ends or changes while the client's prefix is active |
| `prefixMove` | Kea gives a client another prefix in a RENEW or REBIND |
| `otherIA` | messages whose first IA option is not the IA being extended |

### RouteTable

What the exporter promises, without requests, threads and lookups: for every
address there is a set of endpoints that are right for it (`wanted`) and a set
it is routed to (`table`). Leases change an address only while its table
agrees with them, an endpoint is installed where there is none and it is
wanted, and withdrawn where nothing is wanted. `DHCP6Exporter` instantiates it
with `Wanted` and `RoutesOf`: a lookup, a reply, or the first half of a removal
is a stutter, the command that the switch executes is the step.

### LeaseHistory

Adds the set of leases ever granted. No action reads it. `OnlyLeasedRoutes`
compares the routes with it: what is installed late, again or from the snapshot
of a restore was called for by some lease. It does not say that the lease is
still there: a restore may bring back the route of a lease that has ended
meanwhile. `RoutesAreLeased` proves it with every assumption dropped, so that no
run of `PROJECT.json` repeats it; `LeaseHistory.cfg` (two clients on two VLANs,
one address, one prefix, one thread) is the instance on which TLC checks it
before the proof.

### HttpClientPool

`pc[t]` is the place of a thread in `threadLoop`, `main` the place of the owner
in `setThreadsState`. A section under `m_mutexThreadPool` is one step, except
where the owner keeps the mutex for long (`poll()` and `join()`): there
`MutexFree` blocks the threads. `getThreadsState` reads without the lock; the
model gives it the current value. A closure may throw, which takes its thread
out of `run()`, and may post another one. The wait of the owner is split into
waiting and being woken, so that the predicate can become false in between,
and it can wake up spuriously. `sendRequest` has no guard but the bound: it posts
at any time, as the heartbeat's handlers may to a client that is being stopped.

`RequestPool` is what the pool promises to whoever posts a request, in whatever
phase the pool is: it is taken once, none runs before a start is under way or after the stop, and what nobody
took waits for the next start. The mutex, the condition variable and the
counters are gone there; the refinement maps `main` to four phases and the
places in which a thread runs a closure to a set.

### Heartbeat

Timer, heartbeats in the pool, handlers under `m_heartbeatMutex`, restores and
their failure callback, stop. The handler that triggers a restore is two steps,
since the restore it posts runs in another pool at once. `uptime[w]` is sampled
when the switch answers and compared when the handler runs, so older answers
may be handled after newer ones. `owed` is a ghost: a failed heartbeat or
restore that no restore has followed yet. `noticed` and `routesLost` are
ghosts, too: a reboot counts only if a heartbeat failed during the outage, for
otherwise the uptime is all the service has, and it may not tell
(`m_prevUptimeSecs` is 0 after a restore).

A restore ends in one of three ways. `RestoreEnds`: the handler goes through all
leases. `RestoreFails`: the lookup fails and `handlerFailed` is called.
`RestoreCutShort`: it ends early and nobody hears of it, because an exception
passes by the handlers (empty body, no id, no result, a hardware address that is
none, a lease without one) or the `return` of the IA_PD case leaves it. It is
always possible when the switch answers, and only `RestoreEnds` clears
`routesLost`. The ghost `cutShort` is reset by the next noticed reboot, so that
it does not excuse what happens after that.

### NXOSStructs, JsonRpcUtils, NXOSReplies

The other modules say that a reply is an answer, a missing table or a failure;
these say which reply is which. A table is a record of its form (object, array,
missing, something else) and its rows; names and addresses are single values. A
reader returns the set of its possible results, which is empty when it throws.
The readers nest as in `nxos_structs.hpp`, down to paths and neighbours.

`wraps` is the compiler. `auto x{json}` initialises from a list: with GCC that
makes an array of one item, with Clang a copy. The code works with both where
every table has one row, and with neither everywhere: GCC's reading refuses
tables with several rows, Clang's refuses an array of JSON-RPC responses.

`NXOSReplies` follows one request from `cli.Post` (`Receive`,
`ReceiveNothing`) over `validateResponse` (`ValidateReply`) to the response
handler, one `Handle...` action per family of handlers, and records what it did
in `outcome`. One request at a time suffices: handlers share nothing but what
the modules above already interleave. Undefined behaviour is an outcome.

### ConnectionConfig, HookLibrary

`load` with its checks in the order of the code, `dhcp6_srv_configured` and
`unload`. A parameter is missing, of the wrong type or there; numbers keep the
width of `size_t` and `long` (`Word` values). A refused library is not loaded;
an exception in `dhcp6_srv_configured` is a call of `abort()`. `HookLibrary`
composes this with the replies: requests are made only while the library runs,
and `unload` waits for them, since the destructors join the pool's threads.

## 3. Runs

| Run | Checks | Result |
|---|---|---|
| `exporter_settled` | `TypeOK`, `SettledRoutes`, `TableSpec`, `RoutesCatchUp` | hold |
| `exporter_faults` | `RemovalsOfEnded`, `ActiveRouteKept` | hold |
| `pool_calls` | `TypeOK`, `JoinSafe`, `WaitsForSomebody`, `PoolSpec`, `StartedAll`, `StopIsFinal`, `CallsReturn`, `RequestsRun` | hold |
| `heartbeat` | `TypeOK`, `OutageRemembered`, `StoppedIsQuiet`, `OutageRestored`, `RoutesRestored` | hold |
| `hook_library` | `TypeOK`, `RunsAsConfigured`, `CrashHasReason`, `ActsOnReply`, `SingleRouteUsed`, `SuccessIsReal`, `RestoreHeard`, `NeighborsAreReal`, `HeartbeatIsTrue` | hold |
| `exporter_race` | `EndedLeaseHasNoRoute` | violated |
| `exporter_prefix_move` | `EndedLeaseHasNoRoute` | violated |
| `exporter_other_ia` | `ActiveRouteKept` | violated |
| `exporter_restore` | `RestoreVisitsEveryLease` | violated |
| `exporter_crash` | `NeverCrashes` | violated |
| `pool_stop_twice` | `CallsReturn` | violated |
| `config_interval` | `IntervalIsPositive` | violated |

**exporter_settled.** All assumptions hold (`Relaxed = {}`). Two clients on one
VLAN, two addresses, a prefix, two threads, at most two requests in the pool
when a callout comes in, under fairness and without symmetry. Two clients on
one VLAN are what it takes for a removal to hit somebody else's route; two
addresses for a renewal that moves; two threads for any reordering, since the
properties are about one address at a time. A passing run means: whatever the
order in which requests of different addresses are executed, the switch
follows `RouteTable`, an address without a request under way has exactly the
routes its lease calls for (`SettledRoutes`), and every address gets there
again and again (`RoutesCatchUp`).

**exporter_faults.** All assumptions but `overlap` and `otherIA` dropped: losses,
early expiries, reboots with restores, IA_NA leases that change under a prefix.
One client with two addresses and a prefix on two threads; the case of two
clients is in `exporter_settled`. `SettledRoutes` cannot be expected here, as
nothing is retried, but only a reboot may take away the route of a lease that
stays (`ActiveRouteKept`). What that rests on is `RemovalsOfEnded`: a removal, or
a lookup that will become one, is only in the pool while its address is not
leased, whatever happened to the route that it names.

**pool_calls.** Three threads, two starts and stops, four requests. The second
start is needed because `m_exitedThreads` keeps its old value until the end of
a start. Three threads allow a first, a middle and a last one at each counter.
`WaitsForSomebody` is the safety half of `CallsReturn`: an owner that sleeps has
not been overtaken by the notification it sleeps for. `StopIsFinal` says that
what an exception in `poll()` leaves in the queue is not begun while the owner
waits for the threads. (A thread that has already decided to go back may still
enter `run()`, which returns at once.) `PoolSpec` is the refinement of
`RequestPool`, with requests posted in every phase. `TypeOK` has both counters
between 0 and the size of the pool. Deadlock is
not checked: the owner may be done with the pool.

**heartbeat.** Two threads, two heartbeats in flight, two restores, two faults,
uptimes up to 1: enough for an old answer handled after a new one, for a
restore that fails while the handler that posted it still holds the mutex, and
for a reboot that a failed heartbeat noticed. `RoutesRestored` relates the
restore to the switch: after the reboot, restores that fail are repeated until
one goes through all leases or is cut short. That a restore cut short is not
repeated is a weakness of the code; `exporter_restore` shows its most common
case. `TypeOK` says that one handler at a time holds `m_heartbeatMutex`. Deadlock is not checked: after a stop nothing more happens.

**hook_library.** Both compilers. Configurations that differ from a good one in
at most two parameters, so that one check can hide another, with intervals -5,
-1, 0, 1, 3 and 6. Words have 16 values and a second three milliseconds: 1 and
-1 fit, 3 overflows into a negative period, 6 and -5 into a positive one.
Documents of at most two responses, as the program sends at most two commands: a
single response with each defect, and a good one followed by a good one, an
error, a response with a null id or one without result; statuses 200, 401, 404,
500. Bodies in which at most one of the outer tables is written as an array,
which may be empty, and any of them may be missing, with every content of the
innermost ones: up to two paths or neighbours, each name present or absent, VLAN
interfaces and others. Uptimes at the ends of each range, so that every carry
happens. Deadlock is not checked: a crashed process stops.
`SingleRouteUsed` asks for the field a lookup needs, so that it covers the routes
the program installs itself: an address with an interface and no next hop, a
prefix with a next hop and no interface. `ActsOnReply` is about rows in any
number, except for the next hop of a prefix with several paths (below).

### Disagreements

The violated properties state what comments of the code say it does.

* *Race* (`exporter_race`, assumption `overlap` dropped). Selection and release
  of one address in quick succession: the removal is executed before the route
  is applied, and the route stays after the lease has ended.
* *Prefix move* (`exporter_prefix_move`). The old route is removed with the
  relay address as next hop; it was installed with the IA_NA address.
* *Several IAs* (`exporter_other_ia`). The old address is taken from the first
  IA_NA option of the message. For the second IA the handler sees an address
  change where there is none and removes the first IA's route.
* *Restore* (`exporter_restore`). The `return` in the IA_PD case leaves the
  handler, not the `switch` statement.
* *Missing table* (`exporter_crash`). Select, decline, and the expiry of the
  declined lease look up a route that is gone. The reply has no `TABLE_prefix`
  and the test for that is written with `&&` instead of `||`.
* *Second stop* (`pool_stop_twice`). `stopClient` followed by the destructor
  waits for a count of exited threads that never comes.

* *Negative interval* (`config_interval`). `load` accepts a negative
  `heartbeat-interval`, which its message "must be a non-zero non-negative
  integer" excludes, because the variable it tests is unsigned. For most of them
  the timer throws later, and the exception ends in `abort()`.

The run `hook_library` holds because its properties leave out or name what the
code does in some cases. They are worth knowing:

* a configuration without `heartbeat-interval` reads through a null pointer
  while the library is loaded, although 5 is meant as its default
  (`CrashHasReason` names it);
* an `https` host, which `load` accepts with all its checks of certificates,
  makes the start throw, which ends in `abort()`, too;
* the type of `keyfile` is not checked: line 107 reads `certificate` once more;
* in an array of paths, a row without next hop gets an empty string for one,
  left over from its interface name; the fuzzy removal of a prefix, which takes
  the "first ROW_path that have ipnexthop", may choose it (`ActsOnReply` makes no
  claim about such a lookup);
* neighbours are found only in a `ROW_adj` inside a `ROW_adj`;
* a neighbour whose hardware address is no address, a response without an id
  that is a number or a string, an empty array of responses and an empty body
  end a restore without `handlerFailed`, so that it is not repeated
  (`RestoreHeard` leaves them out, `RoutesRestored` names them as `cutShort`);
* status 500, which a comment wants ignored, falls through to the general case,
  where the exception of the JSON-RPC check counts as a failure (only logged).

### Fairness

Weak fairness of each pool thread (the operating system schedules it, and an
HTTP request ends, by its timeout if need be), of the owner inside a call, of
the repeating heartbeat timer, and, in `Heartbeat`, of the restore and its
failure callback in the management client's pool. Which way a request ends is
not part of it: `RestoreStep` is fair, not `RestoreEnds`. Nothing is assumed of
Kea, the clients, the switch or spurious wake-ups. `RoutesCatchUp` is stated for
runs without faults, since nothing is retried; `OutageRestored` and
`RoutesRestored` assume that the switch stays reachable from some point on.
`hook_library` has no liveness properties and no fairness.

## 4. Proofs

| Theorem | States | For every |
|---|---|---|
| `TypeCorrect` (DHCP6ExporterProofs) | `SafetySpec => []TypeOK` | clients, addresses, VLANs, threads, bound, set `Relaxed` |
| `RoutesSettle`, `ImplementsRouteTable` (RouteTableProofs) | `SettledRoutes`, `TableSpec` | the same, with `Relaxed = {}` |
| `RemovalsAreOfEnded`, `ActiveRoutesStay` (RouteTableProofs) | `RemovalsOfEnded`, `ActiveRouteKept` | the same, with any `Relaxed` without `overlap` and `otherIA` |
| `RoutesAreLeased` (LeaseHistoryProofs) | `HSpec => []OnlyLeasedRoutes` | the same as the first |
| `CountersExact`, `PoolTypeCorrect`, `JoinIsSafe`, `StartIsComplete`, `StopsAreFinal`, `ImplementsRequestPool` (HttpClientPoolProofs) | `PoolInv`, `TypeOK`, `JoinSafe`, `StartedAll`, `StopIsFinal`, `PoolSpec` | finite nonempty set of threads, numbers of starts and requests |
| `NoLostWakeUp` (HttpClientPoolProofs) | `WaitsForSomebody` | the same, with `StopTwice = FALSE` |
| `HeartbeatTypeCorrect`, `NoOutageForgotten`, `StopIsQuiet` (HeartbeatProofs) | `TypeOK`, `OutageRemembered`, `StoppedIsQuiet` | threads and bounds |
| `LibraryTypeCorrect`, `ConfigurationKept`, `CrashesHaveReasons`, `SuccessWasReported`, `UptimesCompare` (HookLibraryProofs) | `TypeOK`, `RunsAsConfigured`, `CrashHasReason`, `SuccessIsReal`, `HeartbeatIsTrue` | configurations, widths, documents, bodies, statuses |
| `LookupsActOnReplies`, `SingleRoutesActedUpon`, `RestoresHear`, `NeighborsReported` (HookLibraryProofs) | `ActsOnReply`, `SingleRouteUsed`, `RestoreHeard`, `NeighborsAreReal` | the same, with tables of any number of rows at every level, read by either compiler |

The assumptions are the named `ASSUME`s of the modules; TLC evaluates them in
the runs.

*Types.* `TypeOK` alone is not inductive: the handler of a lookup builds its
next request from the answer, so the answer has to be an endpoint whenever the
handler can run. `AnswersTyped` says so. `TypeCorrect` also covers the
handlers' use of the answer.

*Routes.* A route on the switch came from an apply request, that from the queue
or from a lookup's continuation, that from a callout or a restore. The inductive
invariant `HInv` follows the route back along this way: `QueueJustified` and
`WorkJustified` say that whatever will install a route is justified by a lease
of the history, and that the snapshot of a restore holds such leases only;
`LeasesHeld` ties the database to the history. Since the history only grows,
what was justified stays so, which is why losses, reorderings and overlapping
callouts do no harm.

*Route table.* With every assumption in force, `RequestsFit` says what each
request on its way owes its address: it is the only one for that address, it
installs if and only if the lease is active, it aims at an endpoint that is
right, and the switch holds that endpoint or none. `SettledRoutes` alone is not
inductive, since the step that ends a request needs to know what it did.
`RouteInv` joins the two with the types; one lemma per callout shows that a
changed lease posts the request that answers it, one per step of a request that
it keeps its promise. The refinement then follows step by step: only the
execution of a command changes the table, and a callout only changes addresses
at which the invariant has the table agree with the leases.

*Removals.* With losses, reboots and restores a request owes its address nothing:
the route may be gone, be there already, or go to an endpoint that is out of
date. One thing remains, and it is inductive with the types: who removes has no
lease (`RemovalsOfEnded`). A callout that posts a removal ends the lease of the
address in the same step, or finds it moved to another one; nobody leases the
address again while the removal is in the pool, unless callouts overlap; the
handler of a lookup passes the address on; a restore posts no removals. Hence
no executed removal names an address with a lease, which is `ActiveRoutesStay`.
Neither of its two assumptions can go: with `otherIA` a renewal removes the
route of the lease it has not looked at (run `exporter_other_ia`), and with
`overlap` an address is leased again in front of its removal.

*Pool.* `PoolInv` says that `m_runningThreads` is the number of threads in
the IOService, at all times, and `m_exitedThreads` that of the threads past
their last lock, from the end of a start to the end of the next stop. In
between it keeps the old value, which is harmless because no thread exits
while the state is RUNNING. With equal cardinalities of a finite set and its
subset, the owner's predicates give `JoinSafe` and `StartedAll`. `WaitInv` adds
that the owner found its counter short before it went to sleep, and that a stop
has told the threads and the IOService first; a notification comes with the step
that fills the counter, so the counter is short as long as the owner sleeps, and
some thread accounts for that. The one case in which none does is a stop that
finds an empty pool and the old value of `m_exitedThreads`, which needs a second
stop without a start between. The refinement of
`RequestPool` needs from it only that no thread runs a closure when the owner
leaves a stop.

*Heartbeat.* The mutex is exclusive because each handler begins with it free.
`HeartbeatInv` adds that a failure reported while a handler is in
the middle of triggering a restore waits for the mutex.

*Library.* `LibraryInv` is the conjunction of what a configuration that was
accepted satisfies in each phase (`ConfigInv`), the types of a reply under way
and, stage by stage, what has been checked of it (`ReplyInv`). The period is
exact because multiplication modulo `Word` is, for values that fit; that a
misconfigured interval cannot start a timer is the same fact read backwards.
`UptimesCompare` rests on a lemma that orders sums of days, hours, minutes and
seconds in their ranges.

`ReplyInv` also keeps where the outcome of a request comes from: `Validated` says
that what was checked is what `validateResponse` makes of the document, and
`Answered` that the response handler ran on that, so that a theorem about replies
is one about the operators of `NXOSStructs`, for any tables. `ReplyLemmas` follows
them down. A reader takes each row it returns from a row of its table, at every
level of the nest; therefore what a handler takes from a path, or the map a
restore works with, comes from a row of the innermost tables. Where every table
has one row there is one thing to read and both compilers read it, which is
`SingleRoutesActedUpon`. `TableAssumption` says that bodies are made of tables,
of which an object has one row and a missing one none.

The neighbours of a nest are collected with `FlattenSeq`, a recursive function.
`SequenceLemmas` proves what it contains (`FlattenRange`). The induction theorems
of the library take a predicate as a parameter, which the provers cannot
instantiate; the lemma goes by way of sets instead, and takes the least length at
which it fails, which exists because `<` is well-founded on the naturals.

Only model-checked: the liveness properties (`RoutesCatchUp`, `CallsReturn`,
`RequestsRun`, `OutageRestored`, `RoutesRestored`), since TLAPS does not reason
about fairness and ENABLED. For `CallsReturn`, `WaitsForSomebody` is proved, which
leaves to the model checker that the thread waited for is scheduled. Every other
property of a passing run is a theorem. The theorems on replies are about any
number of rows; the runs have up to two.

## 5. Not modelled

* Encoding of requests (`createRequestFromCommands`), `to_json`, which nothing
  calls, `InterfacesResponse`, which nothing reads, and the texts of exceptions.
* Rows in which a required member is missing or has the wrong type: a reader
  throws, as it does for a missing table.
* Logging, messages, `version`, `multi_threading_compatible`, `subnet6_select`:
  no state. `dhcp6_srv_configured` without an I/O service, which Kea does not do.
* `post_request_jsonrpc` and `event_queue`: not built.
* The order in which members are destroyed when `unload` ends a running service
  without `stopService`: the mutex and the timer go before the HTTP client, whose
  destructor is what ends the handlers.
* Time: heartbeat intervals and timeouts are only "eventually"; in particular the
  timeout of 10000, which the HTTP library takes for seconds.
* Exceptions that end a callout before it posts anything: `getRelay6LinkAddress(0)`
  of a message without relay (lines 60, 210, 265 and 316 of
  `dhcp6_exporter_impl.cpp`), an IA_NA option without address (329-331), an IA_PD
  option without prefix (355-357). Messages of the model are relayed and their IA
  options have one.
* The restore reads the leases of one subnet after another (lines 59-61 of
  `dhcp6_exporter_service.cpp`); `HandleNeighbors` reads all at once, as with one
  subnet.
* Callouts during a restore: without `overlap` only expiries come then, since a
  restore counts as a request for every address.
* Kea beyond the callouts it makes, and the switch beyond the commands used.

## 6. Plan

Done: the exporter, its history, the abstract route table and its refinement,
the pool and the abstract request pool, the heartbeat with reboots, the
configuration, the replies, their runs and proofs.

Left:

1. Composition of heartbeat and exporter, so that `ConnectionRestored` comes from
   the heartbeat's handler and not from the environment.
2. `unload` without `stopService`: destruction order as a protocol of its own.
3. `SettledRoutes` for IA_NA addresses when prefixes move or outlive their
   address: the invariant of an address does not depend on that, but its proof
   treats addresses and prefixes alike.
