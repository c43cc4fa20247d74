----------------------------- MODULE Heartbeat -----------------------------
(***************************************************************************)
(* NXOSHeartbeatService (src/nxos_heartbeat_service.cpp): a timer on Kea's *)
(* main thread asks the switch for its uptime through the service's own    *)
(* HTTP pool; the response handlers run in the pool's threads, several at  *)
(* a time and in any order, and serialise on m_heartbeatMutex.  A handler  *)
(* that finds the connection restored calls connectionRestoredHandler,     *)
(* which posts a restore to the management client's pool, where a failure  *)
(* ends in handlerFailedCallback.  The switch is external.                 *)
(***************************************************************************)
EXTENDS Integers, FiniteSets

CONSTANTS
    Workers,       \* threads that run heartbeats: the service's HTTP pool,
                   \* and its owner while a stop is in poll()
    MaxUptime,     \* bound: the largest uptime of the switch
    MaxHeartbeats, \* bound: heartbeats posted and not answered
    MaxRestores,   \* bound: restores posted and not finished
    MaxFaults      \* bound: outages, lost or empty replies

ASSUME HeartbeatAssumption ==
    /\ MaxUptime \in Nat /\ MaxHeartbeats \in Nat
    /\ MaxRestores \in Nat /\ MaxFaults \in Nat

VARIABLES
    m_prevLostConnection,
    m_prevUptimeSecs,
    timer,        \* m_timer is set up
    posted,       \* heartbeats in the pool's queue
    pc,           \* what each pool thread is doing
    uptime,       \* the uptime in the reply each pool thread holds, or 0
    restores,     \* restores in the management client's pool
    callbacks,    \* threads of that pool waiting in handlerFailedCallback
    main,         \* the owner: "running", "stopping" or "stopped"
    up, uptimeSecs, \* the switch answers, and since when it runs
    faults,       \* for the bound
    owed,         \* ghost: an outage or failed restore no restore followed
    noticed,      \* ghost: a heartbeat has failed during the outage
    routesLost,   \* ghost: a noticed reboot, and no complete restore since
    cutShort      \* ghost: a restore has ended early and silently since then

switchVars == <<up, uptimeSecs>>
ghosts == <<owed, noticed, routesLost, cutShort>>
vars == <<m_prevLostConnection, m_prevUptimeSecs, timer, posted, pc, uptime,
          restores, callbacks, main, up, uptimeSecs, faults, ghosts>>

(* sent: in cli.Post; replied, failed: about to enter the handler;         *)
(* restoring: in the handler, between lines 111 and 123, with the mutex.   *)
PCs == {"idle", "sent", "replied", "failed", "restoring"}

(* m_heartbeatMutex is held by one handler at a time, also while it calls  *)
(* connectionRestoredHandler and other answers come in.                    *)
TypeOK ==
    /\ m_prevLostConnection \in BOOLEAN
    /\ m_prevUptimeSecs \in Nat
    /\ timer \in BOOLEAN
    /\ posted \in Nat /\ restores \in Nat /\ callbacks \in Nat /\ faults \in Nat
    /\ pc \in [Workers -> PCs]
    /\ uptime \in [Workers -> Nat]
    /\ main \in {"running", "stopping", "stopped"}
    /\ up \in BOOLEAN /\ uptimeSecs \in Nat
    /\ owed \in BOOLEAN /\ noticed \in BOOLEAN
    /\ routesLost \in BOOLEAN /\ cutShort \in BOOLEAN
    /\ \A v, w \in Workers : pc[v] = "restoring" /\ pc[w] = "restoring" => v = w

(* startService has returned: the pool runs and the timer is set up.       *)
Init ==
    /\ m_prevLostConnection = TRUE
    /\ m_prevUptimeSecs = 0
    /\ timer = TRUE
    /\ posted = 0 /\ restores = 0 /\ callbacks = 0 /\ faults = 0
    /\ pc = [w \in Workers |-> "idle"]
    /\ uptime = [w \in Workers |-> 0]
    /\ main = "running"
    /\ up \in BOOLEAN /\ uptimeSecs \in 0 .. MaxUptime
    /\ owed = TRUE /\ noticed = FALSE
    /\ routesLost = FALSE /\ cutShort = FALSE

MutexFree == \A w \in Workers : pc[w] # "restoring"

Fault == faults < MaxFaults /\ faults' = faults + 1

----------------------------------------------------------------------------
(* The heartbeat.                                                          *)

InFlight == posted + Cardinality({w \in Workers : pc[w] # "idle"})

(* The timer expires and heartbeatLoop posts a request.  It does not wait  *)
(* for the answer to the previous one.                                     *)
heartbeatLoop ==
    /\ main = "running" /\ timer
    /\ InFlight < MaxHeartbeats
    /\ posted' = posted + 1
    /\ UNCHANGED <<m_prevLostConnection, m_prevUptimeSecs, timer, pc, uptime,
                   restores, callbacks, main, switchVars, faults, ghosts>>

Take(w) ==
    /\ posted > 0 /\ pc[w] = "idle"
    /\ posted' = posted - 1
    /\ pc' = [pc EXCEPT ![w] = "sent"]
    /\ UNCHANGED <<m_prevLostConnection, m_prevUptimeSecs, timer, uptime,
                   restores, callbacks, main, switchVars, faults, ghosts>>

(* The switch answers "show version", or is down and the request times     *)
(* out.                                                                    *)
Answer(w) ==
    /\ pc[w] = "sent"
    /\ pc' = [pc EXCEPT ![w] = IF up THEN "replied" ELSE "failed"]
    /\ uptime' = [uptime EXCEPT ![w] = IF up THEN uptimeSecs ELSE 0]
    /\ noticed' = (noticed \/ ~up)
    /\ UNCHANGED <<m_prevLostConnection, m_prevUptimeSecs, timer, posted,
                   restores, callbacks, main, switchVars, faults, owed,
                   routesLost, cutShort>>

(* An answer is lost on its way, or is one the JSON-RPC checks refuse, or  *)
(* has an empty body: then validateResponse throws and no handler runs.    *)
BadAnswer(w) ==
    /\ pc[w] = "sent" /\ up
    /\ Fault
    /\ \E after \in {"failed", "idle"} : pc' = [pc EXCEPT ![w] = after]
    /\ UNCHANGED <<m_prevLostConnection, m_prevUptimeSecs, timer, posted, uptime,
                   restores, callbacks, main, switchVars, ghosts>>

(* The response handler on a failed connection.                            *)
HandleFailed(w) ==
    /\ pc[w] = "failed" /\ MutexFree
    /\ m_prevLostConnection' = TRUE
    /\ owed' = TRUE
    /\ pc' = [pc EXCEPT ![w] = "idle"]
    /\ UNCHANGED <<m_prevUptimeSecs, timer, posted, uptime, restores, callbacks,
                   main, switchVars, faults, noticed, routesLost, cutShort>>

Restarted(w) == m_prevLostConnection \/ uptime[w] < m_prevUptimeSecs

(* The response handler on a good answer that shows nothing new.           *)
HandleAlive(w) ==
    /\ pc[w] = "replied" /\ MutexFree /\ ~Restarted(w)
    /\ m_prevUptimeSecs' = uptime[w]
    /\ m_prevLostConnection' = FALSE
    /\ pc' = [pc EXCEPT ![w] = "idle"]
    /\ uptime' = [uptime EXCEPT ![w] = 0]
    /\ UNCHANGED <<timer, posted, restores, callbacks, main, switchVars,
                   faults, ghosts>>

(* Mutation of HandleRestored: the handler does not take the mutex.        *)
HandleRestoredUnlocked(w) ==
    /\ pc[w] = "replied" /\ Restarted(w)
    /\ restores < MaxRestores
    /\ timer' = FALSE
    /\ restores' = restores + 1
    /\ owed' = FALSE
    /\ pc' = [pc EXCEPT ![w] = "restoring"]
    /\ uptime' = [uptime EXCEPT ![w] = 0]
    /\ UNCHANGED <<m_prevLostConnection, m_prevUptimeSecs, posted, callbacks,
                   main, switchVars, faults, noticed, routesLost, cutShort>>

(* The response handler cancels the timer and calls                        *)
(* connectionRestoredHandler, which posts the restore ...                  *)
HandleRestored(w) ==
    /\ pc[w] = "replied" /\ MutexFree /\ Restarted(w)
    /\ restores < MaxRestores
    /\ timer' = FALSE
    /\ restores' = restores + 1
    /\ owed' = FALSE
    /\ pc' = [pc EXCEPT ![w] = "restoring"]
    /\ uptime' = [uptime EXCEPT ![w] = 0]
    /\ UNCHANGED <<m_prevLostConnection, m_prevUptimeSecs, posted, callbacks,
                   main, switchVars, faults, noticed, routesLost, cutShort>>

(* Mutation of HandleRestoredEnd: the timer stays cancelled.               *)
HandleRestoredEndNoTimer(w) ==
    /\ pc[w] = "restoring"
    /\ m_prevUptimeSecs' = 0
    /\ m_prevLostConnection' = FALSE
    /\ pc' = [pc EXCEPT ![w] = "idle"]
    /\ UNCHANGED <<timer, posted, uptime, restores, callbacks, main, switchVars,
                   faults, ghosts>>

(* ... and then forgets the outage, sets the timer up again and gives the  *)
(* mutex back.                                                             *)
HandleRestoredEnd(w) ==
    /\ pc[w] = "restoring"
    /\ m_prevUptimeSecs' = 0
    /\ m_prevLostConnection' = FALSE
    /\ timer' = TRUE
    /\ pc' = [pc EXCEPT ![w] = "idle"]
    /\ UNCHANGED <<posted, uptime, restores, callbacks, main, switchVars,
                   faults, ghosts>>

----------------------------------------------------------------------------
(* The restore, as the management client's pool runs it.                   *)

(* The ND lookup is answered and the handler goes through all leases       *)
(* (module DHCP6Exporter has the detail).                                  *)
RestoreEnds ==
    /\ restores > 0 /\ up
    /\ restores' = restores - 1
    /\ routesLost' = FALSE
    /\ UNCHANGED <<m_prevLostConnection, m_prevUptimeSecs, timer, posted, pc,
                   uptime, callbacks, main, switchVars, faults, owed, noticed,
                   cutShort>>

LookupFails == (up /\ Fault) \/ (~up /\ UNCHANGED faults)

(* Mutation of RestoreFails: the thread does not call handlerFailed.       *)
RestoreFailsSilently ==
    /\ restores > 0
    /\ LookupFails
    /\ restores' = restores - 1
    /\ UNCHANGED <<m_prevLostConnection, m_prevUptimeSecs, timer, posted, pc,
                   uptime, callbacks, main, switchVars, ghosts>>

(* The ND lookup fails and the thread calls handlerFailed.                 *)
RestoreFails ==
    /\ restores > 0
    /\ LookupFails
    /\ restores' = restores - 1
    /\ callbacks' = callbacks + 1
    /\ owed' = TRUE
    /\ UNCHANGED <<m_prevLostConnection, m_prevUptimeSecs, timer, posted, pc,
                   uptime, main, switchVars, noticed, routesLost, cutShort>>

(* Something ends the restore early without a call of handlerFailed.  The  *)
(* answer to the ND lookup has an empty body, or no id or no result: then  *)
(* an exception passes by the handlers.  A hardware address in it cannot   *)
(* be read, or a lease has none: they throw as well.  Or the handler       *)
(* returns at line 124 of the service with leases left.                    *)
RestoreCutShort ==
    /\ restores > 0 /\ up
    /\ restores' = restores - 1
    /\ cutShort' = TRUE
    /\ UNCHANGED <<m_prevLostConnection, m_prevUptimeSecs, timer, posted, pc,
                   uptime, callbacks, main, switchVars, faults, owed, noticed,
                   routesLost>>

(* Mutation of handlerFailedCallback: without the mutex.                   *)
handlerFailedCallbackUnlocked ==
    /\ callbacks > 0
    /\ m_prevLostConnection' = TRUE
    /\ callbacks' = callbacks - 1
    /\ UNCHANGED <<m_prevUptimeSecs, timer, posted, pc, uptime, restores, main,
                   switchVars, faults, ghosts>>

handlerFailedCallback ==
    /\ callbacks > 0 /\ MutexFree
    /\ m_prevLostConnection' = TRUE
    /\ callbacks' = callbacks - 1
    /\ UNCHANGED <<m_prevUptimeSecs, timer, posted, pc, uptime, restores, main,
                   switchVars, faults, ghosts>>

----------------------------------------------------------------------------
(* stopService: stop the pool, which ends every handler, and then cancel   *)
(* the timer.  Kea's main thread runs it, so the timer cannot expire       *)
(* meanwhile.                                                              *)

StopPool ==
    /\ main = "running"
    /\ main' = "stopping"
    /\ UNCHANGED <<m_prevLostConnection, m_prevUptimeSecs, timer, posted, pc,
                   uptime, restores, callbacks, switchVars, faults, ghosts>>

(* Mutation of CancelTimer: before the pool's threads are joined.          *)
CancelTimerEarly ==
    /\ main = "stopping"
    /\ timer' = FALSE
    /\ main' = "stopped"
    /\ UNCHANGED <<m_prevLostConnection, m_prevUptimeSecs, posted, pc, uptime,
                   restores, callbacks, switchVars, faults, ghosts>>

(* stopClient has joined the pool's threads; what its poll() left in the   *)
(* queue is dropped.                                                       *)
CancelTimer ==
    /\ main = "stopping"
    /\ \A w \in Workers : pc[w] = "idle"
    /\ posted' = 0
    /\ timer' = FALSE
    /\ main' = "stopped"
    /\ UNCHANGED <<m_prevLostConnection, m_prevUptimeSecs, pc, uptime, restores,
                   callbacks, switchVars, faults, ghosts>>

----------------------------------------------------------------------------
(* The switch (external).                                                  *)

SwitchDown ==
    /\ up /\ Fault
    /\ up' = FALSE
    /\ UNCHANGED <<m_prevLostConnection, m_prevUptimeSecs, timer, posted, pc,
                   uptime, restores, callbacks, main, uptimeSecs, ghosts>>

(* The connection comes back ...                                           *)
SwitchUp ==
    /\ ~up
    /\ up' = TRUE
    /\ noticed' = FALSE
    /\ UNCHANGED <<m_prevLostConnection, m_prevUptimeSecs, timer, posted, pc,
                   uptime, restores, callbacks, main, uptimeSecs, faults, owed,
                   routesLost, cutShort>>

(* ... with the switch rebooted, so that its static routes are gone.  The  *)
(* service may have noticed nothing of it; only a reboot in whose outage a *)
(* heartbeat failed is counted in routesLost.                              *)
SwitchRebooted ==
    /\ ~up
    /\ up' = TRUE
    /\ uptimeSecs' = 0
    /\ routesLost' = (routesLost \/ noticed)
    /\ cutShort' = (cutShort /\ ~noticed)
    /\ noticed' = FALSE
    /\ UNCHANGED <<m_prevLostConnection, m_prevUptimeSecs, timer, posted, pc,
                   uptime, restores, callbacks, main, faults, owed>>

Clock ==
    /\ uptimeSecs < MaxUptime
    /\ uptimeSecs' = uptimeSecs + 1
    /\ UNCHANGED <<m_prevLostConnection, m_prevUptimeSecs, timer, posted, pc,
                   uptime, restores, callbacks, main, up, faults, ghosts>>

----------------------------------------------------------------------------
(* The specification.                                                      *)

HandlerStep(w) ==
    HandleFailed(w) \/ HandleAlive(w) \/ HandleRestored(w) \/ HandleRestoredEnd(w)

WorkerStep(w) == Take(w) \/ Answer(w) \/ HandlerStep(w)

RestoreStep == RestoreEnds \/ RestoreFails \/ RestoreCutShort

Next ==
    \/ heartbeatLoop
    \/ \E w \in Workers : WorkerStep(w) \/ BadAnswer(w)
    \/ RestoreStep \/ handlerFailedCallback
    \/ StopPool \/ CancelTimer
    \/ SwitchDown \/ SwitchUp \/ SwitchRebooted \/ Clock

(* The timer is a repeating one, the threads of both pools are scheduled   *)
(* and every HTTP request ends, by a timeout if need be.                   *)
Fairness ==
    /\ WF_vars(heartbeatLoop) /\ WF_vars(CancelTimer)
    /\ WF_vars(RestoreStep) /\ WF_vars(handlerFailedCallback)
    /\ \A w \in Workers : WF_vars(WorkerStep(w))

SafetySpec == Init /\ [][Next]_vars
Spec       == SafetySpec /\ Fairness

----------------------------------------------------------------------------
(* Properties.                                                             *)

(* No outage is forgotten: as long as no restore has followed a failed     *)
(* heartbeat or a failed restore, the flag that demands one is set, or     *)
(* the callback that sets it waits for the mutex.  The handler that        *)
(* clears the flag at line 121 must not undo a failure reported while it   *)
(* was posting the restore.                                                *)
OutageRemembered == owed => m_prevLostConnection \/ callbacks > 0

(* After stopService nothing can post a heartbeat again: the handlers that *)
(* set the timer up anew are gone before it is cancelled.                  *)
StoppedIsQuiet ==
    main = "stopped" => ~timer /\ \A w \in Workers : pc[w] = "idle"

(* The strengthening that makes both inductive: a failure reported while a *)
(* handler is between lines 111 and 123 waits for the mutex, and a stopped *)
(* service has no heartbeat left to take.                                  *)
HeartbeatInv ==
    /\ OutageRemembered
    /\ owed /\ ~MutexFree => callbacks > 0
    /\ StoppedIsQuiet
    /\ main = "stopped" => posted = 0

(* With a switch that stays reachable every outage and every failed        *)
(* restore is followed by a restore, unless the service is stopped.        *)
OutageRestored == <>[]up => (owed ~> ~owed \/ main # "running")

(* ... and that restore is run: after a reboot in whose outage a heartbeat *)
(* failed, a restore gets its lookup answered and goes through all leases  *)
(* once the switch is up again, however old the answers are that other     *)
(* handlers still hold, unless a restore is cut short after the reboot.    *)
(* That is not noticed anywhere and nothing repeats it; a restore whose    *)
(* lookup fails, on the other hand, has to be repeated.                    *)
RoutesRestored ==
    <>[]up => (routesLost ~> ~routesLost \/ cutShort \/ main # "running")

=============================================================================
