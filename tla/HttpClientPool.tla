--------------------------- MODULE HttpClientPool ---------------------------
(***************************************************************************)
(* The thread pool of NXOSHttpClientImpl (src/nxos_http_client.cpp): its   *)
(* threads run the client's own IOService, the owner starts and stops them *)
(* with setThreadsState, and the two sides meet over one mutex, one        *)
(* condition variable and three counters.  The IOService is external: a    *)
(* queue of closures, of which only the number matters here.  It holds a   *)
(* work guard, so run() returns only when the service is stopped or a      *)
(* closure throws.                                                         *)
(*                                                                         *)
(* A section under m_mutexThreadPool is one step, except where the owner   *)
(* keeps the mutex for long: in poll() and in join().                      *)
(***************************************************************************)
EXTENDS Integers, FiniteSets

CONSTANTS
    Threads,      \* the threads a full pool has; m_poolSize is their number
    MaxStarts,    \* bound: calls of startClient
    MaxPosts,     \* bound: closures posted to the IOService
    StopTwice     \* the owner stops the pool and then destroys the client

ASSUME PoolAssumption ==
    /\ IsFiniteSet(Threads) /\ Threads # {}
    /\ MaxStarts \in Nat /\ MaxPosts \in Nat
    /\ StopTwice \in BOOLEAN

VARIABLES
    m_threadsState,     \* "RUNNING" or "STOPPED"
    m_threadPool,       \* threads created and not yet joined
    m_runningThreads,
    m_exitedThreads,
    stopped,            \* m_ioService->stopped()
    queue,              \* closures in the IOService
    pc,                 \* where each thread is in threadLoop
    main,               \* where the owner is in setThreadsState
    starts, posts       \* for the bounds

serviceVars == <<stopped, queue, posts>>
vars == <<m_threadsState, m_threadPool, m_runningThreads, m_exitedThreads,
          stopped, queue, pc, main, starts, posts>>

poolSize == Cardinality(Threads)

(* none: not created; check: reads m_threadsState; enter: before the lock  *)
(* of line 60; run: waits in m_ioService->run(); exec: runs a closure;     *)
(* leave: before the lock of line 73; exit: before the lock of line 84;    *)
(* returning: past it; done: the thread has ended.                         *)
Serving  == {"run", "exec", "leave"}
Exited   == {"returning", "done"}
PCs      == {"none", "check", "enter", "exit"} \cup Serving \cup Exited

(* idle, up: outside setThreadsState; waitRun, waitExit: in m_cv.wait;     *)
(* wokenRun, wokenExit: notified, about to take the mutex again; polling,  *)
(* pollExec: in m_ioService->poll(); joining: past the wait of line 122.   *)
Holding  == {"polling", "pollExec", "joining"}
Waiting  == {"waitRun", "waitExit"}
Woken    == {"wokenRun", "wokenExit"}
Mains    == {"idle", "up"} \cup Waiting \cup Woken \cup Holding

TypeOK ==
    /\ m_threadsState \in {"RUNNING", "STOPPED"}
    /\ m_threadPool \in SUBSET Threads
    /\ m_runningThreads \in 0 .. poolSize /\ m_exitedThreads \in 0 .. poolSize
    /\ stopped \in BOOLEAN
    /\ queue \in Nat /\ posts \in Nat /\ starts \in Nat
    /\ pc \in [Threads -> PCs]
    /\ main \in Mains

Init ==
    /\ m_threadsState = "STOPPED"
    /\ m_threadPool = {}
    /\ m_runningThreads = 0 /\ m_exitedThreads = 0
    /\ stopped = FALSE
    /\ queue = 0 /\ posts = 0 /\ starts = 0
    /\ pc = [t \in Threads |-> "none"]
    /\ main = "idle"

MutexFree == main \notin Holding

(* m_cv.notify_all when the condition holds; nobody but the owner waits.   *)
NotifyIf(condition) ==
    main' = IF ~condition THEN main
            ELSE IF main = "waitRun" THEN "wokenRun"
            ELSE IF main = "waitExit" THEN "wokenExit"
            ELSE main

(* sendRequest: post one more closure.                                     *)
PostOne == posts < MaxPosts /\ posts' = posts + 1

----------------------------------------------------------------------------
(* threadLoop.                                                             *)

(* The switch statement: getThreadsState takes no lock.                    *)
Check(t) ==
    /\ pc[t] = "check"
    /\ pc' = [pc EXCEPT ![t] = IF m_threadsState = "RUNNING" THEN "enter" ELSE "exit"]
    /\ UNCHANGED <<m_threadsState, m_threadPool, m_runningThreads,
                   m_exitedThreads, serviceVars, main, starts>>

Enter(t) ==
    /\ pc[t] = "enter" /\ MutexFree
    /\ pc' = [pc EXCEPT ![t] = "run"]
    /\ m_runningThreads' = m_runningThreads + 1
    /\ NotifyIf(m_runningThreads' = poolSize)
    /\ UNCHANGED <<m_threadsState, m_threadPool, m_exitedThreads, serviceVars, starts>>

(* run() dequeues a closure, or returns once the service is stopped.       *)
Run(t) ==
    /\ pc[t] = "run"
    /\ \/ /\ stopped
          /\ pc' = [pc EXCEPT ![t] = "leave"]
          /\ UNCHANGED queue
       \/ /\ ~stopped /\ queue > 0
          /\ pc' = [pc EXCEPT ![t] = "exec"]
          /\ queue' = queue - 1
    /\ UNCHANGED <<m_threadsState, m_threadPool, m_runningThreads,
                   m_exitedThreads, stopped, posts, main, starts>>

(* The closure ends normally or with an exception, which leaves run();     *)
(* before that its response handler may have posted the next request.      *)
Exec(t) ==
    /\ pc[t] = "exec"
    /\ \E after \in {"run", "leave"} : pc' = [pc EXCEPT ![t] = after]
    /\ \/ PostOne /\ queue' = queue + 1
       \/ UNCHANGED <<queue, posts>>
    /\ UNCHANGED <<m_threadsState, m_threadPool, m_runningThreads,
                   m_exitedThreads, stopped, main, starts>>

(* Mutations of Leave: the catch goes on with the loop, past the decrement *)
(* of line 74 ...                                                          *)
LeaveUncounted(t) ==
    /\ pc[t] = "leave"
    /\ pc' = [pc EXCEPT ![t] = "check"]
    /\ UNCHANGED <<m_threadsState, m_threadPool, m_runningThreads,
                   m_exitedThreads, serviceVars, main, starts>>

(* ... or an exception ends the thread, not just run().                    *)
LeaveForGood(t) ==
    /\ pc[t] = "leave" /\ MutexFree
    /\ pc' = [pc EXCEPT ![t] = "exit"]
    /\ m_runningThreads' = m_runningThreads - 1
    /\ UNCHANGED <<m_threadsState, m_threadPool, m_exitedThreads,
                   serviceVars, main, starts>>

Leave(t) ==
    /\ pc[t] = "leave" /\ MutexFree
    /\ pc' = [pc EXCEPT ![t] = "check"]
    /\ m_runningThreads' = m_runningThreads - 1
    /\ UNCHANGED <<m_threadsState, m_threadPool, m_exitedThreads,
                   serviceVars, main, starts>>

(* Mutation of Exit: the test sees the counter before its increment.       *)
ExitNotifiesLate(t) ==
    /\ pc[t] = "exit" /\ MutexFree
    /\ pc' = [pc EXCEPT ![t] = "returning"]
    /\ m_exitedThreads' = m_exitedThreads + 1
    /\ NotifyIf(m_exitedThreads = Cardinality(m_threadPool))
    /\ UNCHANGED <<m_threadsState, m_threadPool, m_runningThreads, serviceVars, starts>>

Exit(t) ==
    /\ pc[t] = "exit" /\ MutexFree
    /\ pc' = [pc EXCEPT ![t] = "returning"]
    /\ m_exitedThreads' = m_exitedThreads + 1
    /\ NotifyIf(m_exitedThreads' = Cardinality(m_threadPool))
    /\ UNCHANGED <<m_threadsState, m_threadPool, m_runningThreads, serviceVars, starts>>

Return(t) ==
    /\ pc[t] = "returning"
    /\ pc' = [pc EXCEPT ![t] = "done"]
    /\ UNCHANGED <<m_threadsState, m_threadPool, m_runningThreads,
                   m_exitedThreads, serviceVars, main, starts>>

----------------------------------------------------------------------------
(* setThreadsState.                                                        *)

(* startClient: restart the service, fill the empty pool and wait, since   *)
(* the new threads are not running yet.                                    *)
startClient ==
    /\ main = "idle" /\ starts < MaxStarts
    /\ starts' = starts + 1
    /\ m_threadsState' = "RUNNING"
    /\ stopped' = FALSE
    /\ m_threadPool' = Threads
    /\ pc' = [t \in Threads |-> "check"]
    /\ main' = "waitRun"
    /\ UNCHANGED <<m_runningThreads, m_exitedThreads, queue, posts>>

(* Mutations of WakeInStart: m_exitedThreads is not reset ...              *)
WakeInStartNoReset ==
    /\ main = "wokenRun"
    /\ main' = IF m_runningThreads = Cardinality(m_threadPool) THEN "up" ELSE "waitRun"
    /\ UNCHANGED <<m_threadsState, m_threadPool, m_runningThreads,
                   m_exitedThreads, serviceVars, pc, starts>>

(* ... or the wait has no predicate.                                       *)
WakeInStartNoPredicate ==
    /\ main = "wokenRun"
    /\ main' = "up" /\ m_exitedThreads' = 0
    /\ UNCHANGED <<m_threadsState, m_threadPool, m_runningThreads,
                   serviceVars, pc, starts>>

(* The owner has the mutex again and tests the predicate of its wait.      *)
WakeInStart ==
    /\ main = "wokenRun"
    /\ IF m_runningThreads = Cardinality(m_threadPool)
       THEN main' = "up" /\ m_exitedThreads' = 0
       ELSE main' = "waitRun" /\ UNCHANGED m_exitedThreads
    /\ UNCHANGED <<m_threadsState, m_threadPool, m_runningThreads,
                   serviceVars, pc, starts>>

(* Mutation of AwaitExits: lines 122 to 127 are missing, so that the owner *)
(* goes on while threads still run requests.                               *)
AwaitNobody == main' = IF main = "wokenExit" THEN "idle" ELSE "wokenExit"

(* The wait of line 122, on entry and on every wake-up.                    *)
AwaitExits ==
    main' = IF m_exitedThreads = Cardinality(m_threadPool) THEN "joining" ELSE "waitExit"

(* Mutation of stopClient: the threads are not told.                       *)
stopClientUntold ==
    /\ main = "up" \/ (main = "idle" /\ (StopTwice \/ starts = 0))
    /\ IF stopped THEN AwaitExits ELSE main' = "polling"
    /\ UNCHANGED <<m_threadsState, m_threadPool, m_runningThreads, m_exitedThreads,
                   serviceVars, pc, starts>>

(* stopClient and the destructor: poll() comes first unless the service is *)
(* stopped already.                                                        *)
stopClient ==
    /\ main = "up" \/ (main = "idle" /\ (StopTwice \/ starts = 0))
    /\ m_threadsState' = "STOPPED"
    /\ IF stopped THEN AwaitExits ELSE main' = "polling"
    /\ UNCHANGED <<m_threadPool, m_runningThreads, m_exitedThreads,
                   serviceVars, pc, starts>>

(* poll() runs what is in the queue on the owner's thread, which keeps the *)
(* mutex, and returns when the queue is empty; then the service stops.     *)
StopService ==
    /\ stopped' = TRUE
    /\ AwaitExits
    /\ UNCHANGED <<queue, posts>>

Poll ==
    /\ main = "polling"
    /\ \/ queue > 0 /\ queue' = queue - 1 /\ main' = "pollExec" /\ UNCHANGED <<stopped, posts>>
       \/ queue = 0 /\ StopService
    /\ UNCHANGED <<m_threadsState, m_threadPool, m_runningThreads,
                   m_exitedThreads, pc, starts>>

(* A closure that throws ends poll(), with the rest still in the queue.    *)
PollExec ==
    /\ main = "pollExec"
    /\ \/ main' = "polling" /\ UNCHANGED serviceVars
       \/ main' = "polling" /\ PostOne /\ queue' = queue + 1 /\ UNCHANGED stopped
       \/ StopService
    /\ UNCHANGED <<m_threadsState, m_threadPool, m_runningThreads,
                   m_exitedThreads, pc, starts>>

WakeInStop ==
    /\ main = "wokenExit"
    /\ AwaitExits
    /\ UNCHANGED <<m_threadsState, m_threadPool, m_runningThreads,
                   m_exitedThreads, serviceVars, pc, starts>>

(* thread->join() for all of them, under the mutex, and clear().           *)
Join ==
    /\ main = "joining"
    /\ \A t \in m_threadPool : pc[t] = "done"
    /\ m_threadPool' = {}
    /\ pc' = [t \in Threads |-> "none"]
    /\ main' = "idle"
    /\ UNCHANGED <<m_threadsState, m_runningThreads, m_exitedThreads,
                   serviceVars, starts>>

(* A wait may also end without a notification.                             *)
SpuriousWakeUp ==
    /\ main \in Waiting
    /\ main' = IF main = "waitRun" THEN "wokenRun" ELSE "wokenExit"
    /\ UNCHANGED <<m_threadsState, m_threadPool, m_runningThreads,
                   m_exitedThreads, serviceVars, pc, starts>>

(* sendRequest posts to the IOService without the mutex, and without       *)
(* asking in which state the pool is: a callout or a heartbeat may post    *)
(* while the pool stops and after that (DHCP6ExporterService::stopService  *)
(* stops this pool first and the heartbeat later).                         *)
sendRequest ==
    /\ PostOne
    /\ queue' = queue + 1
    /\ UNCHANGED <<m_threadsState, m_threadPool, m_runningThreads,
                   m_exitedThreads, stopped, pc, main, starts>>

----------------------------------------------------------------------------
(* The specification.                                                      *)

ThreadStep(t) ==
    Check(t) \/ Enter(t) \/ Run(t) \/ Exec(t) \/ Leave(t) \/ Exit(t) \/ Return(t)

MainStep == WakeInStart \/ Poll \/ PollExec \/ WakeInStop \/ Join

Next ==
    \/ \E t \in Threads : ThreadStep(t)
    \/ MainStep
    \/ startClient \/ stopClient \/ sendRequest \/ SpuriousWakeUp

(* Every thread is scheduled, and so is the owner inside a call; nobody    *)
(* owes a call, and no wait may count on a spurious wake-up.               *)
Fairness == WF_vars(MainStep) /\ \A t \in Threads : WF_vars(ThreadStep(t))

SafetySpec == Init /\ [][Next]_vars
Spec       == SafetySpec /\ Fairness

----------------------------------------------------------------------------
(* Properties.                                                             *)

ThreadsAt(locations) == {t \in Threads : pc[t] \in locations}

(* The owner joins with the mutex in its hand (line 125), so it must not   *)
(* get there while a thread still has to take that mutex: the counter it   *)
(* waited for has to mean that every thread of the pool is past its last   *)
(* lock, over any number of starts and stops.                              *)
JoinSafe == main = "joining" => \A t \in m_threadPool : pc[t] \in Exited

(* The owner never sleeps over what has happened already: while it waits   *)
(* for the threads to run or to exit, one of them has not, and finds the   *)
(* state and the IOService as it needs them to get there.                  *)
WaitsForSomebody ==
    /\ main = "waitRun" =>
          m_threadsState = "RUNNING" /\ \E t \in m_threadPool : pc[t] \in {"check", "enter"}
    /\ main = "waitExit" =>
          /\ m_threadsState = "STOPPED" /\ stopped
          /\ \E t \in m_threadPool : pc[t] \notin Exited

(* While the owner waits for the exits no thread begins another request,   *)
(* and none that has left the IOService goes back for more, although what  *)
(* was not run is still in the queue and more may be posted.  A thread     *)
(* that had read m_threadsState before the stop (line 57) may still call   *)
(* run(), which returns at once.                                           *)
OutOfService == {"leave", "check", "exit"} \cup Exited

StaysOut(t) ==
    /\ pc'[t] = "exec" => pc[t] = "exec"
    /\ pc[t] \in OutOfService => pc'[t] \in OutOfService

StopIsFinal ==
    [][(main = "waitExit" \/ main = "wokenExit") =>
          \A t \in m_threadPool : StaysOut(t)]_vars

(* startClient returns only when every thread of the pool has been counted *)
(* into the IOService and not out of it again, although closures that      *)
(* throw take threads out of run().                                        *)
StartedAll ==
    [][main # "up" /\ main' = "up" => \A t \in Threads : pc'[t] \in Serving]_vars

(* The inductive invariant behind both: m_runningThreads counts the        *)
(* threads in the IOService at all times, m_exitedThreads those past their *)
(* last lock from the end of a start to the end of the next stop; between  *)
(* a stop and the end of the next start it keeps the old value, and then   *)
(* no thread may exit.                                                     *)
Stopping == {"polling", "pollExec", "waitExit", "wokenExit", "joining"}

PoolInv ==
    /\ m_runningThreads = Cardinality(ThreadsAt(Serving))
    /\ m_exitedThreads \in 0 .. poolSize
    /\ m_threadPool \in {{}, Threads}
    /\ \A t \in Threads : pc[t] = "none" <=> m_threadPool = {}
    /\ main = "idle" => m_threadPool = {}
    /\ main \in {"waitRun", "wokenRun", "up"} =>
          /\ m_threadPool = Threads
          /\ m_threadsState = "RUNNING"
          /\ ThreadsAt({"exit"} \cup Exited) = {}
    /\ main = "up" => m_exitedThreads = 0
    /\ main \in Stopping /\ m_threadPool = Threads =>
          m_exitedThreads = Cardinality(ThreadsAt(Exited))
    /\ main = "joining" => m_exitedThreads = Cardinality(m_threadPool)

(* What the waits rest on besides: the owner sleeps only after it has      *)
(* found its counter short, and a stop tells the threads and the IOService *)
(* first.  A stop finds the counter of the exits old only in a second stop *)
(* without a start between.                                                *)
WaitInv ==
    /\ main = "waitRun" => m_runningThreads # poolSize
    /\ main = "waitExit" => m_exitedThreads # Cardinality(m_threadPool)
    /\ main \in Stopping => m_threadsState = "STOPPED"
    /\ main \in {"waitExit", "wokenExit", "joining"} => stopped
    /\ starts = 0 => m_threadPool = {} /\ m_exitedThreads = 0
    /\ main \in Stopping /\ ~StopTwice => m_threadPool = Threads \/ m_exitedThreads = 0

(* The pool implements the abstract one: whatever the order in which the   *)
(* threads and the owner take the mutex, and whenever requests are posted, *)
(* none runs after stopClient has returned or before startClient, and what *)
(* was posted by then is kept.                                             *)
Pool == INSTANCE RequestPool WITH
            phase    <- CASE main = "idle" -> "down"
                          [] main = "up"   -> "up"
                          [] main \in {"waitRun", "wokenRun"} -> "starting"
                          [] OTHER         -> "stopping",
            waiting  <- queue,
            running  <- ThreadsAt({"exec"}),
            draining <- main = "pollExec"

PoolSpec == Pool!Spec

(* No wake-up is lost: every call of startClient, stopClient and the       *)
(* destructor returns, whatever the closures throw meanwhile.              *)
CallsReturn == main \notin {"idle", "up"} ~> main \in {"idle", "up"}

(* A posted request is run while the pool is up, although the pool's       *)
(* threads fall out of run() with every exception a handler throws.        *)
RequestsRun == main = "up" /\ queue > 0 ~> queue = 0 \/ main # "up"

=============================================================================
