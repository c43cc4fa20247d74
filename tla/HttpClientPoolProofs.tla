------------------------ MODULE HttpClientPoolProofs ------------------------
(***************************************************************************)
(* Proofs about HttpClientPool, for a pool of any size and any number of   *)
(* starts, stops and requests: the counters that the owner waits for       *)
(* really count the threads, so a join under the mutex cannot deadlock, a  *)
(* start returns only with the whole pool running, and nobody sleeps over  *)
(* a notification that has gone by.                                        *)
(***************************************************************************)
EXTENDS HttpClientPool, FiniteSetTheorems, TLAPS

(* The types as a step keeps them by itself.  That the counters stay       *)
(* between 0 and the size of the pool is a consequence of what they count. *)
PoolTypes ==
    /\ m_threadsState \in {"RUNNING", "STOPPED"}
    /\ m_threadPool \in SUBSET Threads
    /\ m_runningThreads \in Int /\ m_exitedThreads \in Int
    /\ stopped \in BOOLEAN
    /\ queue \in Nat /\ posts \in Nat /\ starts \in Nat
    /\ pc \in [Threads -> PCs]
    /\ main \in Mains

(* A set of threads chosen by location is finite and has a cardinality.    *)
LEMMA CountType ==
    ASSUME NEW L
    PROVE  /\ IsFiniteSet(ThreadsAt(L))
           /\ Cardinality(ThreadsAt(L)) \in 0 .. poolSize
           /\ Cardinality(ThreadsAt(L)) = Cardinality(Threads) => ThreadsAt(L) = Threads
<1>1. ThreadsAt(L) \in SUBSET Threads
  BY DEF ThreadsAt
<1>2. IsFiniteSet(Threads)
  BY PoolAssumption
<1>3. /\ IsFiniteSet(ThreadsAt(L))
      /\ Cardinality(ThreadsAt(L)) <= Cardinality(Threads)
      /\ Cardinality(Threads) = Cardinality(ThreadsAt(L)) => Threads = ThreadsAt(L)
  BY <1>1, <1>2, FS_Subset
<1> QED
  BY <1>2, <1>3, FS_CardinalityType DEF poolSize

(* A thread that moves into the locations L is one more there ...          *)
LEMMA CountEnters ==
    ASSUME NEW L, NEW t \in Threads, NEW l, PoolTypes,
           pc' = [pc EXCEPT ![t] = l], pc[t] \notin L, l \in L
    PROVE  Cardinality(ThreadsAt(L)') = Cardinality(ThreadsAt(L)) + 1
<1>1. ThreadsAt(L)' = ThreadsAt(L) \cup {t}
  BY DEF ThreadsAt, PoolTypes
<1>2. t \notin ThreadsAt(L)
  BY DEF ThreadsAt
<1>3. IsFiniteSet(ThreadsAt(L))
  BY CountType
<1> QED
  BY <1>1, <1>2, <1>3, FS_AddElement

(* ... one that moves out of them is one less ...                          *)
LEMMA CountLeaves ==
    ASSUME NEW L, NEW t \in Threads, NEW l, PoolTypes,
           pc' = [pc EXCEPT ![t] = l], pc[t] \in L, l \notin L
    PROVE  Cardinality(ThreadsAt(L)') = Cardinality(ThreadsAt(L)) - 1
<1>1. ThreadsAt(L)' = ThreadsAt(L) \ {t}
  BY DEF ThreadsAt, PoolTypes
<1>2. t \in ThreadsAt(L)
  BY DEF ThreadsAt
<1>3. IsFiniteSet(ThreadsAt(L))
  BY CountType
<1> QED
  BY <1>1, <1>2, <1>3, FS_RemoveElement

(* ... and any other move leaves them as they are.                         *)
LEMMA CountStays ==
    ASSUME NEW L, NEW t \in Threads, NEW l, PoolTypes,
           pc' = [pc EXCEPT ![t] = l], pc[t] \in L <=> l \in L
    PROVE  ThreadsAt(L)' = ThreadsAt(L)
BY DEF ThreadsAt, PoolTypes

----------------------------------------------------------------------------

IndInv == PoolTypes /\ PoolInv

(* The invariant holds before the first start.                             *)
LEMMA InitInv == Init => IndInv
<1> SUFFICES ASSUME Init PROVE IndInv
  OBVIOUS
<1>0. stopped \in BOOLEAN
  BY Zenon DEF Init
<1>1. PoolTypes
  BY <1>0 DEF Init, PoolTypes, PCs, Mains
<1>2. ThreadsAt(Serving) = {}
  BY DEF Init, ThreadsAt, Serving
<1>3. Cardinality(ThreadsAt(Serving)) = 0
  BY <1>2, FS_EmptySet
<1>4. poolSize \in Nat
  BY PoolAssumption, FS_CardinalityType DEF poolSize
<1>5. PoolInv
  BY <1>3, <1>4, PoolAssumption DEF Init, PoolInv, Stopping
<1> QED
  BY <1>1, <1>5 DEF IndInv

(* Every step keeps the types.                                             *)
LEMMA NextTypes == PoolTypes /\ [Next]_vars => PoolTypes'
<1> SUFFICES ASSUME PoolTypes, [Next]_vars PROVE PoolTypes'
  OBVIOUS
<1> USE DEF PoolTypes, PCs, Mains, Serving, Exited, Waiting, Woken, Holding
<1>1. ASSUME NEW t \in Threads, ThreadStep(t) PROVE PoolTypes'
  <2>1. CASE Check(t) BY <2>1 DEF Check, serviceVars
  <2>2. CASE Enter(t) BY <2>2 DEF Enter, NotifyIf, serviceVars
  <2>3. CASE Run(t) BY <2>3 DEF Run
  <2>4. CASE Exec(t) BY <2>4 DEF Exec, PostOne
  <2>5. CASE Leave(t) BY <2>5 DEF Leave, serviceVars
  <2>6. CASE Exit(t) BY <2>6 DEF Exit, NotifyIf, serviceVars
  <2>7. CASE Return(t) BY <2>7 DEF Return, serviceVars
  <2> QED BY <1>1, <2>1, <2>2, <2>3, <2>4, <2>5, <2>6, <2>7 DEF ThreadStep
<1>2. CASE WakeInStart BY <1>2 DEF WakeInStart, serviceVars
<1>3. CASE Poll
  <2>1. stopped' \in BOOLEAN BY <1>3, Zenon DEF Poll, StopService
  <2> QED BY <1>3, <2>1 DEF Poll, StopService, AwaitExits
<1>4. CASE PollExec
  <2>1. stopped' \in BOOLEAN BY <1>4, Zenon DEF PollExec, StopService, serviceVars
  <2> QED BY <1>4, <2>1 DEF PollExec, StopService, AwaitExits, PostOne, serviceVars
<1>5. CASE WakeInStop BY <1>5 DEF WakeInStop, AwaitExits, serviceVars
<1>6. CASE Join BY <1>6 DEF Join, serviceVars
<1>7. CASE startClient
  <2>1. stopped' \in BOOLEAN BY <1>7, Zenon DEF startClient
  <2> QED BY <1>7, <2>1 DEF startClient
<1>8. CASE stopClient BY <1>8 DEF stopClient, AwaitExits, serviceVars
<1>9. CASE sendRequest BY <1>9 DEF sendRequest, PostOne
<1>10. CASE SpuriousWakeUp BY <1>10 DEF SpuriousWakeUp, serviceVars
<1>11. CASE UNCHANGED vars BY <1>11 DEF vars
<1> QED
  BY <1>1, <1>2, <1>3, <1>4, <1>5, <1>6, <1>7, <1>8, <1>9, <1>10, <1>11
     DEF Next, MainStep

(* A step of one thread: each location it can move between is inside or    *)
(* outside of the two counted regions, and a thread counts itself as       *)
(* exited only where the counter has been reset.                           *)
LEMMA ThreadStepInv ==
    ASSUME NEW t \in Threads, IndInv, ThreadStep(t)
    PROVE  PoolInv'
<1> USE DEF IndInv
<1>a. PoolTypes
  OBVIOUS
<1>n. m_threadPool = Threads /\ main # "idle" /\ Threads # {}
  BY PoolAssumption DEF ThreadStep, Check, Enter, Run, Exec, Leave, Exit, Return, PoolInv
<1>p. m_threadPool' = m_threadPool
  BY DEF ThreadStep, Check, Enter, Run, Exec, Leave, Exit, Return
<1>c. Cardinality(ThreadsAt(Serving)) \in Nat /\ Cardinality(ThreadsAt(Exited)) \in Nat
  BY CountType
<1>z. poolSize' = poolSize
  BY DEF poolSize
<1>1. CASE Check(t)
  <2>1. PICK l \in {"enter", "exit"} : pc' = [pc EXCEPT ![t] = l]
    BY <1>1 DEF Check
  <2>2. ThreadsAt(Serving)' = ThreadsAt(Serving)
    BY <2>1, <1>1, <1>a, CountStays DEF Check, Serving
  <2>3. ThreadsAt(Exited)' = ThreadsAt(Exited)
    BY <2>1, <1>1, <1>a, CountStays DEF Check, Exited
  <2>4. main \in {"waitRun", "wokenRun", "up"} =>
            ThreadsAt({"exit"} \cup Exited)' = ThreadsAt({"exit"} \cup Exited)
    BY <1>1, <1>a DEF Check, PoolInv, PoolTypes, ThreadsAt, Exited
  <2> QED
    BY <1>1, <1>a, <1>n, <1>z, <1>p, <2>1, <2>2, <2>3, <2>4 DEF Check, PoolInv, PoolTypes
<1>2. CASE Enter(t)
  <2>1. pc' = [pc EXCEPT ![t] = "run"] /\ pc[t] = "enter"
    BY <1>2 DEF Enter
  <2>2. Cardinality(ThreadsAt(Serving)') = Cardinality(ThreadsAt(Serving)) + 1
    BY <2>1, <1>a, CountEnters DEF Serving
  <2>3. ThreadsAt(Exited)' = ThreadsAt(Exited)
    BY <2>1, <1>a, CountStays DEF Exited
  <2>4. ThreadsAt({"exit"} \cup Exited)' = ThreadsAt({"exit"} \cup Exited)
    BY <2>1, <1>a, CountStays DEF Exited
  <2>5. \/ main' = main
        \/ main = "waitRun" /\ main' = "wokenRun"
        \/ main = "waitExit" /\ main' = "wokenExit"
    BY <1>2 DEF Enter, NotifyIf
  <2> QED
    BY <1>2, <1>a, <1>n, <1>z, <1>p, <2>1, <2>2, <2>3, <2>4, <2>5
       DEF Enter, MutexFree, Holding, PoolInv, PoolTypes, Stopping
<1>3. CASE Run(t) \/ Exec(t)
  <2>1. PICK l \in Serving : pc' = [pc EXCEPT ![t] = l]
    BY <1>3 DEF Run, Exec, Serving
  <2>0. pc[t] \in Serving
    BY <1>3 DEF Run, Exec, Serving
  <2>2. ThreadsAt(Serving)' = ThreadsAt(Serving)
    BY <2>0, <2>1, <1>a, CountStays
  <2>3. ThreadsAt(Exited)' = ThreadsAt(Exited)
    BY <2>0, <2>1, <1>a, CountStays DEF Serving, Exited
  <2>4. ThreadsAt({"exit"} \cup Exited)' = ThreadsAt({"exit"} \cup Exited)
    BY <2>0, <2>1, <1>a, CountStays DEF Serving, Exited
  <2>5. UNCHANGED <<m_threadsState, m_threadPool, m_runningThreads, m_exitedThreads, main>>
    BY <1>3 DEF Run, Exec
  <2> QED
    BY <1>a, <1>n, <1>z, <2>0, <2>1, <2>2, <2>3, <2>4, <2>5 DEF PoolInv, PoolTypes, Serving
<1>5. CASE Leave(t)
  <2>1. pc' = [pc EXCEPT ![t] = "check"] /\ pc[t] = "leave"
    BY <1>5 DEF Leave
  <2>2. Cardinality(ThreadsAt(Serving)') = Cardinality(ThreadsAt(Serving)) - 1
    BY <2>1, <1>a, CountLeaves DEF Serving
  <2>3. ThreadsAt(Exited)' = ThreadsAt(Exited)
    BY <2>1, <1>a, CountStays DEF Exited
  <2>4. ThreadsAt({"exit"} \cup Exited)' = ThreadsAt({"exit"} \cup Exited)
    BY <2>1, <1>a, CountStays DEF Exited
  <2> QED
    BY <1>5, <1>a, <1>n, <1>z, <1>p, <2>1, <2>2, <2>3, <2>4 DEF Leave, PoolInv, PoolTypes
<1>6. CASE Exit(t)
  <2>1. pc' = [pc EXCEPT ![t] = "returning"] /\ pc[t] = "exit"
    BY <1>6 DEF Exit
  <2>2. main \in {"waitExit", "wokenExit"}
    <3>1. t \in ThreadsAt({"exit"} \cup Exited)
      BY <2>1 DEF ThreadsAt
    <3> QED
      BY <1>6, <1>a, <1>n, <3>1
         DEF Exit, MutexFree, Holding, PoolInv, PoolTypes, Mains, Waiting, Woken
  <2>3. ThreadsAt(Serving)' = ThreadsAt(Serving)
    BY <2>1, <1>a, CountStays DEF Serving
  <2>4. Cardinality(ThreadsAt(Exited)') = Cardinality(ThreadsAt(Exited)) + 1
    BY <2>1, <1>a, CountEnters DEF Exited
  <2>5. main' \in {"waitExit", "wokenExit"}
    BY <1>6, <2>2 DEF Exit, NotifyIf
  <2>6. Cardinality(ThreadsAt(Exited)') \in 0 .. poolSize
    <3>1. ThreadsAt(Exited)' \in SUBSET Threads
      BY DEF ThreadsAt
    <3> QED
      BY <3>1, PoolAssumption, FS_Subset, FS_CardinalityType DEF poolSize
  <2> QED
    BY <1>6, <1>a, <1>n, <1>p, <1>z, <2>1, <2>2, <2>3, <2>4, <2>5, <2>6
       DEF Exit, PoolInv, PoolTypes, Stopping
<1>7. CASE Return(t)
  <2>1. pc' = [pc EXCEPT ![t] = "done"] /\ pc[t] = "returning"
    BY <1>7 DEF Return
  <2>2. ThreadsAt(Serving)' = ThreadsAt(Serving)
    BY <2>1, <1>a, CountStays DEF Serving
  <2>3. ThreadsAt(Exited)' = ThreadsAt(Exited)
    BY <2>1, <1>a, CountStays DEF Exited
  <2>4. ThreadsAt({"exit"} \cup Exited)' = ThreadsAt({"exit"} \cup Exited)
    BY <2>1, <1>a, CountStays DEF Exited
  <2> QED
    BY <1>7, <1>a, <1>n, <1>z, <1>p, <2>1, <2>2, <2>3, <2>4 DEF Return, PoolInv, PoolTypes
<1> QED
  BY <1>1, <1>2, <1>3, <1>5, <1>6, <1>7 DEF ThreadStep

(* A step of the owner, or of a caller of sendRequest.                     *)
LEMMA OwnerStepInv ==
    ASSUME IndInv,
           MainStep \/ startClient \/ stopClient \/ sendRequest \/ SpuriousWakeUp
    PROVE  PoolInv'
<1> USE DEF IndInv
<1>a. PoolTypes
  OBVIOUS
<1>0. Cardinality({}) = 0 /\ Threads # {} /\ poolSize \in Nat /\ poolSize' = poolSize
  BY FS_EmptySet, PoolAssumption, FS_CardinalityType DEF poolSize
<1>1. ASSUME pc' = pc
      PROVE  \A L : ThreadsAt(L)' = ThreadsAt(L)
  BY <1>1 DEF ThreadsAt
<1>2. ASSUME NEW l \in {"none", "check"}, pc' = [t \in Threads |-> l]
      PROVE  /\ Cardinality(ThreadsAt(Serving)') = 0
             /\ ThreadsAt({"exit"} \cup Exited)' = {}
             /\ \A t \in Threads : pc'[t] = l
  <2>1. ThreadsAt(Serving)' = {} /\ ThreadsAt({"exit"} \cup Exited)' = {}
    BY <1>2 DEF ThreadsAt, Serving, Exited
  <2> QED
    BY <1>0, <1>2, <2>1
<1>3. ASSUME m_threadPool = {}
      PROVE  Cardinality(ThreadsAt(Serving)) = 0
  <2>1. ThreadsAt(Serving) = {}
    BY <1>3 DEF ThreadsAt, PoolInv, Serving
  <2> QED
    BY <1>0, <2>1
<1>4. CASE WakeInStart
  <2>1. UNCHANGED <<m_threadsState, m_threadPool, m_runningThreads, pc>>
    BY <1>4 DEF WakeInStart
  <2> QED
    BY <1>0, <1>4, <1>1, <2>1 DEF WakeInStart, PoolInv, Stopping
<1>5. CASE Poll \/ PollExec \/ WakeInStop \/ stopClient
  <2>1. UNCHANGED <<m_threadPool, m_runningThreads, m_exitedThreads, pc>>
    BY <1>5 DEF Poll, PollExec, WakeInStop, stopClient
  <2>2. main' \in {"polling", "pollExec"} \/ AwaitExits
    BY <1>5 DEF Poll, PollExec, StopService, WakeInStop, stopClient
  <2>3. main' \in Stopping
    BY <2>2 DEF AwaitExits, Stopping
  <2>4. main' = "joining" => m_exitedThreads' = Cardinality(m_threadPool')
    BY <2>1, <2>2 DEF AwaitExits
  <2>5. main \in Stopping \/ main = "up" \/ (main = "idle" /\ m_threadPool = {})
    BY <1>5 DEF Poll, PollExec, WakeInStop, stopClient, Stopping, PoolInv
  <2>6. ASSUME main = "up"
        PROVE  m_exitedThreads = Cardinality(ThreadsAt(Exited))
    <3>1. ThreadsAt(Exited) = {}
      BY <2>6 DEF PoolInv, ThreadsAt
    <3> QED
      BY <1>0, <2>6, <3>1 DEF PoolInv
  <2>7. m_threadPool = Threads => m_exitedThreads = Cardinality(ThreadsAt(Exited))
    BY <1>0, <2>5, <2>6 DEF PoolInv
  <2> QED
    BY <1>0, <1>1, <2>1, <2>3, <2>4, <2>7 DEF PoolInv, Stopping
<1>6. CASE Join
  <2>1. \/ m_threadPool = {}
        \/ m_threadPool = Threads
    BY DEF PoolInv
  <2>2. ThreadsAt(Serving) = {}
    BY <1>6, <2>1 DEF Join, PoolInv, ThreadsAt, Serving
  <2>3. m_runningThreads' = 0
    BY <1>0, <1>6, <2>2 DEF Join, PoolInv
  <2> QED
    BY <1>0, <1>2, <1>6, <2>3 DEF Join, PoolInv, Stopping
<1>7. CASE startClient
  <2>1. m_runningThreads' = 0
    BY <1>3, <1>7 DEF startClient, PoolInv
  <2> QED
    BY <1>0, <1>2, <1>7, <2>1 DEF startClient, PoolInv, Stopping
<1>8. CASE sendRequest
  BY <1>0, <1>1, <1>8 DEF sendRequest, PoolInv
<1>9. CASE SpuriousWakeUp
  <2>1. UNCHANGED <<m_threadsState, m_threadPool, m_runningThreads, m_exitedThreads, pc>>
    BY <1>9 DEF SpuriousWakeUp
  <2>2. \/ main = "waitRun" /\ main' = "wokenRun"
        \/ main = "waitExit" /\ main' = "wokenExit"
    BY <1>9 DEF SpuriousWakeUp, Waiting
  <2> QED
    BY <1>0, <1>1, <2>1, <2>2 DEF PoolInv, Stopping
<1> QED
  BY <1>4, <1>5, <1>6, <1>7, <1>8, <1>9 DEF MainStep

(* Every step of the pool keeps the invariant.                             *)
LEMMA NextInv == IndInv /\ [Next]_vars => IndInv'
<1> SUFFICES ASSUME IndInv, [Next]_vars PROVE IndInv'
  OBVIOUS
<1>1. PoolTypes'
  BY NextTypes DEF IndInv
<1>2. PoolInv'
  <2>1. CASE UNCHANGED vars
    BY <2>1 DEF vars, IndInv, PoolInv, ThreadsAt, poolSize
  <2> QED
    BY <2>1, ThreadStepInv, OwnerStepInv DEF Next
<1> QED
  BY <1>1, <1>2 DEF IndInv

----------------------------------------------------------------------------

(* The counters are exact over every behaviour of the pool.                *)
THEOREM CountersExact == SafetySpec => []IndInv
BY InitInv, NextInv, PTL DEF SafetySpec

(* setThreadsState(STOPPED) reaches its join loop only when no thread of   *)
(* the pool still needs the mutex that the owner holds there.              *)
THEOREM JoinIsSafe == SafetySpec => []JoinSafe
<1>1. IndInv => JoinSafe
  <2> SUFFICES ASSUME IndInv, main = "joining", NEW t \in m_threadPool
               PROVE  pc[t] \in Exited
    BY DEF JoinSafe
  <2>1. m_threadPool = Threads
    BY DEF IndInv, PoolInv
  <2>2. Cardinality(ThreadsAt(Exited)) = Cardinality(Threads)
    BY <2>1 DEF IndInv, PoolInv, Stopping
  <2>3. ThreadsAt(Exited) = Threads
    BY <2>2, CountType
  <2> QED
    BY <2>1, <2>3 DEF ThreadsAt
<1> QED
  BY <1>1, CountersExact, PTL

(* setThreadsState(RUNNING) returns only with every thread of the pool in  *)
(* the IOService.                                                          *)
THEOREM StartIsComplete == SafetySpec => StartedAll
<1>1. IndInv /\ [Next]_vars
        => (main # "up" /\ main' = "up" => \A t \in Threads : pc'[t] \in Serving)
  <2> SUFFICES ASSUME IndInv, [Next]_vars, main # "up", main' = "up"
               PROVE  \A t \in Threads : pc'[t] \in Serving
    OBVIOUS
  <2>1. WakeInStart
    BY DEF Next, vars, ThreadStep, Check, Enter, Run, Exec, Leave, Exit, Return,
           NotifyIf, MainStep, Poll, PollExec, StopService, AwaitExits, WakeInStop,
           Join, startClient, stopClient, sendRequest, SpuriousWakeUp
  <2>2. m_runningThreads = Cardinality(Threads) /\ pc' = pc
    BY <2>1 DEF WakeInStart, IndInv, PoolInv
  <2>3. ThreadsAt(Serving) = Threads
    BY <2>2, CountType DEF IndInv, PoolInv
  <2> QED
    BY <2>2, <2>3 DEF ThreadsAt
<1> QED
  BY <1>1, CountersExact, PTL DEF SafetySpec, StartedAll

(* Neither counter ever goes below zero or above the size of the pool,     *)
(* over any number of starts and stops and whatever the closures throw,    *)
(* and the threads and the owner are at one of their places.               *)
THEOREM PoolTypeCorrect == SafetySpec => []TypeOK
<1>1. IndInv => TypeOK
  <2> SUFFICES ASSUME IndInv PROVE TypeOK
    OBVIOUS
  <2>1. m_runningThreads \in 0 .. poolSize
    BY CountType DEF IndInv, PoolInv
  <2> QED
    BY <2>1 DEF IndInv, PoolInv, PoolTypes, TypeOK
<1> QED
  BY <1>1, CountersExact, PTL

----------------------------------------------------------------------------
(* What the waits rest on.                                                 *)

LEMMA InitWaits == Init => WaitInv
<1>1. Cardinality({}) = 0
  BY FS_EmptySet
<1> QED
  BY <1>1 DEF Init, WaitInv, Stopping

(* A thread that fills a counter wakes the owner in the same step.         *)
LEMMA ThreadStepWaits ==
    ASSUME NEW t \in Threads, IndInv, WaitInv, ThreadStep(t)
    PROVE  WaitInv'
<1>p. UNCHANGED <<m_threadsState, m_threadPool, stopped, starts>>
  BY DEF ThreadStep, Check, Enter, Run, Exec, Leave, Exit, Return, serviceVars
<1>n. m_threadPool = Threads /\ Threads # {}
  BY PoolAssumption
     DEF IndInv, PoolInv, ThreadStep, Check, Enter, Run, Exec, Leave, Exit, Return
<1>1. CASE Check(t) \/ Run(t) \/ Exec(t) \/ Return(t)
  <2>1. UNCHANGED <<main, m_runningThreads, m_exitedThreads>>
    BY <1>1 DEF Check, Run, Exec, Return
  <2> QED
    BY <1>p, <2>1 DEF WaitInv, poolSize, Stopping
<1>2. CASE Enter(t)
  <2>1. /\ m_exitedThreads' = m_exitedThreads
        /\ main' = IF m_runningThreads' # poolSize THEN main
                   ELSE IF main = "waitRun" THEN "wokenRun"
                   ELSE IF main = "waitExit" THEN "wokenExit" ELSE main
    BY <1>2 DEF Enter, NotifyIf
  <2> QED
    BY <1>p, <2>1 DEF WaitInv, poolSize, Stopping
<1>3. CASE Leave(t)
  <2>1. /\ main' = main /\ m_exitedThreads' = m_exitedThreads
        /\ m_runningThreads' = m_runningThreads - 1
        /\ pc[t] = "leave"
    BY <1>3 DEF Leave
  <2>2. m_runningThreads' # poolSize
    <3>1. /\ m_runningThreads = Cardinality(ThreadsAt(Serving))
          /\ ThreadsAt(Serving) \in SUBSET Threads
      BY DEF IndInv, PoolInv, ThreadsAt
    <3>2. IsFiniteSet(Threads)
      BY PoolAssumption
    <3>3. m_runningThreads \in Nat /\ poolSize \in Nat /\ m_runningThreads <= poolSize
      BY <3>1, <3>2, FS_Subset, FS_CardinalityType DEF poolSize
    <3> QED
      BY <2>1, <3>3
  <2> QED
    BY <1>p, <2>1, <2>2 DEF WaitInv, poolSize, Stopping
<1>4. CASE Exit(t)
  <2>1. /\ m_runningThreads' = m_runningThreads
        /\ main' = IF m_exitedThreads' # Cardinality(m_threadPool) THEN main
                   ELSE IF main = "waitRun" THEN "wokenRun"
                   ELSE IF main = "waitExit" THEN "wokenExit" ELSE main
    BY <1>4 DEF Exit, NotifyIf
  <2> QED
    BY <1>p, <1>n, <2>1 DEF WaitInv, poolSize, Stopping
<1> QED
  BY <1>1, <1>2, <1>3, <1>4 DEF ThreadStep

(* The owner looks at the counter before it goes to sleep.                 *)
LEMMA OwnerStepWaits ==
    ASSUME IndInv, WaitInv,
           MainStep \/ startClient \/ stopClient \/ sendRequest \/ SpuriousWakeUp
    PROVE  WaitInv'
<1>0. Cardinality({}) = 0 /\ Threads # {} /\ poolSize \in Nat \ {0}
  BY PoolAssumption, FS_EmptySet, FS_CardinalityType DEF poolSize
<1>1. CASE WakeInStart
  <2>1. UNCHANGED <<m_threadsState, m_threadPool, m_runningThreads, stopped, starts>>
    BY <1>1 DEF WakeInStart, serviceVars
  <2>2. main = "wokenRun" /\ m_threadPool = Threads
    BY <1>1 DEF WakeInStart, IndInv, PoolInv
  <2>3. \/ main' = "up"
        \/ main' = "waitRun" /\ m_runningThreads # poolSize
    BY <1>1, <2>2 DEF WakeInStart, poolSize
  <2> QED
    BY <1>0, <2>1, <2>2, <2>3 DEF WaitInv, poolSize, Stopping
<1>2. CASE Poll \/ PollExec \/ WakeInStop
  <2>1. UNCHANGED <<m_threadsState, m_threadPool, m_runningThreads, m_exitedThreads, starts>>
    BY <1>2 DEF Poll, PollExec, StopService, WakeInStop, serviceVars
  <2>2. main \in Stopping
    BY <1>2 DEF Poll, PollExec, WakeInStop, Stopping
  <2>3. \/ main' \in {"polling", "pollExec"}
        \/ stopped' /\ main' = "joining"
        \/ stopped' /\ main' = "waitExit" /\ m_exitedThreads # Cardinality(m_threadPool)
    BY <1>2 DEF Poll, PollExec, StopService, WakeInStop, AwaitExits, WaitInv, serviceVars
  <2> QED
    BY <2>1, <2>2, <2>3 DEF WaitInv, Stopping
<1>3. CASE stopClient
  <2>1. UNCHANGED <<m_threadPool, m_runningThreads, m_exitedThreads, stopped, starts>>
    BY <1>3 DEF stopClient, serviceVars
  <2>2. \/ main' = "polling"
        \/ stopped /\ main' = "joining"
        \/ stopped /\ main' = "waitExit" /\ m_exitedThreads # Cardinality(m_threadPool)
    BY <1>3 DEF stopClient, AwaitExits
  <2>3. ~StopTwice => m_threadPool = Threads \/ m_exitedThreads = 0
    BY <1>3 DEF stopClient, WaitInv, IndInv, PoolInv
  <2> QED
    BY <1>3, <2>1, <2>2, <2>3 DEF stopClient, WaitInv, Stopping
<1>4. CASE Join
  BY <1>4 DEF Join, WaitInv, Stopping, serviceVars
<1>5. CASE startClient
  <2>1. m_runningThreads' = 0
    <3>1. ThreadsAt(Serving) = {}
      BY <1>5 DEF startClient, IndInv, PoolInv, ThreadsAt, Serving
    <3> QED
      BY <1>0, <1>5, <3>1 DEF startClient, IndInv, PoolInv
  <2>2. starts' # 0
    BY <1>5 DEF startClient, IndInv, PoolTypes
  <2> QED
    BY <1>0, <1>5, <2>1, <2>2 DEF startClient, WaitInv, poolSize, Stopping
<1>6. CASE sendRequest
  BY <1>6 DEF sendRequest, WaitInv, poolSize, Stopping
<1>7. CASE SpuriousWakeUp
  <2>1. UNCHANGED <<m_threadsState, m_threadPool, m_runningThreads, m_exitedThreads, stopped,
                    starts>>
    BY <1>7 DEF SpuriousWakeUp, serviceVars
  <2>2. \/ main = "waitRun" /\ main' = "wokenRun"
        \/ main = "waitExit" /\ main' = "wokenExit"
    BY <1>7 DEF SpuriousWakeUp, Waiting
  <2> QED
    BY <2>1, <2>2 DEF WaitInv, Stopping
<1> QED
  BY <1>1, <1>2, <1>3, <1>4, <1>5, <1>6, <1>7 DEF MainStep

(* Both invariants hold together.                                          *)
LEMMA WaitsRestOn == SafetySpec => [](IndInv /\ WaitInv)
<1>1. IndInv /\ WaitInv /\ [Next]_vars => WaitInv'
  <2> SUFFICES ASSUME IndInv, WaitInv, [Next]_vars PROVE WaitInv'
    OBVIOUS
  <2>1. CASE UNCHANGED vars
    BY <2>1 DEF vars, WaitInv, poolSize, Stopping
  <2> QED
    BY <2>1, ThreadStepWaits, OwnerStepWaits DEF Next
<1> QED
  BY <1>1, InitInv, InitWaits, NextInv, PTL DEF SafetySpec

(* No wake-up is lost: an owner that sleeps in setThreadsState sleeps for  *)
(* a thread that has still to run or to exit, and that can.  A client that *)
(* is stopped a second time is excepted (the run pool_stop_twice).         *)
THEOREM NoLostWakeUp ==
    ASSUME ~StopTwice
    PROVE  SafetySpec => []WaitsForSomebody
<1>1. IndInv /\ WaitInv => WaitsForSomebody
  <2> SUFFICES ASSUME IndInv, WaitInv PROVE WaitsForSomebody
    OBVIOUS
  <2>1. ASSUME main = "waitRun"
        PROVE  m_threadsState = "RUNNING" /\ \E t \in m_threadPool : pc[t] \in {"check", "enter"}
    <3>1. /\ m_threadsState = "RUNNING" /\ m_threadPool = Threads
          /\ ThreadsAt(Serving) # Threads /\ ThreadsAt({"exit"} \cup Exited) = {}
          /\ \A t \in Threads : pc[t] # "none"
      BY <2>1, PoolAssumption DEF IndInv, PoolInv, WaitInv, poolSize
    <3>2. PICK t \in Threads : pc[t] \notin Serving
      BY <3>1 DEF ThreadsAt
    <3>3. pc[t] \in {"check", "enter"}
      BY <3>1, <3>2 DEF IndInv, PoolTypes, PCs, ThreadsAt
    <3> QED
      BY <3>1, <3>3
  <2>2. ASSUME main = "waitExit"
        PROVE  /\ m_threadsState = "STOPPED" /\ stopped
               /\ \E t \in m_threadPool : pc[t] \notin Exited
    <3>1. Cardinality({}) = 0
      BY FS_EmptySet
    <3>2. /\ m_threadsState = "STOPPED" /\ stopped
          /\ m_threadPool = Threads /\ ThreadsAt(Exited) # Threads
      BY <2>2, <3>1 DEF IndInv, PoolInv, WaitInv, Stopping
    <3> QED
      BY <3>2 DEF ThreadsAt
  <2> QED
    BY <2>1, <2>2 DEF WaitsForSomebody
<1> QED
  BY <1>1, WaitsRestOn, PTL

(* A stop is final: the threads that the owner waits for only leave.       *)
THEOREM StopsAreFinal == SafetySpec => StopIsFinal
<1>1. IndInv /\ WaitInv /\ [Next]_vars
        => ((main = "waitExit" \/ main = "wokenExit") =>
                \A t \in m_threadPool : StaysOut(t))
  <2> SUFFICES ASSUME IndInv, WaitInv, [Next]_vars,
                      main = "waitExit" \/ main = "wokenExit",
                      NEW t \in m_threadPool
               PROVE  StaysOut(t)
    OBVIOUS
  <2>1. stopped /\ m_threadsState = "STOPPED" /\ t \in Threads /\ pc \in [Threads -> PCs]
    BY DEF WaitInv, Stopping, IndInv, PoolTypes
  <2>2. ASSUME NEW u \in Threads, ThreadStep(u)
        PROVE  StaysOut(t)
    <3>1. PICK l : /\ pc' = [pc EXCEPT ![u] = l]
                   /\ l # "exec"
                   /\ pc[u] \in OutOfService => l \in OutOfService
      BY <2>1, <2>2 DEF ThreadStep, Check, Enter, Run, Exec, Leave, Exit, Return,
                        OutOfService, Exited
    <3> QED
      BY <2>1, <3>1 DEF StaysOut
  <2>3. ASSUME ~\E u \in Threads : ThreadStep(u)
        PROVE  pc' = pc
    BY <2>3 DEF Next, vars, MainStep, WakeInStart, Poll, PollExec, WakeInStop, Join, startClient,
                stopClient, sendRequest, SpuriousWakeUp
  <2> QED
    BY <2>2, <2>3 DEF StaysOut
<1> QED
  BY <1>1, WaitsRestOn, PTL DEF SafetySpec, StopIsFinal

----------------------------------------------------------------------------
(* The refinement of RequestPool.                                          *)

phase == CASE main = "idle" -> "down"
           [] main = "up"   -> "up"
           [] main \in {"waitRun", "wokenRun"} -> "starting"
           [] OTHER         -> "stopping"
running  == ThreadsAt({"exec"})
draining == main = "pollExec"

(* A thread's step begins a request, ends one, or is the pool's own.       *)
LEMMA ThreadStepRefines ==
    ASSUME IndInv, NEW t \in Threads, ThreadStep(t)
    PROVE  [Pool!Next]_(Pool!poolVars)
<1>a. PoolTypes /\ main # "idle"
  BY DEF IndInv, PoolInv, ThreadStep, Check, Enter, Run, Exec, Leave, Exit, Return
<1>p. phase' = phase /\ draining' = draining
  BY <1>a DEF ThreadStep, Check, Enter, Run, Exec, Leave, Exit, Return, NotifyIf, phase,
              draining
<1>1. CASE pc[t] = "run" /\ pc'[t] = "exec"
  <2>1. queue > 0 /\ queue' = queue - 1 /\ pc' = [pc EXCEPT ![t] = "exec"]
    BY <1>1, <1>a DEF PoolTypes, PCs, Serving, Exited, ThreadStep, Check, Enter, Run, Exec, Leave,
                      Exit, Return
  <2>2. t \notin running /\ running' = running \cup {t}
    BY <1>1, <1>a, <2>1 DEF running, ThreadsAt, PoolTypes
  <2>3. phase # "down"
    BY <1>a DEF phase
  <2>4. Pool!Begin(t)
    BY <1>p, <2>1, <2>2, <2>3
       DEF Pool!Begin, Pool!TakeOne, phase, running, draining
  <2> QED
    BY <2>4 DEF Pool!Next
<1>2. CASE pc[t] = "exec"
  <2>1. Exec(t)
    BY <1>2 DEF ThreadStep, Check, Enter, Run, Leave, Exit, Return
  <2>2. PICK l \in {"run", "leave"} : pc' = [pc EXCEPT ![t] = l]
    BY <2>1 DEF Exec
  <2>3. t \in running /\ running' = running \ {t}
    BY <1>2, <1>a, <2>2 DEF running, ThreadsAt, PoolTypes
  <2>4. queue' \in {queue, queue + 1}
    BY <2>1 DEF Exec
  <2>5. Pool!End(t)
    BY <1>p, <2>3, <2>4 DEF Pool!End, Pool!MaybePost, phase, running, draining
  <2> QED
    BY <2>5 DEF Pool!Next
<1>3. CASE pc[t] # "exec" /\ ~(pc[t] = "run" /\ pc'[t] = "exec")
  <2>1. PICK l \in PCs \ {"exec"} : pc' = [pc EXCEPT ![t] = l] /\ queue' = queue
    BY <1>3, <1>a DEF PoolTypes, PCs, Serving, Exited, ThreadStep, Check, Enter, Run, Exec, Leave,
                      Exit, Return, serviceVars
  <2>2. running' = running
    BY <1>3, <1>a, <2>1 DEF running, ThreadsAt, PoolTypes
  <2> QED
    BY <1>p, <2>1, <2>2 DEF Pool!poolVars, phase, running, draining
<1> QED
  BY <1>1, <1>2, <1>3

LEMMA OwnerStepRefines ==
    ASSUME IndInv,
           MainStep \/ startClient \/ stopClient \/ sendRequest \/ SpuriousWakeUp
    PROVE  [Pool!Next]_(Pool!poolVars)
<1>a. PoolTypes
  BY DEF IndInv
<1>n. m_threadPool = {} => running = {}
  BY DEF IndInv, PoolInv, running, ThreadsAt
<1>1. CASE startClient
  <2>1. main = "idle" /\ main' = "waitRun" /\ queue' = queue
    BY <1>1 DEF startClient
  <2>2. running = {} /\ running' = {}
    BY <1>1, <1>n DEF IndInv, PoolInv, startClient, running, ThreadsAt
  <2>3. phase = "down" /\ phase' = "starting" /\ ~draining /\ ~draining'
    BY <2>1 DEF phase, draining
  <2>4. Pool!Start
    BY <2>1, <2>2, <2>3 DEF Pool!Start, Pool!Phase, phase, running, draining
  <2> QED
    BY <2>4 DEF Pool!Next
<1>2. CASE Join
  <2>1. main = "joining" /\ main' = "idle" /\ queue' = queue
    BY <1>2 DEF Join, serviceVars
  <2>2. running = {} /\ running' = {}
    BY <1>2, <1>n DEF IndInv, PoolInv, Join, running, ThreadsAt
  <2>3. phase = "stopping" /\ phase' = "down" /\ ~draining /\ ~draining'
    BY <2>1 DEF phase, draining
  <2>4. Pool!Stopped
    BY <2>1, <2>2, <2>3 DEF Pool!Stopped, Pool!Phase, phase, running, draining
  <2> QED
    BY <2>4 DEF Pool!Next
<1>u. CASE ~startClient /\ ~Join
  <2>0. UNCHANGED pc /\ running' = running
    BY <1>u DEF MainStep, WakeInStart, Poll, PollExec, WakeInStop, stopClient, sendRequest,
                SpuriousWakeUp, running, ThreadsAt
  <2>1. CASE WakeInStart
    <3>1. main = "wokenRun" /\ main' \in {"up", "waitRun"} /\ queue' = queue
      BY <2>1 DEF WakeInStart, serviceVars
    <3>2. phase = "starting" /\ ~draining /\ ~draining' /\ phase' \in {"up", "starting"}
      BY <3>1 DEF phase, draining
    <3>3. Pool!Started \/ UNCHANGED Pool!poolVars
      BY <2>0, <3>1, <3>2 DEF Pool!Started, Pool!Phase, Pool!poolVars, phase, running, draining
    <3> QED
      BY <3>3 DEF Pool!Next
  <2>2. CASE stopClient
    <3>1. main \in {"up", "idle"} /\ main' \in {"polling", "joining", "waitExit"} /\ queue' = queue
      BY <2>2 DEF stopClient, AwaitExits, serviceVars
    <3>2. phase \in {"down", "up"} /\ ~draining /\ ~draining' /\ phase' = "stopping"
      BY <3>1 DEF phase, draining
    <3>3. Pool!Stop
      BY <2>0, <3>1, <3>2 DEF Pool!Stop, Pool!Phase, phase, running, draining
    <3> QED
      BY <3>3 DEF Pool!Next
  <2>3. CASE Poll
    <3>1. /\ main = "polling"
          /\ \/ queue > 0 /\ queue' = queue - 1 /\ main' = "pollExec"
             \/ queue' = queue /\ main' \in {"joining", "waitExit"}
      BY <2>3 DEF Poll, StopService, AwaitExits
    <3>2. phase = "stopping" /\ phase' = "stopping" /\ draining = FALSE
          /\ draining' = (main' = "pollExec")
      BY <3>1 DEF phase, draining
    <3>3. Pool!Drain \/ UNCHANGED Pool!poolVars
      BY <2>0, <3>1, <3>2 DEF Pool!Drain, Pool!TakeOne, Pool!poolVars, phase, running, draining
    <3> QED
      BY <3>3 DEF Pool!Next
  <2>4. CASE PollExec
    <3>1. /\ main = "pollExec" /\ main' \in {"polling", "joining", "waitExit"}
          /\ queue' \in {queue, queue + 1}
      BY <2>4 DEF PollExec, StopService, AwaitExits, serviceVars
    <3>2. phase = "stopping" /\ phase' = "stopping" /\ draining /\ draining' = FALSE
      BY <3>1 DEF phase, draining
    <3>3. Pool!Drained
      BY <2>0, <3>1, <3>2 DEF Pool!Drained, Pool!MaybePost, phase, running, draining
    <3> QED
      BY <3>3 DEF Pool!Next
  <2>5. CASE sendRequest
    <3>1. main' = main /\ queue' = queue + 1
      BY <2>5 DEF sendRequest
    <3>2. phase' = phase /\ draining' = draining
      BY <3>1 DEF phase, draining
    <3>3. Pool!Post
      BY <2>0, <3>1, <3>2 DEF Pool!Post, phase, running, draining
    <3> QED
      BY <3>3 DEF Pool!Next
  <2>6. CASE WakeInStop \/ SpuriousWakeUp
    <3>1. /\ queue' = queue
          /\ \/ main = "waitRun" /\ main' = "wokenRun"
             \/ main \in Stopping \ {"pollExec"} /\ main' \in Stopping \ {"pollExec"}
      BY <2>6 DEF WakeInStop, SpuriousWakeUp, AwaitExits, serviceVars, Waiting, Stopping
    <3>2. phase' = phase /\ draining' = draining
      BY <3>1 DEF phase, draining, Stopping
    <3> QED
      BY <2>0, <3>1, <3>2 DEF Pool!poolVars, phase, running, draining
  <2> QED
    BY <1>u, <2>1, <2>2, <2>3, <2>4, <2>5, <2>6 DEF MainStep
<1> QED
  BY <1>1, <1>2, <1>u

(* NXOSHttpClientImpl implements the pool its callers rely on: requests    *)
(* may be posted at any time, each is taken once, and none runs before     *)
(* startClient is called or after stopClient has returned.                 *)
THEOREM ImplementsRequestPool == SafetySpec => PoolSpec
<1>1. Init => Pool!Init
  <2> SUFFICES ASSUME Init PROVE Pool!Init
    OBVIOUS
  <2>1. ThreadsAt({"exec"}) = {} /\ main = "idle" /\ queue = 0
    BY DEF Init, ThreadsAt
  <2> QED
    BY <2>1 DEF Pool!Init
<1>2. IndInv /\ [Next]_vars => [Pool!Next]_(Pool!poolVars)
  <2> SUFFICES ASSUME IndInv, [Next]_vars PROVE [Pool!Next]_(Pool!poolVars)
    OBVIOUS
  <2>1. CASE UNCHANGED vars
    BY <2>1 DEF vars, Pool!poolVars, ThreadsAt
  <2> QED
    BY <2>1, ThreadStepRefines, OwnerStepRefines DEF Next
<1> QED
  BY <1>1, <1>2, CountersExact, PTL DEF SafetySpec, PoolSpec, Pool!Spec

=============================================================================
