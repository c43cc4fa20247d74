--------------------------- MODULE HeartbeatProofs ---------------------------
(***************************************************************************)
(* Proofs about Heartbeat, for any number of pool threads, heartbeats in   *)
(* flight, faults and restores: no outage is forgotten, and a stopped      *)
(* service stays quiet.                                                    *)
(***************************************************************************)
EXTENDS Heartbeat, TLAPS

(* The types hold at the start ...                                         *)
LEMMA InitTypes == Init => TypeOK
<1> SUFFICES ASSUME Init PROVE TypeOK
  OBVIOUS
<1>1. /\ m_prevLostConnection \in BOOLEAN /\ timer \in BOOLEAN
      /\ up \in BOOLEAN /\ owed \in BOOLEAN /\ noticed \in BOOLEAN
      /\ routesLost \in BOOLEAN /\ cutShort \in BOOLEAN
  BY Zenon DEF Init
<1>2. uptimeSecs \in Nat
  BY HeartbeatAssumption DEF Init
<1> QED
  BY <1>1, <1>2 DEF Init, TypeOK, PCs

(* ... and every step keeps them.                                          *)
LEMMA NextTypes == TypeOK /\ [Next]_vars => TypeOK'
<1> SUFFICES ASSUME TypeOK, [Next]_vars PROVE TypeOK'
  OBVIOUS
<1>1. /\ m_prevLostConnection' \in BOOLEAN /\ timer' \in BOOLEAN
      /\ up' \in BOOLEAN /\ owed' \in BOOLEAN /\ noticed' \in BOOLEAN
      /\ routesLost' \in BOOLEAN /\ cutShort' \in BOOLEAN
  <2> USE DEF TypeOK, Next, vars, switchVars, ghosts, heartbeatLoop, WorkerStep,
       Take, Answer, BadAnswer, HandlerStep, HandleFailed, HandleAlive,
       HandleRestored, HandleRestoredEnd, RestoreStep, RestoreEnds, RestoreFails,
       RestoreCutShort, handlerFailedCallback, StopPool, CancelTimer, SwitchDown,
       SwitchUp, SwitchRebooted, Clock
  <2>1. m_prevLostConnection' \in BOOLEAN /\ timer' \in BOOLEAN
    BY Zenon
  <2>2. up' \in BOOLEAN /\ owed' \in BOOLEAN
    BY Zenon
  <2>3. noticed' \in BOOLEAN /\ routesLost' \in BOOLEAN
    BY Zenon
  <2>4. cutShort' \in BOOLEAN
    BY Zenon
  <2> QED
    BY <2>1, <2>2, <2>3, <2>4
<1> USE <1>1 DEF TypeOK, PCs, Fault, LookupFails, switchVars
<1>2. ASSUME NEW w \in Workers, WorkerStep(w) \/ BadAnswer(w) PROVE TypeOK'
  <2>1. CASE Take(w) BY <2>1 DEF Take
  <2>2. CASE Answer(w) BY <2>2 DEF Answer
  <2>3. CASE BadAnswer(w) BY <2>3 DEF BadAnswer
  <2>4. CASE HandleFailed(w) BY <2>4 DEF HandleFailed
  <2>5. CASE HandleAlive(w) BY <2>5 DEF HandleAlive
  <2>6. CASE HandleRestored(w) BY <2>6 DEF HandleRestored, MutexFree
  <2>7. CASE HandleRestoredEnd(w) BY <2>7 DEF HandleRestoredEnd
  <2> QED
    BY <1>2, <2>1, <2>2, <2>3, <2>4, <2>5, <2>6, <2>7 DEF WorkerStep, HandlerStep
<1>3. CASE heartbeatLoop BY <1>3 DEF heartbeatLoop
<1>4. CASE RestoreEnds BY <1>4 DEF RestoreEnds
<1>5. CASE RestoreFails BY <1>5 DEF RestoreFails
<1>6. CASE handlerFailedCallback BY <1>6 DEF handlerFailedCallback
<1>7. CASE StopPool BY <1>7 DEF StopPool
<1>8. CASE CancelTimer BY <1>8 DEF CancelTimer
<1>9. CASE SwitchDown BY <1>9 DEF SwitchDown
<1>10. CASE SwitchUp BY <1>10 DEF SwitchUp
<1>11. CASE Clock BY <1>11 DEF Clock
<1>12. CASE RestoreCutShort BY <1>12 DEF RestoreCutShort
<1>13. CASE SwitchRebooted BY <1>13 DEF SwitchRebooted
<1>14. CASE UNCHANGED vars BY <1>14 DEF vars
<1> QED
  BY <1>2, <1>3, <1>4, <1>5, <1>6, <1>7, <1>8, <1>9, <1>10, <1>11, <1>12, <1>13,
     <1>14 DEF Next, RestoreStep

----------------------------------------------------------------------------

IndInv == TypeOK /\ HeartbeatInv

(* A step of one pool thread.  Clearing the flag is the delicate one:      *)
(* HandleRestoredEnd relies on the mutex it holds, HandleAlive on the flag *)
(* having been clear.                                                      *)
LEMMA WorkerStepInv ==
    ASSUME NEW w \in Workers, IndInv, WorkerStep(w) \/ BadAnswer(w)
    PROVE  HeartbeatInv'
<1> USE DEF IndInv, HeartbeatInv, OutageRemembered, StoppedIsQuiet, MutexFree, ghosts
<1>a. pc \in [Workers -> PCs]
  BY DEF TypeOK
<1>s. main # "stopped"
  BY DEF TypeOK, WorkerStep, HandlerStep, Take, Answer, BadAnswer, HandleFailed,
         HandleAlive, HandleRestored, HandleRestoredEnd
<1>m. main' = main /\ callbacks' = callbacks
  BY DEF WorkerStep, HandlerStep, Take, Answer, BadAnswer, HandleFailed,
         HandleAlive, HandleRestored, HandleRestoredEnd
<1>1. CASE Take(w) BY <1>a, <1>s, <1>m, <1>1 DEF Take
<1>2. CASE Answer(w) BY <1>a, <1>s, <1>m, <1>2 DEF Answer
<1>3. CASE BadAnswer(w) BY <1>a, <1>s, <1>m, <1>3 DEF BadAnswer
<1>4. CASE HandleFailed(w) BY <1>a, <1>s, <1>m, <1>4 DEF HandleFailed
<1>5. CASE HandleAlive(w) BY <1>a, <1>s, <1>m, <1>5 DEF HandleAlive, Restarted
<1>6. CASE HandleRestored(w) BY <1>a, <1>s, <1>m, <1>6 DEF HandleRestored
<1>7. CASE HandleRestoredEnd(w) BY <1>a, <1>s, <1>m, <1>7 DEF HandleRestoredEnd
<1> QED
  BY <1>1, <1>2, <1>3, <1>4, <1>5, <1>6, <1>7 DEF WorkerStep, HandlerStep

(* Every other step.                                                       *)
LEMMA NextInv == IndInv /\ [Next]_vars => IndInv'
<1> SUFFICES ASSUME IndInv, [Next]_vars PROVE IndInv'
  OBVIOUS
<1>1. TypeOK'
  BY NextTypes DEF IndInv
<1>2. HeartbeatInv'
  <2> USE DEF IndInv, HeartbeatInv, OutageRemembered, StoppedIsQuiet, MutexFree, ghosts
  <2>1. ASSUME NEW w \in Workers, WorkerStep(w) \/ BadAnswer(w) PROVE HeartbeatInv'
    BY <2>1, WorkerStepInv
  <2>2. CASE heartbeatLoop BY <2>2 DEF heartbeatLoop
  <2>3. CASE RestoreEnds BY <2>3 DEF RestoreEnds
  <2>4. CASE RestoreFails BY <2>4 DEF RestoreFails, TypeOK
  <2>5. CASE handlerFailedCallback BY <2>5 DEF handlerFailedCallback
  <2>6. CASE StopPool BY <2>6 DEF StopPool
  <2>7. CASE CancelTimer BY <2>7 DEF CancelTimer
  <2>8. CASE SwitchDown BY <2>8 DEF SwitchDown
  <2>9. CASE SwitchUp BY <2>9 DEF SwitchUp
  <2>10. CASE Clock BY <2>10 DEF Clock
  <2>11. CASE RestoreCutShort BY <2>11 DEF RestoreCutShort
  <2>12. CASE SwitchRebooted BY <2>12 DEF SwitchRebooted
  <2>13. CASE UNCHANGED vars BY <2>13 DEF vars
  <2> QED
    BY <2>1, <2>2, <2>3, <2>4, <2>5, <2>6, <2>7, <2>8, <2>9, <2>10, <2>11, <2>12,
       <2>13 DEF Next, RestoreStep
<1> QED
  BY <1>1, <1>2 DEF IndInv

(* The invariant over every behaviour of the service.                      *)
LEMMA HeartbeatInvariant == SafetySpec => []IndInv
<1>1. Init => IndInv
  BY InitTypes DEF Init, IndInv, HeartbeatInv, OutageRemembered, StoppedIsQuiet, MutexFree
<1> QED
  BY <1>1, NextInv, PTL DEF SafetySpec

(* The counters of the service stay natural numbers, and one handler at a  *)
(* time is between lines 111 and 123 with m_heartbeatMutex.                *)
THEOREM HeartbeatTypeCorrect == SafetySpec => []TypeOK
<1>1. IndInv => TypeOK
  BY DEF IndInv
<1> QED
  BY <1>1, HeartbeatInvariant, PTL

(* A failed heartbeat or restore keeps its claim to a restore: the reset   *)
(* of m_prevLostConnection at line 121 never overwrites a report that came *)
(* in while the handler was posting the restore.                           *)
THEOREM NoOutageForgotten == SafetySpec => []OutageRemembered
<1>1. IndInv => OutageRemembered
  BY DEF IndInv, HeartbeatInv
<1> QED
  BY <1>1, HeartbeatInvariant, PTL

(* stopService leaves no timer that a handler could have set up again.     *)
THEOREM StopIsQuiet == SafetySpec => []StoppedIsQuiet
<1>1. IndInv => StoppedIsQuiet
  BY DEF IndInv, HeartbeatInv
<1> QED
  BY <1>1, HeartbeatInvariant, PTL

=============================================================================
