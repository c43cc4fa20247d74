---------------------------- MODULE RequestPool ----------------------------
(***************************************************************************)
(* What a thread pool promises to those who post requests to it: they may  *)
(* post at any time, a posted request is taken once, none runs before the  *)
(* pool is started or after it has stopped, and what was not taken by then *)
(* waits for the next start.                                               *)
(* While it stops, the owner helps to empty the queue.                     *)
(*                                                                         *)
(* The mutex, the condition variable, the counters and the IOService are   *)
(* not part of this specification; module HttpClientPool implements it.    *)
(***************************************************************************)
EXTENDS Naturals

CONSTANT Threads

VARIABLES
    phase,      \* "down", "starting", "up" or "stopping"
    waiting,    \* the number of requests nobody has taken
    running,    \* the threads that run one
    draining    \* the owner runs one

poolVars == <<phase, waiting, running, draining>>

Init == phase = "down" /\ waiting = 0 /\ running = {} /\ draining = FALSE

Phase(from, to) ==
    /\ phase \in from
    /\ phase' = to
    /\ UNCHANGED <<waiting, running, draining>>

Start   == Phase({"down"}, "starting")
Started == Phase({"starting"}, "up")
Stop    == Phase({"down", "up"}, "stopping")
Stopped == running = {} /\ ~draining /\ Phase({"stopping"}, "down")

Post ==
    /\ waiting' = waiting + 1
    /\ UNCHANGED <<phase, running, draining>>

(* Somebody takes a request; one that ends may have posted the next.       *)
TakeOne  == waiting > 0 /\ waiting' = waiting - 1
MaybePost == waiting' \in {waiting, waiting + 1}

Begin(t) ==
    /\ phase # "down" /\ t \notin running
    /\ TakeOne
    /\ running' = running \cup {t}
    /\ UNCHANGED <<phase, draining>>

End(t) ==
    /\ t \in running
    /\ MaybePost
    /\ running' = running \ {t}
    /\ UNCHANGED <<phase, draining>>

Drain ==
    /\ phase = "stopping" /\ ~draining
    /\ TakeOne
    /\ draining' = TRUE
    /\ UNCHANGED <<phase, running>>

Drained ==
    /\ draining
    /\ MaybePost
    /\ draining' = FALSE
    /\ UNCHANGED <<phase, running>>

Next ==
    \/ Start \/ Started \/ Stop \/ Stopped
    \/ Post \/ Drain \/ Drained
    \/ \E t \in Threads : Begin(t) \/ End(t)

Spec == Init /\ [][Next]_poolVars

=============================================================================
