---------------------------- MODULE HookLibrary ----------------------------
(***************************************************************************)
(* The life of the hook library: it is loaded with a configuration and     *)
(* started, sends requests to the switch while it runs and acts on the     *)
(* replies, and is unloaded when no request is under way (the pool's       *)
(* threads are joined, see HttpClientPool).                                *)
(***************************************************************************)
EXTENDS ConnectionConfig, NXOSReplies

vars == <<configVars, replyVars>>

Stages == {"idle", "replied", "validated", "done"}
Kinds  == {"nothing", "failed", "thrown", "undefined", "success", "posted",
           "handlerFailed", "mapping", "lost", "alive"}

TypeOK ==
    /\ config.seconds \in Int
    /\ phase \in {"unloaded", "loaded", "running", "crashed"}
    /\ period \in Int
    /\ wraps \in BOOLEAN
    /\ stage \in Stages
    /\ request \in Requests \cup {"none"}
    /\ rpc.verdict \in {"ok", "rpc", "thrown", "undefined"}
    /\ outcome.kind \in Kinds
    /\ stage # "idle" => phase = "running"

Init == ConfigInit /\ ReplyInit

(* Mutation of ConfigStep: the library does not wait for its request.      *)
ConfigStepBusy == ConfigNext /\ UNCHANGED replyVars

ConfigStep == stage = "idle" /\ ConfigNext /\ UNCHANGED replyVars
ReplyStep  == phase = "running" /\ ReplyNext /\ UNCHANGED configVars

Next == ConfigStep \/ ReplyStep

Spec == Init /\ [][Next]_vars

=============================================================================
