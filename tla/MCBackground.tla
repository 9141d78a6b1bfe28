---------------------------- MODULE MCBackground ----------------------------
(* What goes on behind the views, on small instances: the tasks that       *)
(* init_metrics starts, the cache of API resources, and port forwards.  The *)
(* four share no state, so one run explores them without interleaving      *)
(* them: a behaviour is about one of them, and before the plugin has       *)
(* connected none of the others' fair actions is enabled.                  *)
EXTENDS Collectors, Heartbeat, ApiCache, PortForward

VARIABLE part  \* which of the four this behaviour is about

backgroundVars == <<part, collectorVars, heartbeatVars, cacheVars, pfVars>>

MCInit ==
    /\ part \in {"collectors", "heartbeat", "cache", "forwards"}
    /\ CollectorInit
    /\ part # "collectors" => usage = [c \in Contexts |-> CHOOSE s \in Samples : TRUE]
    /\ HeartbeatInit
    /\ part # "heartbeat" => alive = [c \in Servers |-> TRUE]
    /\ CacheInit
    /\ PfInit

MCSpec ==
    /\ MCInit
    /\ [][ /\ UNCHANGED part
           /\ \/ part = "collectors" /\ CollectorNext /\ UNCHANGED <<heartbeatVars, cacheVars, pfVars>>
              \/ part = "heartbeat" /\ HeartbeatNext /\ UNCHANGED <<collectorVars, cacheVars, pfVars>>
              \/ part = "cache" /\ CacheNext /\ UNCHANGED <<collectorVars, heartbeatVars, pfVars>>
              \/ part = "forwards" /\ PfNext /\ UNCHANGED <<collectorVars, heartbeatVars, cacheVars>>
         ]_backgroundVars
    /\ CollectorFairness /\ HeartbeatFairness /\ CacheFairness /\ PfFairness

(* Type correctness of metrics/*.rs, health.rs, cache.lua and              *)
(* portforward.rs: the slots, the tasks, the statistics, the heartbeat,    *)
(* the tables and files, the forwards and connections are well formed.     *)
BackgroundTypeOK == CollectorTypeOK /\ HeartbeatTypeOK /\ CacheTypeOK /\ PfTypeOK
=============================================================================
