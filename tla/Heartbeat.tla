------------------------------ MODULE Heartbeat ------------------------------
(***************************************************************************)
(* The API server heartbeat: the health collector of                       *)
(* kubectl-client/src/health.rs, which lives in a OnceLock, its start and  *)
(* stop by init_metrics and init_runtime of lib.rs, and the timers of      *)
(* lua/kubectl/state.lua that copy the cached result to the header.        *)
(***************************************************************************)
EXTENDS Naturals, FiniteSets

CONSTANTS
    Servers,      \* the clusters that can be connected to, by their API servers
    NoServer,     \* not connected, no collector
    MaxConnects   \* bound: how often the plugin connects (1 = no context change)

ASSUME HeartbeatAssumption == NoServer \notin Servers /\ MaxConnects \in Nat \ {0}

VARIABLES
    connected, \* the context that is connected, NoServer before and in a switch
    connects,  \* how often it has connected
    alive,     \* alive[c]: c's API server answers /livez with ok
    health,    \* HEALTH_COLLECTOR: [phase, ctx, answer]
    healthOk,  \* HEALTH_OK
    setup,     \* state.setup waits for get_minified_config_async
    isOpen,    \* M.is_open of init.lua
    timer,     \* M.livez.timer runs
    oldTimers, \* a timer of an earlier setup runs, which nothing refers to
    livez      \* M.livez.ok, what the header shows

timerVars == <<isOpen, timer, oldTimers>>
heartbeatVars ==
    <<connected, connects, alive, health, healthOk, setup, timerVars, livez>>

Unset == [phase |-> "unset", ctx |-> NoServer, answer |-> "none"]

HeartbeatTypeOK ==
    /\ connected \in Servers \cup {NoServer}
    /\ connects \in 0..MaxConnects
    /\ alive \in [Servers -> BOOLEAN]
    /\ health \in [phase : {"unset", "ticking", "checking", "ended"},
                   ctx : Servers \cup {NoServer},
                   answer : {"none", "ok", "failed"}]
                  \cup [phase : {"cancelled"}, ctx : Servers,
                        answer : {"none", "ok", "failed"}, checking : BOOLEAN]
    /\ healthOk \in BOOLEAN
    /\ setup \in BOOLEAN
    /\ isOpen \in BOOLEAN
    /\ timer \in BOOLEAN
    /\ oldTimers \in BOOLEAN
    /\ livez \in BOOLEAN

HeartbeatInit ==
    /\ connected = NoServer
    /\ connects = 0
    /\ alive \in [Servers -> BOOLEAN]
    /\ health = Unset
    /\ healthOk = FALSE
    /\ setup = FALSE
    /\ isOpen = FALSE
    /\ timer = FALSE
    /\ oldTimers = FALSE
    /\ livez = FALSE

-----------------------------------------------------------------------------
(* init_metrics, then state.setup: spawn_health_collector is get_or_init,  *)
(* so only the very first call of the process starts a task.  The plugin   *)
(* has been opened, or is changing its context.                            *)
Connect(c) ==
    /\ connected = NoServer
    /\ connects < MaxConnects
    /\ connected' = c
    /\ connects' = connects + 1
    /\ health' = IF health.phase = "unset"
                 THEN [phase |-> "ticking", ctx |-> c, answer |-> "none"] ELSE health
    /\ setup' = TRUE
    /\ isOpen' \in {isOpen, TRUE}
    /\ UNCHANGED <<alive, healthOk, timer, oldTimers, livez>>

(* init_runtime of a context change, or of a second toggle of the plugin:  *)
(* shutdown_health_collector cancels the token, and clears nothing.        *)
Disconnect ==
    /\ connected # NoServer
    /\ connected' = NoServer
    /\ health' = IF health.phase \in {"ticking", "checking"}
                 THEN [phase |-> "cancelled", ctx |-> health.ctx,
                       answer |-> health.answer, checking |-> health.phase = "checking"]
                 ELSE health
    /\ UNCHANGED <<connects, alive, healthOk, setup, timerVars, livez>>

(* The plugin is closed (M.close, M.toggle): stop_livez stops the timer of  *)
(* the last setup.  The health task goes on.                               *)
Close ==
    /\ isOpen
    /\ isOpen' = FALSE
    /\ timer' = FALSE
    /\ UNCHANGED <<connected, connects, alive, health, healthOk, setup, oldTimers, livez>>

(* A tick of 2 s wins the select!, and /livez is asked. *)
Tick ==
    /\ health.phase = "ticking"
    /\ health' = [health EXCEPT !.phase = "checking",
                    !.answer = IF alive[health.ctx] THEN "ok" ELSE "failed"]
    /\ UNCHANGED <<connected, connects, alive, healthOk, setup, timerVars, livez>>

(* Mutant: only a good answer is stored. *)
StoreGood ==
    /\ \/ health.phase = "checking"
       \/ health.phase = "cancelled" /\ health.checking
    /\ healthOk' = (healthOk \/ health.answer = "ok")
    /\ health' = IF health.phase = "checking"
                 THEN [health EXCEPT !.phase = "ticking", !.answer = "none"]
                 ELSE [health EXCEPT !.checking = FALSE, !.answer = "none"]
    /\ UNCHANGED <<connected, connects, alive, setup, timerVars, livez>>

(* The answer, or the timeout of 2 s, is stored; a check under way is not  *)
(* interrupted by the cancellation, which is seen at the next select!.     *)
Store ==
    /\ \/ health.phase = "checking"
       \/ health.phase = "cancelled" /\ health.checking
    /\ healthOk' = (health.answer = "ok")
    /\ health' = IF health.phase = "checking"
                 THEN [health EXCEPT !.phase = "ticking", !.answer = "none"]
                 ELSE [health EXCEPT !.checking = FALSE, !.answer = "none"]
    /\ UNCHANGED <<connected, connects, alive, setup, timerVars, livez>>

End ==
    /\ health.phase = "cancelled"
    /\ ~ health.checking
    /\ health' = [phase |-> "ended", ctx |-> health.ctx, answer |-> "none"]
    /\ UNCHANGED <<connected, connects, alive, healthOk, setup, timerVars, livez>>

(* The callback of state.setup: checkHealth starts a timer, beside the one *)
(* that an earlier connection may have left running.                       *)
CheckHealth ==
    /\ setup
    /\ setup' = FALSE
    /\ timer' = TRUE
    /\ oldTimers' = (oldTimers \/ timer)
    /\ UNCHANGED <<connected, connects, alive, health, healthOk, isOpen, livez>>

(* A timer of checkHealth fires: get_health_status. *)
ReadHealth ==
    /\ timer \/ oldTimers
    /\ livez' = healthOk
    /\ UNCHANGED <<connected, connects, alive, health, healthOk, setup, timerVars>>

(* The API server goes down or comes back. *)
ServerChanges(c) ==
    /\ alive' = [alive EXCEPT ![c] = ~ @]
    /\ UNCHANGED <<connected, connects, health, healthOk, setup, timerVars, livez>>

HeartbeatNext ==
    \/ \E c \in Servers : Connect(c)
    \/ Disconnect \/ Close
    \/ Tick
    \/ Store
    \/ End
    \/ CheckHealth
    \/ ReadHealth
    \/ \E c \in Servers : ServerChanges(c)

HeartbeatFairness ==
    /\ WF_heartbeatVars(Tick)
    /\ WF_heartbeatVars(Store)
    /\ WF_heartbeatVars(End)
    /\ WF_heartbeatVars(CheckHealth)
    /\ WF_heartbeatVars(ReadHealth)

HeartbeatSpec == HeartbeatInit /\ [][HeartbeatNext]_heartbeatVars
HeartbeatFairSpec == HeartbeatSpec /\ HeartbeatFairness

-----------------------------------------------------------------------------

ServersLeftAlone == <>[][FALSE]_alive

(* "Health check runs in background Rust task every 2s", says state.lua:   *)
(* while the plugin is open, a cluster is connected and its API server     *)
(* stays as it is, the header ends up showing whether that server is up.   *)
HeartbeatFollows ==
    \A c \in Servers :
        (ServersLeftAlone /\ <>[](isOpen /\ connected = c)) => <>[](livez = alive[c])
=============================================================================
