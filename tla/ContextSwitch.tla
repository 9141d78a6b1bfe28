--------------------------- MODULE ContextSwitch ----------------------------
(***************************************************************************)
(* Changing the kubeconfig context: change_context of                      *)
(* lua/kubectl/resources/contexts/init.lua, set_implementation of          *)
(* lua/kubectl/client/init.lua, init_runtime and init_client_async of      *)
(* kubectl-client/src/lib.rs, composed with the reflector store, whose     *)
(* calls run on the same libuv worker threads.                             *)
(*                                                                         *)
(* init_runtime runs on the main thread and blocks it; the workers run on  *)
(* meanwhile.  init_client_async runs on a worker.  A context is named by  *)
(* the client that talks to its cluster.  The objects of the clusters do   *)
(* not change here; the collectors are in Collectors.tla.                  *)
(***************************************************************************)
EXTENDS Reflectors, Sequences

CONSTANTS
    MaxPending   \* bound: switches under way at a time (the user may press on)

ASSUME SwitchAssumption == MaxPending \in Nat \ {0}

VARIABLES
    shown,         \* state.context["current-context"]
    activeContext, \* ACTIVE_CONTEXT
    baseConfig,    \* BASE_CONFIG
    streamClient,  \* CLIENT_STREAM_INSTANCE
    main,          \* where the main thread is in init_runtime
    pending,       \* init_client_async calls waiting for a worker thread
    initCall,      \* the init_client_async call each worker runs
    answers,       \* finished calls whose callback the main loop has not run
    finishing,     \* how often the end of change_context is scheduled
    announced,     \* the context the splash reports as loaded, if it does
    configCalls    \* contexts state.setup waits for the minified kubeconfig of

switchVars ==
    <<shown, activeContext, baseConfig, streamClient, main, pending, initCall,
      answers, finishing, announced, configCalls>>

vars == <<reflectorVars, switchVars>>

Contexts == Clients
MaybeContext == Contexts \cup {NoClient}

MainIdle == [pc |-> "idle"]
NoInit == [pc |-> "none"]

UnderWay ==
    Len(pending) + Len(answers) + finishing
        + Cardinality({w \in Workers : initCall[w] # NoInit})

CallTypes ==
    /\ baseConfig \in MaybeContext
    /\ main \in {MainIdle} \cup
          [pc : {"drain", "config", "client", "stream", "queue"}, for : Contexts]
    /\ pending \in Seq(Contexts)
    /\ initCall \in [Workers -> {NoInit} \cup
          [pc : {"connect", "client", "stream"}, for : Contexts, config : Contexts]]

SwitchTypeOK ==
    /\ TypeOK
    /\ CallTypes
    /\ {shown, activeContext, streamClient, announced} \subseteq MaybeContext
    /\ answers \in Seq([for : Contexts, ok : BOOLEAN])
    /\ finishing \in Nat
    /\ configCalls \subseteq Contexts
    /\ UnderWay <= MaxPending

SwitchInit ==
    /\ Init
    /\ cluster = [c \in Clients |-> [k \in Kinds |-> Namespaces]]
    /\ shown = NoClient
    /\ activeContext = NoClient
    /\ baseConfig = NoClient
    /\ streamClient = NoClient
    /\ announced = NoClient
    /\ main = MainIdle
    /\ pending = <<>>
    /\ initCall = [w \in Workers |-> NoInit]
    /\ answers = <<>>
    /\ finishing = 0
    /\ configCalls = {}

-----------------------------------------------------------------------------
(* The main thread.                                                        *)

(* The scheduled half of change_context and the start of init_runtime.  It  *)
(* may come before the kubeconfig of an earlier switch is read.             *)
BeginSwitch(c) ==
    /\ main = MainIdle
    /\ UnderWay < MaxPending
    /\ shown' = c
    /\ announced' = NoClient
    /\ activeContext' = c
    /\ main' = [pc |-> "drain", for |-> c]
    /\ UNCHANGED <<reflectorVars, baseConfig, streamClient, pending, initCall, answers,
                   finishing, configCalls>>

Main(pc) == main # MainIdle /\ main.pc = pc

(* store_future of init_runtime's try_join, which is polled first. *)
DrainStore ==
    /\ Main("drain")
    /\ ShutdownAll
    /\ main' = [main EXCEPT !.pc = "config"]
    /\ UNCHANGED <<shown, activeContext, baseConfig, streamClient, pending, initCall,
                   answers, finishing, announced, configCalls>>

(* config_future.  A kubeconfig that cannot be loaded ends init_runtime     *)
(* there, and set_implementation does not look at its result.              *)
LoadConfig ==
    /\ Main("config")
    /\ \/ /\ main' = [main EXCEPT !.pc = "client"]
          /\ baseConfig' = main.for
       \/ /\ main' = [main EXCEPT !.pc = "queue"]
          /\ UNCHANGED baseConfig
    /\ UNCHANGED <<reflectorVars, shown, activeContext, streamClient, pending, initCall,
                   answers, finishing, announced, configCalls>>

ClearClient ==
    /\ Main("client")
    /\ SetClient(NoClient)
    /\ main' = [main EXCEPT !.pc = "stream"]
    /\ UNCHANGED <<shown, activeContext, baseConfig, streamClient, pending, initCall,
                   answers, finishing, announced, configCalls>>

(* Mutant: the stream client of the old context is kept. *)
KeepStreamClient ==
    /\ Main("stream")
    /\ main' = [main EXCEPT !.pc = "queue"]
    /\ UNCHANGED <<reflectorVars, shown, activeContext, baseConfig, streamClient, pending,
                   initCall, answers, finishing, announced, configCalls>>

ClearStreamClient ==
    /\ Main("stream")
    /\ streamClient' = NoClient
    /\ main' = [main EXCEPT !.pc = "queue"]
    /\ UNCHANGED <<reflectorVars, shown, activeContext, baseConfig, pending, initCall,
                   answers, finishing, announced, configCalls>>

(* run_async("init_client_async"); the main loop is free again. *)
QueueInit ==
    /\ Main("queue")
    /\ pending' = Append(pending, main.for)
    /\ main' = MainIdle
    /\ UNCHANGED <<reflectorVars, shown, activeContext, baseConfig, streamClient,
                   initCall, answers, finishing, announced, configCalls>>

(* Mutant: the callback does not look at ok. *)
CallbackUnchecked ==
    /\ main = MainIdle
    /\ answers # <<>>
    /\ answers' = Tail(answers)
    /\ finishing' = finishing + 1
    /\ UNCHANGED <<reflectorVars, shown, activeContext, baseConfig, streamClient, main,
                   pending, initCall, announced, configCalls>>

(* The callback of the call.  After a success init_metrics raises when      *)
(* another switch has dropped the client, and then nothing is reported;     *)
(* else the end of change_context is scheduled.  A failure is reported.     *)
Callback ==
    /\ main = MainIdle
    /\ answers # <<>>
    /\ answers' = Tail(answers)
    /\ IF Head(answers).ok /\ client # NoClient
       THEN finishing' = finishing + 1 /\ UNCHANGED announced
       ELSE /\ announced' = IF Head(answers).ok THEN announced ELSE NoClient
            /\ UNCHANGED finishing
    /\ UNCHANGED <<reflectorVars, shown, activeContext, baseConfig, streamClient, main,
                   pending, initCall, configCalls>>

(* What the callback has scheduled: state.setup asks for the kubeconfig of *)
(* the context shown by now, and that one is announced.                    *)
Finish ==
    /\ main = MainIdle
    /\ finishing > 0
    /\ finishing' = finishing - 1
    /\ configCalls' = configCalls \cup {shown}
    /\ announced' = shown
    /\ UNCHANGED <<reflectorVars, shown, activeContext, baseConfig, streamClient, main,
                   pending, initCall, answers>>

(* get_minified_config_async answers: state.context becomes the kubeconfig *)
(* of the context it was asked for, or stays if that could not be read.    *)
(* The short call is not counted among those that hold a worker thread.    *)
ConfigRead(c) ==
    /\ main = MainIdle
    /\ c \in configCalls
    /\ configCalls' = configCalls \ {c}
    /\ shown' \in {c, shown}
    /\ UNCHANGED <<reflectorVars, activeContext, baseConfig, streamClient, main, pending,
                   initCall, answers, finishing, announced>>

MainStep ==
    DrainStore \/ LoadConfig \/ ClearClient \/ ClearStreamClient \/ QueueInit
        \/ Callback \/ Finish

-----------------------------------------------------------------------------
(* init_client_async on a worker thread.                                   *)

WorkerFree(w) == call[w] = NoCall /\ initCall[w] = NoInit

(* Mutant: the call goes on after its answer. *)
AnswerKeepsThread(w, ok) ==
    /\ answers' = Append(answers, [for |-> initCall[w].for, ok |-> ok])
    /\ UNCHANGED initCall

Answer(w, ok) ==
    /\ answers' = Append(answers, [for |-> initCall[w].for, ok |-> ok])
    /\ initCall' = [initCall EXCEPT ![w] = NoInit]

(* It reads BASE_CONFIG when it gets a thread; there may be none yet. *)
StartInit(w) ==
    /\ pending # <<>>
    /\ WorkerFree(w)
    /\ pending' = Tail(pending)
    /\ IF baseConfig = NoClient
       THEN /\ answers' = Append(answers, [for |-> Head(pending), ok |-> FALSE])
            /\ UNCHANGED initCall
       ELSE /\ initCall' = [initCall EXCEPT
                  ![w] = [pc |-> "connect", for |-> Head(pending), config |-> baseConfig]]
            /\ UNCHANGED answers
    /\ UNCHANGED <<reflectorVars, shown, activeContext, baseConfig, streamClient, main,
                   finishing, announced, configCalls>>

(* apiserver_version() answers, or does not within 20 s. *)
Connect(w) ==
    /\ initCall[w].pc = "connect"
    /\ \/ /\ initCall' = [initCall EXCEPT ![w].pc = "client"]
          /\ UNCHANGED answers
       \/ Answer(w, FALSE)
    /\ UNCHANGED <<reflectorVars, shown, activeContext, baseConfig, streamClient, main,
                   pending, finishing, announced, configCalls>>

StoreClient(w) ==
    /\ initCall[w].pc = "client"
    /\ SetClient(initCall[w].config)
    /\ initCall' = [initCall EXCEPT ![w].pc = "stream"]
    /\ UNCHANGED <<shown, activeContext, baseConfig, streamClient, main, pending, answers,
                   finishing, announced, configCalls>>

StoreStreamClient(w) ==
    /\ initCall[w].pc = "stream"
    /\ streamClient' = initCall[w].config
    /\ Answer(w, TRUE)
    /\ UNCHANGED <<reflectorVars, shown, activeContext, baseConfig, main, pending,
                   finishing, announced, configCalls>>

InitStep(w) == StartInit(w) \/ Connect(w) \/ StoreClient(w) \/ StoreStreamClient(w)

-----------------------------------------------------------------------------
(* The rest of the program.                                                *)

FreeTasks == {t \in Tasks : task[t].phase = "free"}
Cloned == {w \in Workers : call[w].pc = "cloned"}

(* A view asks for its reflector.  Worker threads take calls in the order  *)
(* they were queued.  FreeTasks is a bound.                                *)
ViewStartsReflector(w, k, s) ==
    /\ main = MainIdle
    /\ pending = <<>>
    /\ WorkerFree(w)
    /\ Cardinality(FreeTasks) > Cardinality(Cloned)
    /\ StartReflector(w, k, s)
    /\ UNCHANGED switchVars

StoreStep ==
    /\ \/ \E w \in Workers : WorkerStep(w)
       \/ \E t \in Tasks : FirstList(t) \/ TaskEnds(t)
    /\ UNCHANGED switchVars

SwitchNext ==
    \/ \E c \in Contexts : BeginSwitch(c)
    \/ MainStep
    \/ \E c \in Contexts : ConfigRead(c)
    \/ \E w \in Workers : InitStep(w)
    \/ \E w \in Workers, k \in Kinds, s \in Scopes : ViewStartsReflector(w, k, s)
    \/ StoreStep

SwitchSpec == SwitchInit /\ [][SwitchNext]_vars

(* The main loop and the threads run on; a connection attempt ends with    *)
(* the client's read timeout at the latest.                                *)
SwitchFairness ==
    /\ WF_vars(MainStep)
    /\ \A c \in Contexts : WF_vars(ConfigRead(c))
    /\ \A w \in Workers : WF_vars(InitStep(w))
    /\ \A w \in Workers : WF_vars(WorkerStep(w) /\ UNCHANGED switchVars)
    /\ \A t \in Tasks : WF_vars((FirstList(t) \/ TaskEnds(t)) /\ UNCHANGED switchVars)

FairSwitchSpec == SwitchSpec /\ SwitchFairness

-----------------------------------------------------------------------------

Settled == main = MainIdle /\ UnderWay = 0

(* When all switches have ended and one is reported as loaded whose         *)
(* kubeconfig could be read, the tables and the streams are of the context  *)
(* it was asked for.  (Which name is reported is another matter: the        *)
(* kubeconfig of the context before may be read so late that its name is    *)
(* the one shown again.  A kubeconfig that cannot be read is not reported,  *)
(* and the context before is served.  And of two switches under way         *)
(* together the one that connects last is served.)                          *)
ReportedIsServed ==
    Settled /\ announced # NoClient /\ baseConfig = activeContext =>
        {client, streamClient} = {activeContext}

(* At no moment of a switch do the tables talk to one cluster and logs,    *)
(* exec and port forwards to another.                                      *)
ClientsAgree ==
    client # NoClient /\ streamClient # NoClient => client = streamClient

(* init_runtime of the next switch does not run while an init_client_async  *)
(* does: the user gives a switch the time to connect.  Nothing in the code  *)
(* sees to it.  Calls may wait for a thread meanwhile, and run together.    *)
NoSwitchOverCall == main # MainIdle => \A w \in Workers : initCall[w] = NoInit

\* The worker waits for the first list of a watcher that was not told to
\* stop and that its cluster never answers.
Hangs(w) ==
    /\ call[w].pc = "waiting"
    /\ task[call[w].task].phase = "running"
    /\ ~ Watchable(call[w].task)

(* When the store has been drained, the switch ends in a report, good or    *)
(* bad, also where every worker thread hung in a reflector of the old       *)
(* cluster that never lists: the drain gives the threads back.  The one     *)
(* exception is that every thread then takes up a call that had cloned the  *)
(* old client before the drain, and hangs in the watcher it adds after it;  *)
(* the switch waits for a thread for good.                                  *)
SwitchSettles == Main("config") ~> (Settled \/ \A w \in Workers : Hangs(w))

(* contexts/init.lua: change_context is to "change context and reset       *)
(* state".  When a switch is reported as loaded whose kubeconfig could be   *)
(* read, the store watches no other cluster.                                *)
StoreIsReset ==
    announced # NoClient /\ baseConfig = activeContext =>
        \A key \in Keys : storeMap[key] # NoTask =>
            task[storeMap[key]].client = activeContext
=============================================================================
