----------------------------- MODULE Reflectors -----------------------------
(***************************************************************************)
(* The reflector store of kubectl-client/src/store.rs: the process-wide    *)
(* STORE_MAP from (kind, namespace or All) to a watcher task and the       *)
(* in-memory store that task fills, and the start_reflector_async calls of *)
(* lib.rs that insert into it from libuv worker threads.                   *)
(*                                                                         *)
(* A worker clones the client under the CLIENT_INSTANCE lock, and only     *)
(* later takes the write lock of STORE_MAP: the two are separate steps, and *)
(* anything may run between them.  All work done under the write lock is   *)
(* one step, since create_reflector never suspends.                        *)
(*                                                                         *)
(* There is one object of each kind in each namespace; whether it exists   *)
(* on a cluster is all the data there is.                                  *)
(***************************************************************************)
EXTENDS Naturals, FiniteSets

CONSTANTS
    Kinds,       \* the kinds a view may ask for
    Namespaces,  \* the namespaces a view may ask for
    All,         \* the key's None: every namespace
    Clients,     \* one client for each cluster (kubeconfig context)
    NoClient,    \* CLIENT_INSTANCE is None
    Tasks,       \* the watcher tasks ever spawned (tokio has no bound)
    NoTask,      \* no entry in STORE_MAP
    Workers,     \* the libuv threads that run uv.new_work
    Unwatchable  \* <<client, kind>> pairs whose list never succeeds

ASSUME ConstantsDistinct ==
    /\ All \notin Namespaces
    /\ NoTask \notin Tasks
    /\ NoClient \notin Clients

VARIABLES
    client,    \* CLIENT_INSTANCE
    storeMap,  \* STORE_MAP
    task,      \* each watcher task: its life cycle and what it watches
    content,   \* content[t]: what task t's Store holds
    cluster,   \* cluster[c][k]: the namespaces where k's object exists on c
    call       \* the start_reflector_async call each worker runs

reflectorVars == <<client, storeMap, task, content, cluster, call>>

Scopes == Namespaces \cup {All}
Keys == Kinds \X Scopes

NoCall == [pc |-> "idle"]

TaskRecord == [phase : {"free"}] \cup
    [phase : {"running", "stopping", "stopped"}, synced : BOOLEAN,
     key : Keys, client : Clients]

CallRecord == {NoCall} \cup
    [pc : {"cloned"}, key : Keys, client : Clients] \cup
    [pc : {"waiting"}, key : Keys, client : Clients, task : Tasks]

TypeOK ==
    /\ client \in Clients \cup {NoClient}
    /\ storeMap \in [Keys -> Tasks \cup {NoTask}]
    /\ task \in [Tasks -> TaskRecord]
    /\ content \in [Tasks -> SUBSET Namespaces]
    /\ cluster \in [Clients -> [Kinds -> SUBSET Namespaces]]
    /\ call \in [Workers -> CallRecord]

Live(t) == task[t].phase \in {"running", "stopping"}

Init ==
    /\ client = NoClient
    /\ storeMap = [k \in Keys |-> NoTask]
    /\ task = [t \in Tasks |-> [phase |-> "free"]]
    /\ content = [t \in Tasks |-> {}]
    /\ cluster \in [Clients -> [Kinds -> SUBSET Namespaces]]
    /\ call = [w \in Workers |-> NoCall]

-----------------------------------------------------------------------------
(* Reading: store::get.  The All entry answers first; with no entry at all *)
(* the answer is empty.                                                    *)

Serving(k, s) ==
    IF storeMap[<<k, All>>] # NoTask THEN storeMap[<<k, All>>] ELSE storeMap[<<k, s>>]

MatchesNamespace(objs, s) == IF s = All THEN objs ELSE objs \cap {s}

Get(k, s) ==
    IF Serving(k, s) = NoTask THEN {} ELSE MatchesNamespace(content[Serving(k, s)], s)

-----------------------------------------------------------------------------
(* Starting: start_reflector_async and init_reflector_for_kind.            *)

(* Mutant: with_client hands on what CLIENT_INSTANCE holds, None or not. *)
StartUnchecked(w, k, s) ==
    /\ call[w] = NoCall
    /\ call' = [call EXCEPT ![w] = [pc |-> "cloned", key |-> <<k, s>>, client |-> client]]
    /\ UNCHANGED <<client, storeMap, task, content, cluster>>

(* with_client clones the client of the moment and releases its lock. *)
StartReflector(w, k, s) ==
    /\ call[w] = NoCall
    /\ client # NoClient
    /\ call' = [call EXCEPT ![w] = [pc |-> "cloned", key |-> <<k, s>>, client |-> client]]
    /\ UNCHANGED <<client, storeMap, task, content, cluster>>

(* Mutant: only the requested key is looked up. *)
ReusableExact(k, s) == storeMap[<<k, s>>] # NoTask

Reusable(k, s) == storeMap[<<k, All>>] # NoTask \/ storeMap[<<k, s>>] # NoTask

(* An entry that covers the request is reused, synced or not. *)
ReuseReflector(w) ==
    /\ call[w].pc = "cloned"
    /\ Reusable(call[w].key[1], call[w].key[2])
    /\ call' = [call EXCEPT ![w] = NoCall]
    /\ UNCHANGED <<client, storeMap, task, content, cluster>>

(* Mutant: the entry is dropped, its task is not told. *)
SignalledNone(T) == task

(* data.cancel.cancel() and data.handle.abort() for the tasks of a set. *)
Signalled(T) ==
    [t \in Tasks |->
        IF t \in T /\ task[t].phase = "running"
        THEN [task[t] EXCEPT !.phase = "stopping"] ELSE task[t]]

(* Mutants: nothing is removed; all namespaces are, whatever was asked for. *)
RedundantNone(k, s) == {}
RedundantAlways(k, s) == {<<k, n>> : n \in Namespaces}

(* shutdown_namespaced_reflectors: the entries it removes from the map. *)
Redundant(k, s) == IF s = All THEN {<<k, n>> : n \in Namespaces} ELSE {}

TasksAt(K) == {storeMap[key] : key \in K} \ {NoTask}

(* Under the write lock: remove what All makes redundant, spawn, insert. *)
CreateReflector(w, t) ==
    /\ call[w].pc = "cloned"
    /\ task[t].phase = "free"
    /\ LET k == call[w].key[1]
           s == call[w].key[2]
       IN /\ ~ Reusable(k, s)
          /\ storeMap' = [key \in Keys |->
                IF key = <<k, s>> THEN t
                ELSE IF key \in Redundant(k, s) THEN NoTask ELSE storeMap[key]]
          /\ task' = [Signalled(TasksAt(Redundant(k, s))) EXCEPT
                ![t] = [phase |-> "running", synced |-> FALSE,
                        key |-> <<k, s>>, client |-> call[w].client]]
          /\ call' = [call EXCEPT
                ![w] = [pc |-> "waiting", key |-> <<k, s>>,
                        client |-> call[w].client, task |-> t]]
    /\ UNCHANGED <<client, content, cluster>>

(* Mutant: the wait does not notice that the writer is gone. *)
ReadyWhenSynced(w) ==
    /\ call[w].pc = "waiting"
    /\ task[call[w].task].synced
    /\ call' = [call EXCEPT ![w] = NoCall]
    /\ UNCHANGED <<client, storeMap, task, content, cluster>>

(* reader.wait_until_ready() answers when the first list is in the store, or *)
(* with an error, which is ignored, once the task's writer is dropped.       *)
ReflectorReady(w) ==
    /\ call[w].pc = "waiting"
    /\ LET t == call[w].task IN task[t].synced \/ task[t].phase = "stopped"
    /\ call' = [call EXCEPT ![w] = NoCall]
    /\ UNCHANGED <<client, storeMap, task, content, cluster>>

-----------------------------------------------------------------------------
(* The watcher task: list, then watch, until the abort reaches an await.   *)

Listed(t) == MatchesNamespace(cluster[task[t].client][task[t].key[1]], task[t].key[2])

(* A list completes (the first one, or one after the watch was lost). *)
List(t) ==
    /\ Live(t)
    /\ <<task[t].client, task[t].key[1]>> \notin Unwatchable
    /\ content' = [content EXCEPT ![t] = Listed(t)]
    /\ task' = [task EXCEPT ![t].synced = TRUE]
    /\ UNCHANGED <<client, storeMap, cluster, call>>

(* Mutant: Delete events are not applied. *)
WatchApplyOnly(t, n) ==
    /\ Live(t)
    /\ task[t].synced
    /\ n \in Listed(t) \ content[t]
    /\ content' = [content EXCEPT ![t] = @ \cup {n}]
    /\ UNCHANGED <<client, storeMap, task, cluster, call>>

(* An Apply or Delete event for the object of one namespace. *)
WatchEvent(t, n) ==
    /\ Live(t)
    /\ task[t].synced
    /\ (n \in content[t]) # (n \in Listed(t))
    /\ content' = [content EXCEPT
          ![t] = IF n \in Listed(t) THEN @ \cup {n} ELSE @ \ {n}]
    /\ UNCHANGED <<client, storeMap, task, cluster, call>>

(* The aborted task is dropped, and its writer with it. *)
TaskEnds(t) ==
    /\ task[t].phase = "stopping"
    /\ task' = [task EXCEPT ![t].phase = "stopped"]
    /\ UNCHANGED <<client, storeMap, content, cluster, call>>

-----------------------------------------------------------------------------
(* What the rest of the program and the clusters do.                       *)

(* Mutant: iterates over the map instead of draining it. *)
ShutdownUndrained ==
    /\ task' = Signalled(TasksAt(Keys))
    /\ UNCHANGED <<client, storeMap, content, cluster, call>>

(* shutdown_all_reflectors: drain the map, stop every task in it. *)
ShutdownAll ==
    /\ storeMap' = [key \in Keys |-> NoTask]
    /\ task' = Signalled(TasksAt(Keys))
    /\ UNCHANGED <<client, content, cluster, call>>

(* init_client_async stores a client, init_runtime and shutdown_async drop it. *)
SetClient(c) ==
    /\ client' = c
    /\ UNCHANGED <<storeMap, task, content, cluster, call>>

(* Someone creates or deletes an object. *)
ClusterChanges(c, k, n) ==
    /\ cluster' = [cluster EXCEPT ![c][k] = IF n \in @ THEN @ \ {n} ELSE @ \cup {n}]
    /\ UNCHANGED <<client, storeMap, task, content, call>>

WorkerStep(w) ==
    \/ ReuseReflector(w)
    \/ \E t \in Tasks : CreateReflector(w, t)
    \/ ReflectorReady(w)

TaskStep(t) ==
    \/ List(t)
    \/ \E n \in Namespaces : WatchEvent(t, n)
    \/ TaskEnds(t)

Next ==
    \/ \E w \in Workers, k \in Kinds, s \in Scopes : StartReflector(w, k, s)
    \/ \E w \in Workers : WorkerStep(w)
    \/ \E t \in Tasks : TaskStep(t)
    \/ ShutdownAll
    \/ \E c \in Clients \cup {NoClient} : SetClient(c)
    \/ \E c \in Clients, k \in Kinds, n \in Namespaces : ClusterChanges(c, k, n)

Spec == Init /\ [][Next]_reflectorVars

-----------------------------------------------------------------------------
(* Safety.                                                                 *)

\* A kind watched in all namespaces has no namespaced watcher beside it.
AllReplacesNamespaced ==
    \A k \in Kinds, n \in Namespaces :
        storeMap[<<k, All>>] # NoTask => storeMap[<<k, n>>] = NoTask

\* A task that was not told to stop is where STORE_MAP has its key.
NoStrayWatcher ==
    \A t \in Tasks : task[t].phase = "running" => storeMap[task[t].key] = t

\* STORE_MAP holds no task that was told to stop.
ServedByRunning ==
    \A key \in Keys : storeMap[key] # NoTask =>
        /\ task[storeMap[key]].phase = "running"
        /\ task[storeMap[key]].key = key

(* STORE_MAP and the tasks agree, whichever workers race: no watcher runs  *)
(* on where no shutdown can reach it, no view is served from a task told   *)
(* to stop, and a kind is never watched in all namespaces and in one       *)
(* beside it (store.rs, init_reflector_for_kind and the shutdowns).        *)
MapSound == AllReplacesNamespaced /\ NoStrayWatcher /\ ServedByRunning

(* No two running watchers list the same object, however starts, upgrades  *)
(* from one namespace to all and shutdowns interleave.                     *)
OneWatcherPerObject ==
    \A t, u \in Tasks :
        /\ task[t].phase = "running" /\ task[u].phase = "running"
        /\ task[t].key[1] = task[u].key[1]
        /\ \E n \in Namespaces : {task[t].key[2], task[u].key[2]} \subseteq {n, All}
        => t = u

(* A (kind, namespace) some watcher serves stays served by one until       *)
(* shutdown_all_reflectors drains the map: replacing the namespaced        *)
(* watchers by one for all namespaces takes nothing away.                  *)
CoverageKept ==
    [][\A k \in Kinds, s \in Scopes :
          Serving(k, s) # NoTask =>
              (Serving(k, s)' # NoTask \/ ShutdownAll)]_reflectorVars

-----------------------------------------------------------------------------
(* What the store promises, whatever tasks and workers it takes.           *)

HeldBy(t) == IF t = NoTask THEN {} ELSE content[t]

Watched == [k \in Kinds |-> {s \in Scopes : storeMap[<<k, s>>] # NoTask}]
Held == [k \in Kinds |-> [s \in Scopes |-> HeldBy(storeMap[<<k, s>>])]]

Promised == INSTANCE WatchedScopes WITH watched <- Watched, held <- Held

(* The store implements what WatchedScopes promises: starts, upgrades to   *)
(* all namespaces and shutdowns by racing workers, and tasks that still    *)
(* list and watch after they were told to stop, come to the same as a map  *)
(* of scopes that is changed in one place (store.rs).                      *)
WatchesScopes == Promised!ScopesSpec

-----------------------------------------------------------------------------
(* Liveness.  tokio polls every task that can run and the worker threads   *)
(* run on, so their steps are fair; a second list is not owed to anyone,   *)
(* nor is a request, a change of client or a change of the cluster.        *)

FirstList(t) == /\ Live(t)
                /\ ~ task[t].synced
                /\ List(t)

Fairness ==
    /\ \A w \in Workers : WF_reflectorVars(WorkerStep(w))
    /\ \A t \in Tasks : WF_reflectorVars(FirstList(t))
    /\ \A t \in Tasks, n \in Namespaces : WF_reflectorVars(WatchEvent(t, n))
    /\ \A t \in Tasks : WF_reflectorVars(TaskEnds(t))

FairSpec == Spec /\ Fairness

Watchable(t) == <<task[t].client, task[t].key[1]>> \notin Unwatchable

(* The libuv thread of a start_reflector_async call is given back when the *)
(* list can succeed, and also when it cannot but the reflector is shut     *)
(* down: a context change frees the threads hung on a forbidden kind.      *)
CallReturns ==
    \A w \in Workers :
        (/\ call[w].pc = "waiting"
         /\ Watchable(call[w].task) \/ task[call[w].task].phase = "stopping")
            ~> (call[w].pc # "waiting")

(* Once the cluster is left alone, what a served view reads is what the    *)
(* cluster that serves it holds, after any restarts and upgrades.          *)
Exact(k, s) ==
    LET t == Serving(k, s)
    IN t # NoTask /\ Watchable(t) =>
           Get(k, s) = MatchesNamespace(cluster[task[t].client][k], s)

ClusterLeftAlone == <>[][FALSE]_cluster

ViewsConverge ==
    ClusterLeftAlone => \A k \in Kinds, s \in Scopes : []<>Exact(k, s)
=============================================================================
