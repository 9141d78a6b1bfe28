--------------------------- MODULE ReflectorsProofs ---------------------------
(***************************************************************************)
(* What Reflectors keeps for any sets of kinds, namespaces, clients, tasks *)
(* and workers.  The invariant is the conjunction of the type invariant    *)
(* and of the three facts that tie STORE_MAP and the tasks to each other:  *)
(* the map holds running tasks under their own keys, every running task is *)
(* there, and All excludes the namespaces.                                 *)
(***************************************************************************)
EXTENDS Reflectors, TLAPS

(* Stopping tasks leaves every task well typed. *)
LEMMA SignalledType ==
    ASSUME task \in [Tasks -> TaskRecord], NEW T
    PROVE  /\ Signalled(T) \in [Tasks -> TaskRecord]
           /\ \A t \in Tasks :
                IF t \in T /\ task[t].phase = "running"
                THEN Signalled(T)[t] = [task[t] EXCEPT !.phase = "stopping"]
                ELSE Signalled(T)[t] = task[t]
<1>1. ASSUME NEW t \in Tasks, task[t].phase = "running"
      PROVE  [task[t] EXCEPT !.phase = "stopping"] \in TaskRecord
  BY <1>1 DEF TaskRecord
<1>2. \A t \in Tasks : Signalled(T)[t] \in TaskRecord
  BY <1>1 DEF Signalled
<1> QED
  BY <1>2 DEF Signalled

(* Every variable of Reflectors keeps its type. *)
THEOREM TypeCorrect == Spec => []TypeOK
<1>1. Init => TypeOK
  BY DEF Init, TypeOK, TaskRecord, CallRecord, NoCall
<1>2. TypeOK /\ [Next]_reflectorVars => TypeOK'
  <2> SUFFICES ASSUME TypeOK, [Next]_reflectorVars
               PROVE  TypeOK'
    OBVIOUS
  <2> USE DEF TypeOK
  <2>1. ASSUME NEW w \in Workers, NEW k \in Kinds, NEW s \in Scopes, StartReflector(w, k, s)
        PROVE  TypeOK'
    <3>1. [pc |-> "cloned", key |-> <<k, s>>, client |-> client] \in CallRecord
      BY <2>1 DEF StartReflector, CallRecord, Keys
    <3> QED
      BY <2>1, <3>1 DEF StartReflector
  <2>2. ASSUME NEW w \in Workers, ReuseReflector(w)
        PROVE  TypeOK'
    BY <2>2 DEF ReuseReflector, CallRecord
  <2>3. ASSUME NEW w \in Workers, NEW t \in Tasks, CreateReflector(w, t)
        PROVE  TypeOK'
    <3> DEFINE k == call[w].key[1]
               s == call[w].key[2]
    <3>1. /\ call[w].key \in Keys
          /\ <<k, s>> \in Keys
          /\ call[w].client \in Clients
      BY <2>3 DEF CreateReflector, CallRecord, NoCall, Keys
    <3>2. [phase |-> "running", synced |-> FALSE, key |-> <<k, s>>,
           client |-> call[w].client] \in TaskRecord
      BY <3>1 DEF TaskRecord
    <3>3. [pc |-> "waiting", key |-> <<k, s>>,
           client |-> call[w].client, task |-> t] \in CallRecord
      BY <3>1 DEF CallRecord
    <3>4. storeMap' \in [Keys -> Tasks \cup {NoTask}]
      BY <2>3 DEF CreateReflector
    <3>5. task' \in [Tasks -> TaskRecord]
      BY <2>3, <3>2, SignalledType DEF CreateReflector
    <3>6. call' \in [Workers -> CallRecord]
      BY <2>3, <3>3 DEF CreateReflector
    <3> QED
      BY <2>3, <3>4, <3>5, <3>6 DEF CreateReflector
  <2>4. ASSUME NEW w \in Workers, ReflectorReady(w)
        PROVE  TypeOK'
    BY <2>4 DEF ReflectorReady, CallRecord
  <2>5. ASSUME NEW t \in Tasks, List(t)
        PROVE  TypeOK'
    <3>1. /\ [task[t] EXCEPT !.synced = TRUE] \in TaskRecord
          /\ task[t].key \in Keys
          /\ task[t].client \in Clients
      BY <2>5 DEF List, Live, TaskRecord
    <3>2. Listed(t) \in SUBSET Namespaces
      BY <3>1 DEF Listed, MatchesNamespace, Keys
    <3> QED
      BY <2>5, <3>1, <3>2 DEF List
  <2>6. ASSUME NEW t \in Tasks, NEW n \in Namespaces, WatchEvent(t, n)
        PROVE  TypeOK'
    BY <2>6 DEF WatchEvent
  <2>7. ASSUME NEW t \in Tasks, TaskEnds(t)
        PROVE  TypeOK'
    <3>1. [task[t] EXCEPT !.phase = "stopped"] \in TaskRecord
      BY <2>7 DEF TaskEnds, TaskRecord
    <3> QED
      BY <2>7, <3>1 DEF TaskEnds
  <2>8. ASSUME ShutdownAll
        PROVE  TypeOK'
    BY <2>8, SignalledType DEF ShutdownAll
  <2>9. ASSUME NEW c \in Clients \cup {NoClient}, SetClient(c)
        PROVE  TypeOK'
    BY <2>9 DEF SetClient
  <2>10. ASSUME NEW c \in Clients, NEW k \in Kinds, NEW n \in Namespaces,
                ClusterChanges(c, k, n)
         PROVE  TypeOK'
    BY <2>10 DEF ClusterChanges
  <2>11. CASE UNCHANGED reflectorVars
    BY <2>11 DEF reflectorVars
  <2> QED
    BY <2>1, <2>2, <2>3, <2>4, <2>5, <2>6, <2>7, <2>8, <2>9, <2>10, <2>11
       DEF Next, WorkerStep, TaskStep
<1> QED
  BY <1>1, <1>2, PTL DEF Spec

(* A step that changes neither the map nor a task's phase or key keeps it. *)
LEMMA MapSoundStable ==
    ASSUME TypeOK, MapSound,
           UNCHANGED storeMap,
           \A t \in Tasks : task'[t].phase = task[t].phase,
           \A t \in Tasks : task[t].phase = "running" => task'[t].key = task[t].key
    PROVE  MapSound'
<1>1. AllReplacesNamespaced'
  BY DEF MapSound, AllReplacesNamespaced
<1>2. NoStrayWatcher'
  BY DEF MapSound, NoStrayWatcher
<1>3. ASSUME NEW key \in Keys, storeMap[key] # NoTask
      PROVE  /\ task'[storeMap[key]].phase = "running"
             /\ task'[storeMap[key]].key = key
  <2>1. storeMap[key] \in Tasks
    BY <1>3 DEF TypeOK
  <2>2. task[storeMap[key]].phase = "running" /\ task[storeMap[key]].key = key
    BY <1>3 DEF MapSound, ServedByRunning
  <2> QED
    BY <2>1, <2>2
<1>4. ServedByRunning'
  BY <1>3 DEF ServedByRunning
<1> QED
  BY <1>1, <1>2, <1>4 DEF MapSound

(* The map and the running tasks agree in every reachable state. *)
THEOREM MapAgrees == Spec => []MapSound
<1>1. Init => MapSound
  BY ConstantsDistinct
     DEF Init, MapSound, AllReplacesNamespaced, NoStrayWatcher, ServedByRunning, Keys, Scopes
<1>2. TypeOK /\ MapSound /\ [Next]_reflectorVars => MapSound'
  <2> SUFFICES ASSUME TypeOK, MapSound, [Next]_reflectorVars
               PROVE  MapSound'
    OBVIOUS
  <2>1. ASSUME NEW w \in Workers, NEW k \in Kinds, NEW s \in Scopes, StartReflector(w, k, s)
        PROVE  MapSound'
    BY <2>1, MapSoundStable DEF StartReflector
  <2>2. ASSUME NEW w \in Workers, ReuseReflector(w)
        PROVE  MapSound'
    BY <2>2, MapSoundStable DEF ReuseReflector
  <2>3. ASSUME NEW w \in Workers, NEW t \in Tasks, CreateReflector(w, t)
        PROVE  MapSound'
    <3> DEFINE k == call[w].key[1]
               s == call[w].key[2]
               T == TasksAt(Redundant(k, s))
    <3>1. k \in Kinds /\ s \in Scopes /\ <<k, s>> \in Keys
      BY <2>3 DEF CreateReflector, TypeOK, CallRecord, NoCall, Keys
    <3>2. /\ storeMap[<<k, All>>] = NoTask
          /\ storeMap[<<k, s>>] = NoTask
      BY <2>3 DEF CreateReflector, Reusable
    <3>3. /\ storeMap' = [key \in Keys |->
                IF key = <<k, s>> THEN t
                ELSE IF key \in Redundant(k, s) THEN NoTask ELSE storeMap[key]]
          /\ task[t].phase = "free"
          /\ task'[t] = [phase |-> "running", synced |-> FALSE,
                         key |-> <<k, s>>, client |-> call[w].client]
          /\ \A u \in Tasks \ {t} : task'[u] = Signalled(T)[u]
      BY <2>3, SignalledType DEF CreateReflector, TypeOK
    <3>4. \A u \in Tasks \ {t} :
             IF u \in T /\ task[u].phase = "running"
             THEN task'[u].phase = "stopping"
             ELSE task'[u] = task[u]
      <4> SUFFICES ASSUME NEW u \in Tasks \ {t}
                   PROVE  IF u \in T /\ task[u].phase = "running"
                          THEN task'[u].phase = "stopping"
                          ELSE task'[u] = task[u]
        OBVIOUS
      <4>1. task'[u] = Signalled(T)[u]
        BY <3>3
      <4>2. /\ task \in [Tasks -> TaskRecord]
            /\ task[u] \in TaskRecord
        BY DEF TypeOK
      <4> HIDE DEF T
      <4>3. CASE u \in T /\ task[u].phase = "running"
        <5>1. Signalled(T)[u] = [task[u] EXCEPT !.phase = "stopping"]
          BY <4>2, <4>3, SignalledType
        <5> QED
          BY <4>1, <4>2, <4>3, <5>1 DEF TaskRecord
      <4>4. CASE ~ (u \in T /\ task[u].phase = "running")
        <5>1. Signalled(T)[u] = task[u]
          BY <4>2, <4>4, SignalledType
        <5> QED
          BY <4>1, <4>4, <5>1
      <4> QED
        BY <4>3, <4>4
    <3>5. AllReplacesNamespaced'
      BY <3>1, <3>2, <3>3, ConstantsDistinct
         DEF MapSound, AllReplacesNamespaced, Redundant, Keys, Scopes
    <3>6. NoStrayWatcher'
      <4> SUFFICES ASSUME NEW u \in Tasks, task'[u].phase = "running"
                   PROVE  storeMap'[task'[u].key] = u
        BY DEF NoStrayWatcher
      <4>1. CASE u = t
        BY <4>1, <3>1, <3>3
      <4>2. CASE u # t
        <5>1. task'[u] = task[u] /\ task[u].phase = "running" /\ u \notin T
          BY <4>2, <3>4
        <5>2. task[u].key \in Keys /\ storeMap[task[u].key] = u
          BY <5>1 DEF TypeOK, TaskRecord, MapSound, NoStrayWatcher
        <5>3. task[u].key # <<k, s>>
          BY <5>2, <3>2, ConstantsDistinct
        <5>4. task[u].key \notin Redundant(k, s)
          BY <5>1, <5>2, ConstantsDistinct DEF TasksAt
        <5> QED
          BY <5>1, <5>2, <5>3, <5>4, <3>3
      <4> QED
        BY <4>1, <4>2
    <3>7. ServedByRunning'
      <4> SUFFICES ASSUME NEW key \in Keys, storeMap'[key] # NoTask
                   PROVE  /\ task'[storeMap'[key]].phase = "running"
                          /\ task'[storeMap'[key]].key = key
        BY DEF ServedByRunning
      <4>1. CASE key = <<k, s>>
        <5>1. storeMap'[key] = t
          BY <4>1, <3>3
        <5>2. task'[t].phase = "running" /\ task'[t].key = <<k, s>>
          BY <3>3
        <5> QED
          BY <4>1, <5>1, <5>2
      <4>2. CASE key # <<k, s>>
        <5> DEFINE u == storeMap[key]
        <5>1. key \notin Redundant(k, s) /\ storeMap'[key] = u /\ u \in Tasks
          BY <4>2, <3>3 DEF TypeOK
        <5>2. task[u].phase = "running" /\ task[u].key = key
          BY <5>1 DEF MapSound, ServedByRunning
        <5>3. u # t
          BY <5>2, <3>3
        <5>4. u \notin T
          <6> SUFFICES ASSUME u \in T PROVE FALSE
            OBVIOUS
          <6>1. PICK r \in Redundant(k, s) : storeMap[r] = u
            BY DEF TasksAt
          <6>2. r \in Keys
            BY <6>1, <3>1 DEF Redundant, Keys, Scopes
          <6>3. task[u].key = r
            BY <6>1, <6>2, <5>1, ConstantsDistinct DEF MapSound, ServedByRunning
          <6> QED
            BY <6>1, <6>3, <5>1, <5>2
        <5> QED
          BY <5>1, <5>2, <5>3, <5>4, <3>4
      <4> QED
        BY <4>1, <4>2
    <3> QED
      BY <3>5, <3>6, <3>7 DEF MapSound
  <2>4. ASSUME NEW w \in Workers, ReflectorReady(w)
        PROVE  MapSound'
    BY <2>4, MapSoundStable DEF ReflectorReady
  <2>5. ASSUME NEW t \in Tasks, List(t)
        PROVE  MapSound'
    <3>1. \A u \in Tasks : task'[u].phase = task[u].phase
      BY <2>5 DEF List, Live, TypeOK, TaskRecord
    <3>2. \A u \in Tasks : task[u].phase = "running" => task'[u].key = task[u].key
      BY <2>5 DEF List, Live, TypeOK, TaskRecord
    <3> QED
      BY <2>5, <3>1, <3>2, MapSoundStable DEF List
  <2>6. ASSUME NEW t \in Tasks, NEW n \in Namespaces, WatchEvent(t, n)
        PROVE  MapSound'
    BY <2>6, MapSoundStable DEF WatchEvent
  <2>7. ASSUME NEW t \in Tasks, TaskEnds(t)
        PROVE  MapSound'
    <3>1. /\ \A u \in Tasks \ {t} : task'[u] = task[u]
          /\ task'[t].phase = "stopped" /\ task[t].phase = "stopping"
          /\ UNCHANGED storeMap
      BY <2>7 DEF TaskEnds, TypeOK, TaskRecord
    <3> QED
      BY <3>1 DEF MapSound, AllReplacesNamespaced, NoStrayWatcher, ServedByRunning, TypeOK
  <2>8. ASSUME ShutdownAll
        PROVE  MapSound'
    <3>1. /\ \A key \in Keys : storeMap'[key] = NoTask
          /\ task' = Signalled(TasksAt(Keys))
      BY <2>8 DEF ShutdownAll
    <3>2. \A u \in Tasks : task'[u].phase # "running"
      <4> SUFFICES ASSUME NEW u \in Tasks PROVE task'[u].phase # "running"
        OBVIOUS
      <4>1. CASE task[u].phase = "running"
        <5>1. u \in TasksAt(Keys)
          <6>1. task[u].key \in Keys /\ storeMap[task[u].key] = u
            BY <4>1 DEF MapSound, NoStrayWatcher, TypeOK, TaskRecord
          <6> QED
            BY <6>1, ConstantsDistinct DEF TasksAt
        <5>2. task'[u] = [task[u] EXCEPT !.phase = "stopping"]
          BY <3>1, <4>1, <5>1, SignalledType DEF TypeOK
        <5> QED
          BY <4>1, <5>2 DEF TypeOK, TaskRecord
      <4>2. CASE task[u].phase # "running"
        BY <3>1, <4>2, SignalledType DEF TypeOK
      <4> QED
        BY <4>1, <4>2
    <3> QED
      BY <3>1, <3>2
         DEF MapSound, AllReplacesNamespaced, NoStrayWatcher, ServedByRunning, Keys, Scopes
  <2>9. ASSUME NEW c \in Clients \cup {NoClient}, SetClient(c)
        PROVE  MapSound'
    BY <2>9, MapSoundStable DEF SetClient
  <2>10. ASSUME NEW c \in Clients, NEW k \in Kinds, NEW n \in Namespaces,
                ClusterChanges(c, k, n)
         PROVE  MapSound'
    BY <2>10, MapSoundStable DEF ClusterChanges
  <2>11. CASE UNCHANGED reflectorVars
    BY <2>11, MapSoundStable DEF reflectorVars
  <2> QED
    BY <2>1, <2>2, <2>3, <2>4, <2>5, <2>6, <2>7, <2>8, <2>9, <2>10, <2>11
       DEF Next, WorkerStep, TaskStep
<1> QED
  BY <1>1, <1>2, TypeCorrect, PTL DEF Spec

(* Two running watchers of one kind never cover the same namespace: they   *)
(* are in the map under their keys, and All excludes the namespaces.       *)
THEOREM OneWatcher == Spec => []OneWatcherPerObject
<1>1. TypeOK /\ MapSound => OneWatcherPerObject
  <2> SUFFICES ASSUME TypeOK, MapSound, NEW t \in Tasks, NEW u \in Tasks,
                      task[t].phase = "running", task[u].phase = "running",
                      task[t].key[1] = task[u].key[1],
                      NEW n \in Namespaces,
                      {task[t].key[2], task[u].key[2]} \subseteq {n, All}
               PROVE  t = u
    BY DEF OneWatcherPerObject
  <2>1. /\ task[t].key \in Keys /\ storeMap[task[t].key] = t
        /\ task[u].key \in Keys /\ storeMap[task[u].key] = u
    BY DEF TypeOK, TaskRecord, MapSound, NoStrayWatcher
  <2> DEFINE k == task[t].key[1]
  <2>2. /\ k \in Kinds
        /\ task[t].key = <<k, task[t].key[2]>>
        /\ task[u].key = <<k, task[u].key[2]>>
    BY <2>1 DEF Keys
  <2>3. CASE task[t].key[2] = task[u].key[2]
    BY <2>1, <2>2, <2>3
  <2>4. CASE task[t].key[2] # task[u].key[2]
    <3>1. storeMap[<<k, All>>] # NoTask /\ storeMap[<<k, n>>] # NoTask
      <4>1. \/ task[t].key[2] = All /\ task[u].key[2] = n
            \/ task[t].key[2] = n /\ task[u].key[2] = All
        BY <2>4
      <4>2. t # NoTask /\ u # NoTask
        BY ConstantsDistinct
      <4> QED
        BY <2>1, <2>2, <4>1, <4>2
    <3> QED
      BY <3>1, <2>2 DEF MapSound, AllReplacesNamespaced
  <2> QED
    BY <2>3, <2>4
<1> QED
  BY <1>1, TypeCorrect, MapAgrees, PTL

(* No step but the drain of shutdown_all_reflectors leaves a view that had *)
(* a store to read without one.                                            *)
THEOREM CoverageIsKept == Spec => CoverageKept
<1>1. ASSUME TypeOK, MapSound, [Next]_reflectorVars
      PROVE  [\A k \in Kinds, s \in Scopes :
                Serving(k, s) # NoTask =>
                    (Serving(k, s)' # NoTask \/ ShutdownAll)]_reflectorVars
  <2> SUFFICES ASSUME NEW k \in Kinds, NEW s \in Scopes,
                      Serving(k, s) # NoTask, ~ ShutdownAll
               PROVE  Serving(k, s)' # NoTask
    OBVIOUS
  <2>1. CASE UNCHANGED storeMap
    BY <2>1 DEF Serving
  <2>2. ASSUME NEW w \in Workers, NEW t \in Tasks, CreateReflector(w, t)
        PROVE  Serving(k, s)' # NoTask
    <3> DEFINE j == call[w].key[1]
               r == call[w].key[2]
    <3>1. /\ <<j, r>> \in Keys /\ j \in Kinds /\ r \in Scopes
          /\ <<k, s>> \in Keys /\ <<k, All>> \in Keys
      BY <1>1, <2>2 DEF CreateReflector, TypeOK, CallRecord, NoCall, Keys, Scopes
    <3>2. storeMap' = [key \in Keys |->
                IF key = <<j, r>> THEN t
                ELSE IF key \in Redundant(j, r) THEN NoTask ELSE storeMap[key]]
      BY <2>2 DEF CreateReflector
    <3>3. t # NoTask
      BY ConstantsDistinct
    <3>4. CASE storeMap[<<k, All>>] # NoTask
      <4>1. <<k, All>> \notin Redundant(j, r)
        BY ConstantsDistinct DEF Redundant
      <4>2. storeMap'[<<k, All>>] # NoTask
        BY <3>1, <3>2, <3>3, <3>4, <4>1
      <4> QED
        BY <4>2 DEF Serving
    <3>5. CASE storeMap[<<k, All>>] = NoTask
      <4>1. storeMap[<<k, s>>] # NoTask
        BY <3>5 DEF Serving
      <4>2. CASE <<k, s>> \in Redundant(j, r)
        <5>1. j = k /\ r = All
          BY <4>2 DEF Redundant
        <5>2. storeMap'[<<k, All>>] = t
          BY <5>1, <3>1, <3>2
        <5> QED
          BY <5>2, <3>3 DEF Serving
      <4>3. CASE <<k, s>> \notin Redundant(j, r)
        <5>1. storeMap'[<<k, s>>] # NoTask
          BY <4>1, <4>3, <3>1, <3>2, <3>3
        <5> QED
          BY <5>1 DEF Serving
      <4> QED
        BY <4>2, <4>3
    <3> QED
      BY <3>4, <3>5
  <2> QED
    BY <1>1, <2>1, <2>2
       DEF Next, WorkerStep, TaskStep, StartReflector, ReuseReflector, ReflectorReady,
           List, WatchEvent, TaskEnds, SetClient, ClusterChanges, reflectorVars
<1> QED
  BY <1>1, TypeCorrect, MapAgrees, PTL DEF Spec, CoverageKept

-----------------------------------------------------------------------------
(* The refinement.                                                         *)

\* A task holds nothing before it is spawned, and then only what is in scope.
HoldsItsOwn ==
    \A t \in Tasks :
        IF task[t].phase = "free" THEN content[t] = {}
        ELSE MatchesNamespace(content[t], task[t].key[2]) = content[t]

(* Stopping tasks leaves alone which are spawned and what they watch. *)
LEMMA SignalledKeeps ==
    ASSUME TypeOK, NEW T, NEW t \in Tasks
    PROVE  /\ Signalled(T)[t].phase = "free" <=> task[t].phase = "free"
           /\ task[t].phase # "free" => Signalled(T)[t].key = task[t].key
<1>1. task \in [Tasks -> TaskRecord] /\ task[t] \in TaskRecord
  BY DEF TypeOK
<1>2. CASE t \in T /\ task[t].phase = "running"
  <2>1. Signalled(T)[t] = [task[t] EXCEPT !.phase = "stopping"]
    BY <1>1, <1>2, SignalledType
  <2> QED
    BY <1>1, <1>2, <2>1 DEF TaskRecord
<1>3. CASE ~ (t \in T /\ task[t].phase = "running")
  <2>1. Signalled(T)[t] = task[t]
    BY <1>1, <1>3, SignalledType
  <2> QED
    BY <2>1
<1> QED
  BY <1>2, <1>3

LEMMA TasksHoldTheirOwn == Spec => []HoldsItsOwn
<1>1. Init => HoldsItsOwn
  BY DEF Init, HoldsItsOwn
<1>2. TypeOK /\ HoldsItsOwn /\ [Next]_reflectorVars => HoldsItsOwn'
  <2> SUFFICES ASSUME TypeOK, HoldsItsOwn, [Next]_reflectorVars, NEW t \in Tasks
               PROVE  IF task'[t].phase = "free" THEN content'[t] = {}
                      ELSE MatchesNamespace(content'[t], task'[t].key[2]) = content'[t]
    BY DEF HoldsItsOwn, MatchesNamespace
  <2> DEFINE Kept == /\ content'[t] = content[t]
                     /\ task'[t].phase = "free" <=> task[t].phase = "free"
                     /\ task[t].phase # "free" => task'[t].key = task[t].key
             Goal == IF task'[t].phase = "free" THEN content'[t] = {}
                     ELSE MatchesNamespace(content'[t], task'[t].key[2]) = content'[t]
  <2>1. Kept => Goal
    BY DEF HoldsItsOwn, MatchesNamespace
  <2>2. ASSUME NEW w \in Workers, NEW u \in Tasks, CreateReflector(w, u)
        PROVE  Goal
    <3> DEFINE T == TasksAt(Redundant(call[w].key[1], call[w].key[2]))
    <3>1. CASE u = t
      <4>1. task'[t].phase = "running" /\ content'[t] = {}
        BY <2>2, <3>1, SignalledType DEF CreateReflector, TypeOK, HoldsItsOwn
      <4> QED
        BY <4>1 DEF MatchesNamespace
    <3>2. CASE u # t
      <4>1. content' = content /\ task'[t] = Signalled(T)[t]
        BY <2>2, <3>2, SignalledType DEF CreateReflector, TypeOK
      <4> HIDE DEF T
      <4>2. Kept
        BY <4>1, SignalledKeeps
      <4> QED
        BY <2>1, <4>2
    <3> QED
      BY <3>1, <3>2
  <2>3. ASSUME NEW u \in Tasks, List(u)
        PROVE  Goal
    <3>1. CASE u = t
      <4>1. /\ content'[t] = MatchesNamespace(cluster[task[t].client][task[t].key[1]], task[t].key[2])
            /\ task'[t].phase = task[t].phase /\ task'[t].phase # "free"
            /\ task'[t].key = task[t].key
        BY <2>3, <3>1 DEF List, Listed, Live, TypeOK, TaskRecord
      <4> QED
        BY <4>1 DEF MatchesNamespace
    <3>2. CASE u # t
      BY <2>1, <2>3, <3>2 DEF List, TypeOK
    <3> QED
      BY <3>1, <3>2
  <2>4. ASSUME NEW u \in Tasks, NEW n \in Namespaces, WatchEvent(u, n)
        PROVE  Goal
    <3>1. CASE u = t
      <4>1. /\ task' = task /\ task[t].phase # "free"
            /\ content'[t] = IF n \in Listed(t) THEN content[t] \cup {n} ELSE content[t] \ {n}
        BY <2>4, <3>1 DEF WatchEvent, Live, TypeOK
      <4>2. MatchesNamespace(content[t], task[t].key[2]) = content[t]
        BY <4>1 DEF HoldsItsOwn
      <4> QED
        BY <4>1, <4>2 DEF MatchesNamespace, Listed
    <3>2. CASE u # t
      BY <2>1, <2>4, <3>2 DEF WatchEvent, TypeOK
    <3> QED
      BY <3>1, <3>2
  <2>5. ASSUME NEW u \in Tasks, TaskEnds(u)
        PROVE  Goal
    <3>1. Kept
      BY <2>5 DEF TaskEnds, TypeOK, TaskRecord
    <3> QED
      BY <2>1, <3>1
  <2>6. CASE ShutdownAll
    <3> DEFINE T == TasksAt(Keys)
    <3>1. content' = content /\ task'[t] = Signalled(T)[t]
      BY <2>6 DEF ShutdownAll
    <3> HIDE DEF T
    <3>2. Kept
      BY <3>1, SignalledKeeps
    <3> QED
      BY <2>1, <3>2
  <2>7. CASE UNCHANGED <<task, content>>
    BY <2>1, <2>7
  <2> QED
    BY <2>2, <2>3, <2>4, <2>5, <2>6, <2>7
       DEF Next, WorkerStep, TaskStep, StartReflector, ReuseReflector, ReflectorReady,
           SetClient, ClusterChanges, reflectorVars
<1> QED
  BY <1>1, <1>2, TypeCorrect, PTL DEF Spec

(* A task that is not the one in the map changes nothing that is read; the *)
(* one that is changes what its own scope holds.                           *)
LEMMA LearnsInScope ==
    ASSUME TypeOK, MapSound, NEW t \in Tasks, UNCHANGED storeMap, Live(t),
           NEW objs \in SUBSET Namespaces,
           objs \subseteq (IF task[t].key[2] = All THEN Namespaces ELSE {task[t].key[2]}),
           content' = [content EXCEPT ![t] = objs]
    PROVE  Promised!ScopesNext \/ UNCHANGED <<Watched, Held>>
<1> DEFINE k == task[t].key[1]
           s == task[t].key[2]
<1>1. task[t].key \in Keys /\ k \in Kinds /\ s \in Scopes /\ task[t].key = <<k, s>>
  BY DEF TypeOK, TaskRecord, Live, Keys
<1>2. UNCHANGED Watched
  BY DEF Watched
<1>3. \A key \in Keys : storeMap[key] = t => key = <<k, s>>
  BY <1>1, ConstantsDistinct DEF MapSound, ServedByRunning
<1>4. \A key \in Keys : HeldBy(storeMap[key])' =
           IF key = <<k, s>> /\ storeMap[<<k, s>>] = t THEN objs ELSE HeldBy(storeMap[key])
  BY <1>1, <1>3, ConstantsDistinct DEF HeldBy, TypeOK
<1>5. CASE storeMap[<<k, s>>] = t
  <2>1. s \in Watched[k]
    BY <1>1, <1>5, ConstantsDistinct DEF Watched
  <2>2. Held' = [Held EXCEPT ![k][s] = objs]
    BY <1>1, <1>4, <1>5 DEF Held, Keys
  <2>3. Promised!Learn(k, s)
    BY <1>2, <2>1, <2>2 DEF Promised!Learn
  <2> QED
    BY <1>1, <2>3 DEF Promised!ScopesNext, Promised!Scopes, Scopes
<1>6. CASE storeMap[<<k, s>>] # t
  <2>1. UNCHANGED Held
    BY <1>4, <1>6 DEF Held, Keys
  <2> QED
    BY <1>2, <2>1
<1> QED
  BY <1>5, <1>6

(* A spawned watcher is a new watch of the scope it was asked for. *)
LEMMA CreateWatches ==
    ASSUME TypeOK, MapSound, HoldsItsOwn, NEW w \in Workers, NEW t \in Tasks,
           CreateReflector(w, t)
    PROVE  Promised!ScopesNext
<1> DEFINE k == call[w].key[1]
           s == call[w].key[2]
<1>1. k \in Kinds /\ s \in Scopes /\ <<k, s>> \in Keys
  BY DEF CreateReflector, TypeOK, CallRecord, NoCall, Keys
<1>2. storeMap[<<k, All>>] = NoTask /\ storeMap[<<k, s>>] = NoTask
  BY DEF CreateReflector, Reusable
<1>3. /\ storeMap' = [key \in Keys |->
            IF key = <<k, s>> THEN t
            ELSE IF key \in Redundant(k, s) THEN NoTask ELSE storeMap[key]]
      /\ content' = content /\ content[t] = {}
  BY DEF CreateReflector, HoldsItsOwn
<1>4. ~ Promised!Covered(k, s)
  BY <1>1, <1>2 DEF Promised!Covered, Watched
<1>5. Watched' = [Watched EXCEPT ![k] = IF s = All THEN {All} ELSE @ \cup {s}]
  <2>1. ASSUME NEW j \in Kinds
        PROVE  {r \in Scopes : storeMap'[<<j, r>>] # NoTask} =
                 IF j # k THEN Watched[j] ELSE IF s = All THEN {All} ELSE Watched[k] \cup {s}
    BY <1>1, <1>2, <1>3, ConstantsDistinct DEF Watched, Redundant, Keys, Scopes
  <2> QED
    BY <1>1, <2>1 DEF Watched
<1>6. Held' = [Held EXCEPT ![k] =
                IF s = All THEN [r \in Scopes |-> {}] ELSE [@ EXCEPT ![s] = {}]]
  <2>1. ASSUME NEW j \in Kinds, NEW r \in Scopes
        PROVE  HeldBy(storeMap[<<j, r>>])' =
                 IF j = k /\ (s = All \/ r = s) THEN {} ELSE HeldBy(storeMap[<<j, r>>])
    BY <1>1, <1>2, <1>3, ConstantsDistinct DEF HeldBy, Redundant, Keys, Scopes
  <2>2. Held' = [j \in Kinds |-> [r \in Scopes |->
                    IF j = k /\ (s = All \/ r = s) THEN {} ELSE Held[j][r]]]
    BY <2>1 DEF Held
  <2> DEFINE given == IF s = All THEN [r \in Scopes |-> {}] ELSE [Held[k] EXCEPT ![s] = {}]
  <2>3. \A j \in Kinds : Held[j] = [r \in Scopes |-> Held[j][r]]
    BY DEF Held
  <2>4. given = [r \in Scopes |-> IF s = All \/ r = s THEN {} ELSE Held[k][r]]
    BY <1>1, <2>3
  <2>5. Held' = [j \in Kinds |-> IF j = k THEN given ELSE Held[j]]
    <3>1. ASSUME NEW j \in Kinds
          PROVE  [r \in Scopes |-> IF j = k /\ (s = All \/ r = s) THEN {} ELSE Held[j][r]]
                   = IF j = k THEN given ELSE Held[j]
      <4>1. CASE j = k
        BY <2>4, <4>1
      <4>2. CASE j # k
        BY <2>3, <4>2
      <4> QED
        BY <4>1, <4>2
    <3> QED
      BY <2>2, <3>1
  <2> HIDE DEF given
  <2>6. Held = [j \in Kinds |-> Held[j]]
    BY DEF Held
  <2>7. Held' = [Held EXCEPT ![k] = given]
    BY <1>1, <2>5, <2>6
  <2> QED
    BY <2>7 DEF given
<1>7. Promised!Watch(k, s)
  BY <1>4, <1>5, <1>6 DEF Promised!Watch, Promised!Scopes, Scopes
<1> QED
  BY <1>1, <1>7 DEF Promised!ScopesNext, Promised!Scopes, Scopes

(* The store of tasks and workers implements the map of scopes.            *)
THEOREM StoreKeepsPromise == Spec => WatchesScopes
<1>1. Init => Promised!ScopesInit
  <2> SUFFICES ASSUME Init PROVE Promised!ScopesInit
    OBVIOUS
  <2>1. Watched = [k \in Kinds |-> {}] /\ Held = [k \in Kinds |-> [s \in Scopes |-> {}]]
    BY DEF Init, Watched, Held, HeldBy, Keys
  <2> QED
    BY <2>1 DEF Promised!ScopesInit, Promised!Scopes, Scopes
<1>2. ASSUME TypeOK, MapSound, HoldsItsOwn, [Next]_reflectorVars
      PROVE  Promised!ScopesNext \/ UNCHANGED <<Watched, Held>>
  <2>1. CASE UNCHANGED <<storeMap, content>>
    BY <2>1 DEF Watched, Held, HeldBy
  <2>2. ASSUME NEW w \in Workers, NEW t \in Tasks, CreateReflector(w, t)
        PROVE  Promised!ScopesNext
    BY <1>2, <2>2, CreateWatches
  <2>3. ASSUME NEW t \in Tasks, List(t)
        PROVE  Promised!ScopesNext \/ UNCHANGED <<Watched, Held>>
    <3>1. /\ task[t].key \in Keys /\ task[t].client \in Clients
          /\ Listed(t) \in SUBSET Namespaces
      BY <1>2, <2>3 DEF List, Live, TypeOK, TaskRecord, Listed, MatchesNamespace, Keys
    <3>2. Listed(t) \subseteq (IF task[t].key[2] = All THEN Namespaces ELSE {task[t].key[2]})
      BY <3>1 DEF Listed, MatchesNamespace
    <3> QED
      BY <1>2, <2>3, <3>1, <3>2, LearnsInScope DEF List
  <2>4. ASSUME NEW t \in Tasks, NEW n \in Namespaces, WatchEvent(t, n)
        PROVE  Promised!ScopesNext \/ UNCHANGED <<Watched, Held>>
    <3> DEFINE objs == IF n \in Listed(t) THEN content[t] \cup {n} ELSE content[t] \ {n}
    <3>1. /\ Live(t) /\ task[t].phase # "free" /\ UNCHANGED storeMap
          /\ content' = [content EXCEPT ![t] = objs]
          /\ content[t] \in SUBSET Namespaces
      BY <1>2, <2>4 DEF WatchEvent, Live, TypeOK
    <3>2. MatchesNamespace(content[t], task[t].key[2]) = content[t]
      BY <1>2, <3>1 DEF HoldsItsOwn
    <3>3. /\ objs \in SUBSET Namespaces
          /\ objs \subseteq (IF task[t].key[2] = All THEN Namespaces ELSE {task[t].key[2]})
      BY <3>1, <3>2 DEF MatchesNamespace, Listed
    <3> HIDE DEF objs
    <3> QED
      BY <1>2, <3>1, <3>3, LearnsInScope
  <2>5. CASE ShutdownAll
    <3>1. Watched' = [k \in Kinds |-> {}] /\ Held' = [k \in Kinds |-> [s \in Scopes |-> {}]]
      BY <2>5 DEF ShutdownAll, Watched, Held, HeldBy, Keys
    <3> QED
      BY <3>1 DEF Promised!ScopesNext, Promised!Forget, Promised!Scopes, Scopes
  <2> QED
    BY <1>2, <2>1, <2>2, <2>3, <2>4, <2>5
       DEF Next, WorkerStep, TaskStep, StartReflector, ReuseReflector, ReflectorReady,
           TaskEnds, SetClient, ClusterChanges, reflectorVars
<1> QED
  BY <1>1, <1>2, TypeCorrect, MapAgrees, TasksHoldTheirOwn, PTL
     DEF Spec, WatchesScopes, Promised!ScopesSpec, Promised!scopeVars
===============================================================================
