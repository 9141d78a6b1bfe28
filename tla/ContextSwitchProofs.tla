------------------------ MODULE ContextSwitchProofs ------------------------
(***************************************************************************)
(* Changing the context is a use of the reflector store: every behaviour   *)
(* of ContextSwitch is one of Reflectors, so what is proved of the store   *)
(* holds whatever switches overlap, fail or overtake a view's call.        *)
(***************************************************************************)
EXTENDS ContextSwitch, ReflectorsProofs, FiniteSetTheorems, SequenceTheorems

(* A call only ever carries the configuration of a context. *)
LEMMA CallTypesStable ==
    ASSUME CallTypes, SwitchNext \/ UNCHANGED vars
    PROVE  CallTypes'
<1> USE DEF CallTypes, Contexts, MaybeContext, MainIdle, NoInit
<1>1. CASE UNCHANGED vars
    BY <1>1 DEF vars, switchVars
<1>2. ASSUME NEW c \in Contexts, BeginSwitch(c)
      PROVE  CallTypes'
    BY <1>2 DEF BeginSwitch
<1>3. CASE MainStep
    <2>1. CASE DrainStore
        BY <2>1 DEF DrainStore, Main
    <2>2. CASE LoadConfig
        <3>1. main.for \in Contexts
            BY <2>2 DEF LoadConfig, Main
        <3>2. main' \in [pc : {"client", "queue"}, for : Contexts]
            BY <2>2, <3>1 DEF LoadConfig, Main
        <3>3. baseConfig' \in MaybeContext /\ UNCHANGED <<pending, initCall>>
            BY <2>2, <3>1 DEF LoadConfig
        <3> QED BY <3>2, <3>3
    <2>3. CASE ClearClient
        BY <2>3 DEF ClearClient, Main
    <2>4. CASE ClearStreamClient
        BY <2>4 DEF ClearStreamClient, Main
    <2>5. CASE QueueInit
        BY <2>5 DEF QueueInit, Main
    <2>6. CASE Callback \/ Finish
        BY <2>6 DEF Callback, Finish
    <2> QED BY <1>3, <2>1, <2>2, <2>3, <2>4, <2>5, <2>6 DEF MainStep
<1>4. ASSUME NEW w \in Workers, InitStep(w)
      PROVE  CallTypes'
    <2>1. CASE StartInit(w)
        <3>1. Head(pending) \in Contexts /\ Tail(pending) \in Seq(Contexts)
            BY <2>1 DEF StartInit
        <3> QED BY <2>1, <3>1 DEF StartInit
    <2>2. CASE Connect(w)
        BY <2>2 DEF Connect, Answer
    <2>3. CASE StoreClient(w)
        BY <2>3 DEF StoreClient
    <2>4. CASE StoreStreamClient(w)
        BY <2>4 DEF StoreStreamClient, Answer
    <2> QED BY <1>4, <2>1, <2>2, <2>3, <2>4 DEF InitStep
<1>5. ASSUME NEW w \in Workers, NEW k \in Kinds, NEW s \in Scopes,
             ViewStartsReflector(w, k, s)
      PROVE  CallTypes'
    BY <1>5 DEF ViewStartsReflector, switchVars
<1>6. CASE StoreStep
    BY <1>6 DEF StoreStep, switchVars
<1>7. ASSUME NEW c \in Contexts, ConfigRead(c)
      PROVE  CallTypes'
    BY <1>7 DEF ConfigRead
<1> QED BY <1>1, <1>2, <1>3, <1>4, <1>5, <1>6, <1>7 DEF SwitchNext

(* Each step of the composition is a step of the store or leaves it alone. *)
LEMMA SwitchStep ==
    ASSUME CallTypes, SwitchNext \/ UNCHANGED vars
    PROVE  Next \/ UNCHANGED reflectorVars
<1>1. CASE UNCHANGED vars
    BY <1>1 DEF vars
<1>2. ASSUME NEW c \in Contexts, BeginSwitch(c)
      PROVE  UNCHANGED reflectorVars
    BY <1>2 DEF BeginSwitch
<1>3. CASE MainStep
    <2>1. CASE DrainStore
        BY <2>1 DEF DrainStore, Next
    <2>2. CASE ClearClient
        BY <2>2 DEF ClearClient, Next
    <2>3. CASE LoadConfig \/ ClearStreamClient \/ QueueInit \/ Callback \/ Finish
        BY <2>3 DEF LoadConfig, ClearStreamClient, QueueInit, Callback, Finish
    <2> QED BY <1>3, <2>1, <2>2, <2>3 DEF MainStep
<1>4. ASSUME NEW w \in Workers, InitStep(w)
      PROVE  Next \/ UNCHANGED reflectorVars
    <2>1. CASE StoreClient(w)
        <3>1. initCall[w].config \in Clients
            BY <2>1 DEF StoreClient, CallTypes, NoInit, Contexts
        <3> QED BY <2>1, <3>1 DEF StoreClient, Next
    <2> QED BY <1>4, <2>1 DEF InitStep, StartInit, Connect, StoreStreamClient
<1>5. ASSUME NEW w \in Workers, NEW k \in Kinds, NEW s \in Scopes,
             ViewStartsReflector(w, k, s)
      PROVE  Next
    BY <1>5 DEF ViewStartsReflector, Next
<1>6. CASE StoreStep
    BY <1>6 DEF StoreStep, FirstList, TaskStep, Next
<1>7. ASSUME NEW c \in Contexts, ConfigRead(c)
      PROVE  UNCHANGED reflectorVars
    BY <1>7 DEF ConfigRead
<1> QED BY <1>1, <1>2, <1>3, <1>4, <1>5, <1>6, <1>7 DEF SwitchNext

(* The composition implements the store module. *)
THEOREM SwitchUsesStore == SwitchSpec => Spec
<1>1. SwitchInit => Init /\ CallTypes
    BY DEF SwitchInit, CallTypes, MaybeContext
<1>2. CallTypes /\ [SwitchNext]_vars => CallTypes' /\ [Next]_reflectorVars
    BY SwitchStep, CallTypesStable
<1> QED BY <1>1, <1>2, PTL DEF SwitchSpec, Spec

(* Across any changes of context the store implements a map of scopes that *)
(* is changed in one place (store.rs, init_runtime of lib.rs).             *)
THEOREM SwitchKeepsPromise == SwitchSpec => WatchesScopes
BY SwitchUsesStore, StoreKeepsPromise, PTL

(* Across any changes of context no two running watchers list the same     *)
(* object (store.rs, init_runtime of lib.rs).                              *)
THEOREM SwitchKeepsOneWatcher == SwitchSpec => []OneWatcherPerObject
BY SwitchUsesStore, OneWatcher, PTL

-----------------------------------------------------------------------------
(* How many switches are under way.  The bound of the model is kept because *)
(* a switch in init_runtime was let in below it, and each step after that   *)
(* takes the call from one place to the next.                               *)

Connecting == {w \in Workers : initCall[w] # NoInit}

Counted ==
    /\ {shown, activeContext, streamClient, announced} \subseteq MaybeContext
    /\ answers \in Seq([for : Contexts, ok : BOOLEAN])
    /\ finishing \in Nat
    /\ configCalls \subseteq Contexts
    /\ IsFiniteSet(Connecting)
    /\ UnderWay <= MaxPending
    /\ main # MainIdle => UnderWay < MaxPending
    /\ shown \in Contexts \/ (main = MainIdle /\ UnderWay = 0)

(* A step that leaves the calls alone leaves their number alone. *)
LEMMA SameUnderWay ==
    ASSUME UNCHANGED <<pending, answers, initCall, finishing>>
    PROVE  Connecting' = Connecting /\ UnderWay' = UnderWay
BY DEF Connecting, UnderWay

(* So does a step within the call of one worker. *)
LEMMA SameConnecting ==
    ASSUME \A v \in Workers : initCall'[v] = NoInit <=> initCall[v] = NoInit,
           UNCHANGED <<pending, answers, finishing>>
    PROVE  Connecting' = Connecting /\ UnderWay' = UnderWay
<1>1. Connecting' = Connecting
    BY DEF Connecting
<1> QED BY <1>1 DEF UnderWay, Connecting

(* What the number of calls under way counts. *)
LEMMA UnderWayCounts ==
    ASSUME CallTypes, Counted
    PROVE  /\ UnderWay = Len(pending) + Len(answers) + finishing + Cardinality(Connecting)
           /\ Len(pending) \in Nat /\ Len(answers) \in Nat /\ finishing \in Nat
           /\ Cardinality(Connecting) \in Nat /\ MaxPending \in Nat
<1>1. Cardinality(Connecting) \in Nat
    BY FS_CardinalityType DEF Counted
<1>2. Len(pending) \in Nat /\ Len(answers) \in Nat
    BY DEF Counted, CallTypes
<1>3. finishing \in Nat
    BY DEF Counted
<1> QED BY <1>1, <1>2, <1>3, SwitchAssumption DEF UnderWay, Connecting

(* The same of the next state. *)
LEMMA UnderWayNext ==
    UnderWay' = Len(pending') + Len(answers') + finishing' + Cardinality(Connecting')
BY DEF UnderWay, Connecting

(* A call is taken from the queue by a worker that has none, or answered    *)
(* at once.                                                                 *)
LEMMA StartCounted ==
    ASSUME CallTypes, Counted, NEW w \in Workers, StartInit(w)
    PROVE  Counted'
<1> DEFINE A == [for : Contexts, ok : BOOLEAN]
<1>1. /\ pending \in Seq(Contexts) /\ pending # <<>>
      /\ answers \in Seq(A)
    BY DEF StartInit, CallTypes, Counted
<1>2. Len(pending') = Len(pending) - 1 /\ Head(pending) \in Contexts
    BY <1>1 DEF StartInit
<1>3. w \notin Connecting /\ UNCHANGED finishing
    BY DEF StartInit, WorkerFree, Connecting
<1>4. CASE baseConfig = NoClient
    <2>1. answers' = Append(answers, [for |-> Head(pending), ok |-> FALSE])
        BY <1>4 DEF StartInit
    <2>2. answers' \in Seq(A) /\ Len(answers') = Len(answers) + 1
        BY <1>1, <1>2, <2>1
    <2>3. Connecting' = Connecting
        BY <1>4 DEF StartInit, Connecting
    <2> HIDE DEF A
    <2>4. UnderWay' = UnderWay
        BY <1>2, <1>3, <2>2, <2>3, UnderWayCounts, UnderWayNext
    <2> QED BY <2>2, <2>3, <2>4 DEF Counted, StartInit, A
<1>5. CASE baseConfig # NoClient
    <2>1. Connecting' = Connecting \cup {w} /\ UNCHANGED answers
        BY <1>5 DEF StartInit, Connecting, CallTypes, NoInit
    <2>2. IsFiniteSet(Connecting') /\ Cardinality(Connecting') = Cardinality(Connecting) + 1
        BY <1>3, <2>1, FS_AddElement DEF Counted
    <2>3. UnderWay' = UnderWay
        BY <1>2, <1>3, <2>1, <2>2, UnderWayCounts, UnderWayNext
    <2> QED BY <2>1, <2>2, <2>3 DEF Counted, StartInit
<1> QED BY <1>4, <1>5

(* An answered call has left its worker and waits for its callback. *)
LEMMA AnswerCounted ==
    ASSUME CallTypes, Counted, NEW w \in Workers, NEW ok \in BOOLEAN,
           w \in Connecting, Answer(w, ok),
           UNCHANGED <<shown, activeContext, main, pending, finishing, announced, configCalls>>,
           streamClient' \in MaybeContext
    PROVE  Counted'
<1> DEFINE A == [for : Contexts, ok : BOOLEAN]
<1>1. [for |-> initCall[w].for, ok |-> ok] \in A /\ answers \in Seq(A)
    BY DEF Connecting, CallTypes, Counted
<1>2. answers' \in Seq(A) /\ Len(answers') = Len(answers) + 1
    <2>1. answers' = Append(answers, [for |-> initCall[w].for, ok |-> ok])
        BY DEF Answer
    <2> HIDE DEF A
    <2> QED BY <1>1, <2>1
<1>3. Connecting' = Connecting \ {w}
    BY DEF Answer, Connecting, CallTypes
<1>4. IsFiniteSet(Connecting') /\ Cardinality(Connecting') = Cardinality(Connecting) - 1
    BY <1>3, FS_RemoveElement DEF Counted
<1> HIDE DEF A
<1>5. UnderWay' = UnderWay
    BY <1>2, <1>4, UnderWayCounts, UnderWayNext
<1> QED BY <1>2, <1>4, <1>5 DEF Counted, A

(* The number of switches under way stays below its bound. *)
LEMMA CountedStable ==
    ASSUME CallTypes, Counted, SwitchNext \/ UNCHANGED vars
    PROVE  Counted'
<1>1. CASE UNCHANGED vars
    BY <1>1, SameUnderWay DEF vars, switchVars, Counted
<1>2. ASSUME NEW c \in Contexts, BeginSwitch(c)
      PROVE  Counted'
    BY <1>2, SameUnderWay DEF BeginSwitch, Counted, MaybeContext
<1>3. CASE MainStep
    <2>1. CASE DrainStore \/ LoadConfig \/ ClearClient \/ ClearStreamClient
        <3>1. /\ UNCHANGED <<shown, activeContext, pending, initCall, answers, finishing,
                             announced, configCalls>>
              /\ main # MainIdle
              /\ streamClient' \in {streamClient, NoClient}
            BY <2>1 DEF DrainStore, LoadConfig, ClearClient, ClearStreamClient, Main
        <3> QED BY <3>1, SameUnderWay DEF Counted, MaybeContext
    <2>2. CASE QueueInit
        <3>1. main # MainIdle /\ main.for \in Contexts /\ pending \in Seq(Contexts)
            BY <2>2 DEF QueueInit, Main, CallTypes
        <3>2. Len(pending') = Len(pending) + 1
            BY <2>2, <3>1 DEF QueueInit
        <3>3. Connecting' = Connecting /\ UNCHANGED <<answers, finishing>>
            BY <2>2 DEF QueueInit, Connecting
        <3>4. UnderWay' = UnderWay + 1
            BY <3>2, <3>3, UnderWayCounts, UnderWayNext
        <3>5. UnderWay + 1 <= MaxPending
            BY <3>1, UnderWayCounts DEF Counted
        <3> QED BY <2>2, <3>1, <3>3, <3>4, <3>5 DEF Counted, QueueInit
    <2>3. CASE Callback
        <3> DEFINE A == [for : Contexts, ok : BOOLEAN]
        <3>1. answers \in Seq(A) /\ answers # <<>>
            BY <2>3 DEF Callback, Counted
        <3>2. Head(answers) \in A /\ answers' \in Seq(A) /\ Len(answers') = Len(answers) - 1
            <4>1. answers' = Tail(answers)
                BY <2>3 DEF Callback
            <4> HIDE DEF A
            <4> QED BY <3>1, <4>1
        <3>3. Connecting' = Connecting /\ UNCHANGED pending
            BY <2>3 DEF Callback, Connecting
        <3>4. Len(answers) > 0 /\ Len(answers') = Len(answers) - 1
            BY <3>1, <3>2
        <3>5. finishing' \in {finishing, finishing + 1}
            BY <2>3 DEF Callback
        <3>6. UnderWay' <= UnderWay /\ UnderWay > 0 /\ UnderWay \in Nat /\ finishing' \in Nat
            BY <3>3, <3>4, <3>5, UnderWayCounts, UnderWayNext
        <3>7. shown \in Contexts
            BY <3>6 DEF Counted
        <3>8. announced' \in MaybeContext
            BY <2>3 DEF Callback, Counted, MaybeContext
        <3>9. UnderWay' <= MaxPending
            <4>1. UnderWay <= MaxPending /\ MaxPending \in Nat
                BY UnderWayCounts DEF Counted
            <4>2. UnderWay' \in Int
                BY <3>3, <3>4, <3>5, UnderWayCounts, UnderWayNext
            <4> QED BY <3>6, <4>1, <4>2
        <3>10. /\ UNCHANGED <<shown, activeContext, streamClient, configCalls, main>>
               /\ main = MainIdle
            BY <2>3 DEF Callback
        <3> QED BY <3>2, <3>3, <3>6, <3>7, <3>8, <3>9, <3>10 DEF Counted
    <2>4. CASE Finish
        <3>1. /\ finishing > 0 /\ finishing' = finishing - 1
              /\ UNCHANGED <<pending, answers, initCall, shown, activeContext, streamClient, main>>
              /\ main = MainIdle /\ announced' = shown /\ configCalls' = configCalls \cup {shown}
            BY <2>4 DEF Finish
        <3>2. Connecting' = Connecting
            BY <3>1 DEF Connecting
        <3>3. UnderWay' = UnderWay - 1 /\ UnderWay > 0 /\ finishing' \in Nat
            BY <3>1, <3>2, UnderWayCounts, UnderWayNext
        <3>4. UnderWay' <= MaxPending
            BY <3>3, UnderWayCounts DEF Counted
        <3>5. shown \in Contexts
            BY <3>3, UnderWayCounts DEF Counted
        <3> QED BY <3>1, <3>2, <3>3, <3>4, <3>5 DEF Counted, MaybeContext
    <2> QED BY <1>3, <2>1, <2>2, <2>3, <2>4 DEF MainStep
<1>4. ASSUME NEW w \in Workers, InitStep(w)
      PROVE  Counted'
    <2>1. CASE StartInit(w)
        BY <2>1, StartCounted
    <2>2. CASE Connect(w)
        <3>1. w \in Connecting
            BY <2>2 DEF Connect, Connecting, NoInit
        <3>2. CASE Answer(w, FALSE)
            BY <2>2, <3>1, <3>2, AnswerCounted DEF Connect, Counted
        <3>3. CASE initCall' = [initCall EXCEPT ![w].pc = "client"] /\ UNCHANGED answers
            <4>1. \A v \in Workers : initCall'[v] = NoInit <=> initCall[v] = NoInit
                BY <2>2, <3>3 DEF Connect, CallTypes, NoInit
            <4>2. Connecting' = Connecting /\ UnderWay' = UnderWay
                BY <2>2, <3>3, <4>1, SameConnecting DEF Connect
            <4> QED BY <2>2, <3>3, <4>2 DEF Connect, Counted
        <3> QED BY <2>2, <3>2, <3>3 DEF Connect
    <2>3. CASE StoreClient(w)
        <3>1. \A v \in Workers : initCall'[v] = NoInit <=> initCall[v] = NoInit
            BY <2>3 DEF StoreClient, CallTypes, NoInit
        <3>2. Connecting' = Connecting /\ UnderWay' = UnderWay
            BY <2>3, <3>1, SameConnecting DEF StoreClient
        <3> QED BY <2>3, <3>2 DEF StoreClient, Counted
    <2>4. CASE StoreStreamClient(w)
        <3>1. w \in Connecting /\ initCall[w].config \in Contexts
            BY <2>4 DEF StoreStreamClient, Connecting, NoInit, CallTypes
        <3> QED BY <2>4, <3>1, AnswerCounted DEF StoreStreamClient, MaybeContext
    <2> QED BY <1>4, <2>1, <2>2, <2>3, <2>4 DEF InitStep
<1>5. ASSUME NEW w \in Workers, NEW k \in Kinds, NEW s \in Scopes,
             ViewStartsReflector(w, k, s)
      PROVE  Counted'
    BY <1>5, SameUnderWay DEF ViewStartsReflector, switchVars, Counted
<1>6. CASE StoreStep
    BY <1>6, SameUnderWay DEF StoreStep, switchVars, Counted
<1>7. ASSUME NEW c \in Contexts, ConfigRead(c)
      PROVE  Counted'
    <2>1. {shown'} \subseteq MaybeContext /\ (shown' = shown \/ shown' \in Contexts)
        BY <1>7 DEF ConfigRead, Counted, MaybeContext
    <2> QED BY <1>7, <2>1, SameUnderWay DEF ConfigRead, Counted
<1> QED BY <1>1, <1>2, <1>3, <1>4, <1>5, <1>6, <1>7 DEF SwitchNext

(* Nothing is under way at the start. *)
LEMMA CountedInit ==
    ASSUME SwitchInit
    PROVE  CallTypes /\ Counted
<1>1. Connecting = {} /\ pending = <<>> /\ answers = <<>>
    BY DEF SwitchInit, Connecting
<1>2. UnderWay = 0 /\ IsFiniteSet(Connecting)
    <2>1. finishing = 0
        BY DEF SwitchInit
    <2>2. IsFiniteSet(Connecting) /\ Cardinality(Connecting) = 0
        BY <1>1, FS_EmptySet
    <2>3. Len(pending) = 0 /\ Len(answers) = 0
        BY <1>1
    <2> QED BY <2>1, <2>2, <2>3 DEF UnderWay, Connecting
<1>3. answers \in Seq([for : Contexts, ok : BOOLEAN])
    <2> DEFINE A == [for : Contexts, ok : BOOLEAN]
    <2> HIDE DEF A
    <2>1. answers \in Seq(A)
        BY <1>1, EmptySeq
    <2> QED BY <2>1 DEF A
<1> QED BY <1>1, <1>2, <1>3, SwitchAssumption DEF SwitchInit, CallTypes, Counted, MaybeContext

(* Every variable keeps its type and no more switches are under way than   *)
(* the bound allows.                                                       *)
THEOREM SwitchTypesCorrect == SwitchSpec => []SwitchTypeOK
<1>1. SwitchInit => CallTypes /\ Counted
    BY CountedInit
<1>2. CallTypes /\ Counted /\ [SwitchNext]_vars => CallTypes' /\ Counted'
    BY CallTypesStable, CountedStable
<1>3. SwitchSpec => []TypeOK
    BY SwitchUsesStore, TypeCorrect, PTL
<1>4. TypeOK /\ CallTypes /\ Counted => SwitchTypeOK
    BY DEF SwitchTypeOK, Counted
<1> QED BY <1>1, <1>2, <1>3, <1>4, PTL DEF SwitchSpec

-----------------------------------------------------------------------------
(* The clients.  However many switches wait for a thread, answer, fail or   *)
(* are reported, the two clients come apart only when init_runtime runs     *)
(* over a call that is connecting: every call that runs is otherwise of the *)
(* configuration loaded last, and stores the clients of that one.           *)

\* A client is of the configuration loaded last, but while init_runtime drops
\* the clients of the one before.
ClientsOfConfig ==
    /\ ~ Main("client") => client \in {NoClient, baseConfig}
    /\ ~ Main("client") /\ ~ Main("stream") => streamClient \in {NoClient, baseConfig}
    /\ Main("stream") => client = NoClient
    /\ Main("client") => ClientsAgree

\* How far each call has come.
Connected ==
    \A w \in Connecting :
        /\ initCall[w].config = baseConfig
        /\ initCall[w].pc = "stream" => client = baseConfig

InTurn == ClientsOfConfig /\ Connected

(* When init_runtime is not at work, no client is left of a context other   *)
(* than the one whose kubeconfig was loaded last (init_runtime and          *)
(* init_client_async of lib.rs).                                            *)
NoOldClient == main = MainIdle => {client, streamClient} \subseteq {NoClient, baseConfig}

(* What a view, a worker that starts a reflector and a watcher task do      *)
(* leaves the clients and the switches alone.                               *)
LEMMA StoreLeavesSwitch ==
    ASSUME \/ StoreStep
           \/ \E w \in Workers, k \in Kinds, s \in Scopes : ViewStartsReflector(w, k, s)
           \/ UNCHANGED vars
    PROVE  UNCHANGED <<client, switchVars>>
BY DEF StoreStep, WorkerStep, ReuseReflector, CreateReflector, ReflectorReady, FirstList,
       List, TaskEnds, ViewStartsReflector, StartReflector, vars, reflectorVars

(* What leaves the clients, the configuration and the calls alone keeps the *)
(* invariant, whether init_runtime begins or the main thread goes on.       *)
LEMMA InTurnStable ==
    ASSUME InTurn, UNCHANGED <<client, baseConfig, streamClient, initCall>>,
           ~ Main("client") /\ ~ Main("stream"),
           ~ Main("client")' /\ ~ Main("stream")'
    PROVE  InTurn'
BY DEF InTurn, ClientsOfConfig, Connected, Connecting, ClientsAgree

(* The main thread: while it is in init_runtime no call runs. *)
LEMMA InTurnMain ==
    ASSUME CallTypes, InTurn, NoSwitchOverCall, MainStep
    PROVE  InTurn'
<1> USE DEF MainIdle
<1>1. CASE DrainStore \/ LoadConfig \/ ClearClient \/ ClearStreamClient
    <2>1. main # MainIdle /\ UNCHANGED initCall
        BY <1>1 DEF DrainStore, LoadConfig, ClearClient, ClearStreamClient, Main
    <2>2. Connecting' = {}
        BY <2>1 DEF Connecting, NoSwitchOverCall
    <2>3. main \in [pc : {"drain", "config", "client", "stream", "queue"}, for : Contexts]
        BY <2>1 DEF CallTypes
    <2>4. ClientsOfConfig'
        <3>1. CASE DrainStore
            <4>1. main.pc = "drain" /\ main'.pc = "config"
                BY <3>1, <2>3 DEF DrainStore, Main
            <4> QED BY <3>1, <4>1 DEF DrainStore, ShutdownAll, Main, InTurn, ClientsOfConfig
        <3>2. CASE LoadConfig
            <4>1. /\ main.pc = "config"
                  /\ \/ main'.pc = "client"
                     \/ main'.pc = "queue" /\ UNCHANGED baseConfig
                  /\ UNCHANGED <<client, streamClient>>
                BY <3>2, <2>3 DEF LoadConfig, Main, reflectorVars
            <4> QED BY <4>1 DEF Main, InTurn, ClientsOfConfig, ClientsAgree
        <3>3. CASE ClearClient
            <4>1. main.pc = "client" /\ main'.pc = "stream"
                BY <3>3, <2>3 DEF ClearClient, Main
            <4> QED BY <3>3, <4>1 DEF ClearClient, SetClient, Main, InTurn, ClientsOfConfig
        <3>4. CASE ClearStreamClient
            <4>1. main.pc = "stream" /\ main'.pc = "queue"
                BY <3>4, <2>3 DEF ClearStreamClient, Main
            <4> QED BY <3>4, <2>1, <4>1
                    DEF ClearStreamClient, reflectorVars, Main, InTurn, ClientsOfConfig
        <3> QED BY <1>1, <3>1, <3>2, <3>3, <3>4
    <2> QED BY <2>2, <2>4 DEF InTurn, Connected
<1>2. CASE QueueInit \/ Callback \/ Finish
    <2>1. UNCHANGED <<client, baseConfig, streamClient, initCall>>
        BY <1>2 DEF QueueInit, Callback, Finish, reflectorVars
    <2>2. /\ ~ Main("client") /\ ~ Main("stream")
          /\ ~ Main("client")' /\ ~ Main("stream")'
        BY <1>2 DEF QueueInit, Callback, Finish, Main
    <2> QED BY <2>1, <2>2, InTurnStable
<1> QED BY <1>1, <1>2 DEF MainStep

(* A call that runs: it takes a thread, connects, and stores one client and *)
(* the other, while init_runtime is not at work.                            *)
LEMMA InTurnCall ==
    ASSUME CallTypes, InTurn, NoSwitchOverCall, NEW w \in Workers, InitStep(w)
    PROVE  InTurn'
<1> USE DEF MainIdle
<1>1. CASE StartInit(w)
    <2>1. UNCHANGED <<client, baseConfig, streamClient, main>>
        BY <1>1 DEF StartInit, reflectorVars
    <2>2. \A v \in Workers : \/ initCall'[v] = initCall[v]
                             \/ initCall'[v].config = baseConfig /\ initCall'[v].pc = "connect"
        BY <1>1 DEF StartInit, CallTypes
    <2>3. Connected'
        BY <2>1, <2>2 DEF InTurn, Connected, Connecting
    <2>4. ClientsOfConfig'
        BY <2>1 DEF InTurn, ClientsOfConfig, Main, ClientsAgree
    <2> QED BY <2>3, <2>4 DEF InTurn
<1>2. CASE Connect(w) \/ StoreClient(w) \/ StoreStreamClient(w)
    <2>1. w \in Connecting
        <3>1. initCall[w].pc \in {"connect", "client", "stream"}
            BY <1>2 DEF Connect, StoreClient, StoreStreamClient
        <3> QED BY <3>1 DEF Connecting, NoInit
    <2>2. initCall[w].config = baseConfig /\ (initCall[w].pc = "stream" => client = baseConfig)
        BY <2>1 DEF InTurn, Connected
    <2>3. main = MainIdle /\ UNCHANGED <<main, baseConfig>>
        BY <1>2, <2>1 DEF NoSwitchOverCall, Connecting, Connect, StoreClient, StoreStreamClient
    <2>4. client' \in {client, baseConfig} /\ streamClient' \in {streamClient, baseConfig}
        BY <1>2, <2>2 DEF Connect, StoreClient, StoreStreamClient, SetClient, reflectorVars
    <2>5. ~ Main("client") /\ ~ Main("stream") /\ ~ Main("client")' /\ ~ Main("stream")'
        BY <2>3 DEF Main
    <2>6. ClientsOfConfig'
        BY <2>3, <2>4, <2>5 DEF InTurn, ClientsOfConfig
    <2>7. \A v \in Workers \ {w} : initCall'[v] = initCall[v]
        BY <1>2 DEF Connect, StoreClient, StoreStreamClient, Answer, CallTypes
    <2>8. w \in Connecting' =>
              /\ initCall'[w].config = baseConfig
              /\ (initCall'[w].pc = "stream" => client' = baseConfig)
        <3>1. initCall[w] \in
                [pc : {"connect", "client", "stream"}, for : Contexts, config : Contexts]
            BY <2>1 DEF CallTypes, Connecting
        <3>2. CASE Connect(w)
            BY <2>2, <3>1, <3>2 DEF Connect, Answer, Connecting, CallTypes
        <3>3. CASE StoreClient(w)
            BY <2>2, <3>1, <3>3 DEF StoreClient, SetClient, CallTypes
        <3>4. CASE StoreStreamClient(w)
            BY <3>4 DEF StoreStreamClient, Answer, Connecting, CallTypes
        <3> QED BY <1>2, <3>2, <3>3, <3>4
    <2>9. \A v \in Connecting : initCall[v].pc = "stream" => client' = baseConfig
        BY <2>4 DEF InTurn, Connected
    <2>10. Connected'
        BY <2>3, <2>7, <2>8, <2>9 DEF InTurn, Connected, Connecting
    <2> QED BY <2>6, <2>10 DEF InTurn
<1> QED BY <1>1, <1>2 DEF InitStep

(* The invariant is kept as long as no switch begins over a call. *)
LEMMA InTurnInductive ==
    ASSUME CallTypes, InTurn, NoSwitchOverCall, SwitchNext \/ UNCHANGED vars
    PROVE  InTurn'
<1>1. ASSUME NEW c \in Contexts, BeginSwitch(c)
      PROVE  InTurn'
    <2>1. UNCHANGED <<client, baseConfig, streamClient, initCall>>
        BY <1>1 DEF BeginSwitch, reflectorVars
    <2>2. /\ ~ Main("client") /\ ~ Main("stream")
          /\ ~ Main("client")' /\ ~ Main("stream")'
        BY <1>1 DEF BeginSwitch, Main
    <2> QED BY <2>1, <2>2, InTurnStable
<1>2. CASE MainStep
    BY <1>2, InTurnMain
<1>3. ASSUME NEW w \in Workers, InitStep(w)
      PROVE  InTurn'
    BY <1>3, InTurnCall
<1>4. ASSUME UNCHANGED <<client, baseConfig, streamClient, initCall, main>>
      PROVE  InTurn'
    BY <1>4 DEF InTurn, ClientsOfConfig, Connected, Connecting, Main, ClientsAgree
<1>5. CASE \/ StoreStep
           \/ \E w \in Workers, k \in Kinds, s \in Scopes : ViewStartsReflector(w, k, s)
           \/ UNCHANGED vars
    BY <1>4, <1>5, StoreLeavesSwitch DEF switchVars
<1>6. ASSUME NEW c \in Contexts, ConfigRead(c)
      PROVE  InTurn'
    BY <1>4, <1>6 DEF ConfigRead, reflectorVars
<1> QED BY <1>1, <1>2, <1>3, <1>5, <1>6 DEF SwitchNext

LEMMA InTurnAlways == SwitchSpec /\ []NoSwitchOverCall => []InTurn
<1>1. SwitchInit => CallTypes /\ InTurn
    <2> SUFFICES ASSUME SwitchInit PROVE CallTypes /\ InTurn
        OBVIOUS
    <2>1. CallTypes
        BY CountedInit
    <2>2. Connecting = {}
        BY DEF SwitchInit, Connecting
    <2> QED BY <2>1, <2>2
            DEF SwitchInit, Init, InTurn, ClientsOfConfig, Connected, ClientsAgree, Main
<1>2. CallTypes /\ InTurn /\ NoSwitchOverCall /\ [SwitchNext]_vars => CallTypes' /\ InTurn'
    BY CallTypesStable, InTurnInductive
<1> QED BY <1>1, <1>2, PTL DEF SwitchSpec

(* The tables come to talk to one cluster and logs, exec and port forwards  *)
(* to another only when a switch begins while the call of an earlier one is *)
(* connecting, however many are queued, fail or wait for their reports      *)
(* (init_runtime and init_client_async of lib.rs).                          *)
THEOREM ClientsPartOnlyOverCall == SwitchSpec /\ []NoSwitchOverCall => []ClientsAgree
<1>1. InTurn => ClientsAgree
    BY DEF InTurn, ClientsOfConfig, ClientsAgree, Main
<1> QED BY <1>1, InTurnAlways, PTL

(* Nor is, but for such a switch, any client left of an earlier context     *)
(* once init_runtime is done, also when it could not load the kubeconfig.   *)
THEOREM NoOldClientIsLeft == SwitchSpec /\ []NoSwitchOverCall => []NoOldClient
<1>1. InTurn => NoOldClient
    BY DEF InTurn, ClientsOfConfig, NoOldClient, Main, MainIdle
<1> QED BY <1>1, InTurnAlways, PTL
=============================================================================
