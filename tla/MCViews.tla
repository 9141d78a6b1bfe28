------------------------------- MODULE MCViews -------------------------------
(* A view and the tables it reads, on small instances.  They share only    *)
(* what ViewLoop calls a table, so one run explores them without           *)
(* interleaving them: a behaviour is about the loop of a view, where the   *)
(* user asks for other things or where the store changes, about a store    *)
(* that changes under a reader, or about one read of a full store.         *)
EXTENDS ViewLoop, RowReads

VARIABLE part  \* what this behaviour is about

MCWords == <<"%", "<none>", "Available", "Bound", "ClusterIP", "Completed", "CrashLoopBackOff", "ExitCode:", "Init:", "Lost",
    "NotReady", "Normal", "OOMKilled", "Pending", "Ready", "Running", "SchedulingDisabled", "Signal:", "SvcAcct", "Terminating",
    "True", "Unknown", "User", "Waiting", "a", "ago", "b", "c", "container", "cpu", "debug", "initcontainer", "memory", "n/a",
    "LoadBalancer", "NodePort", "ExternalName", "ns", "true", "false">>

-----------------------------------------------------------------------------
(* Objects.                                                                *)
\* An object with what every one has, and with texts that do not matter.
Made(name, texts, more) ==
    more @@ [name |-> name, ns |-> "ns", created |-> 9, text |-> [f \in texts |-> "c"],
             labels |-> {<<"app", name>>}, paths |-> {<<"metadata.name", name>>}]
Two(texts, more) == {Made(name, texts, more) : name \in {"a", "b"}}

Cs(name, s) == [name |-> name, state |-> s[1], reason |-> s[2], signal |-> IF s[3] = 9 THEN 9 ELSE 0, code |-> s[3],
    ready |-> s[1] = "running", started |-> s[1] = "running", restarts |-> s[3], ended |-> s[3] > 0]
Container(name, cpu) == [name |-> name, used |-> [cpu |-> 90, mem |-> 1],
    requests |-> [cpu |-> cpu, mem |-> 2097152], limits |-> [cpu |-> 2 * cpu, mem |-> 1000]]
States == {<<"running", Unset, 0>>, <<"waiting", "CrashLoopBackOff", 0>>, <<"waiting", Unset, 0>>,
    <<"terminated", "Completed", 0>>, <<"terminated", Unset, 9>>, <<"terminated", "", 9>>, <<"terminated", Unset, 1>>}
InitStates == {<<"running", Unset, 0>>, <<"waiting", "CrashLoopBackOff", 0>>, <<"terminated", "Completed", 0>>}

Pod(name, deleted, first, second, init) ==
    Made(name, {}, [phase |-> "Running", reason |-> Unset, reported |-> TRUE, deleted |-> deleted, node |-> "a",
        ip |-> <<10, 0, 0, 7>>, stats |-> [cpu |-> 90, mem |-> 4],
        containers |-> <<Container("a", 100), Container("b", 0)>>, statuses |-> <<Cs("a", first), Cs("b", second)>>,
        initContainers |-> <<Container("c", 0)>>, inits |-> <<Cs("c", init)>>, sidecars |-> {"c"},
        debugContainers |-> <<>>, debugs |-> <<>>])
Pods == {Pod("a", deleted, s, t, init) : deleted \in BOOLEAN, s \in States, t \in States, init \in InitStates}
    \cup {Pod("b", FALSE, <<"terminated", Unset, n>>, <<"running", Unset, 0>>, <<"running", Unset, 0>>) : n \in {1, 9}}
    \cup {[Pod("a", deleted, <<"none", Unset, 0>>, <<"none", Unset, 0>>, <<"none", Unset, 0>>)
              EXCEPT !.reported = FALSE, !.statuses = <<>>, !.inits = <<>>] : deleted \in BOOLEAN}

\* Objects of every kind, with numbers of one and of two digits.
MCPool ==
    "Pod" :> Pods
    @@ "Container" :> {Pod("a", FALSE, s, <<"running", Unset, 0>>, <<"none", Unset, 0>>) : s \in States}
    @@ "Deployment" :> {Made(name, {}, [replicas |-> r, current |-> 3, available |-> n, unavailable |-> 0, updated |-> 1]) :
            name \in {"a", "b"}, r \in {Unset, 12}, n \in {2, 12}}
    @@ "StatefulSet" :> {Made(name, {}, [available |-> n, ready |-> 10]) : name \in {"a", "b"}, n \in {9, 10}}
    @@ "DaemonSet" :> {Made(name, {}, [desired |-> 10, current |-> 9, updated |-> 9, available |-> 2, selectors |-> 0,
            ready |-> n]) : name \in {"a", "b"}, n \in {9, 10}}
    @@ "ReplicaSet" :> Two({"containers", "images", "selector"}, [desired |-> 10, current |-> 9, ready |-> 10])
    @@ "Job" :> Two({"containers", "images", "duration"}, [succeeded |-> 1, desired |-> 0])
    @@ "CronJob" :> {Made(name, {"schedule", "last schedule", "containers", "images", "selector"},
            [suspended |-> name = "a", active |-> 1]) : name \in {"a", "b"}}
    @@ "Node" :> {Made(name, {"roles", "version", "os-image"}, [unschedulable |-> name = "b", conditions |-> c,
            internal |-> <<10, 0, 0, 1>>, external |-> <<>>]) : name \in {"a", "b"}, c \in {<<>>, <<"True">>, <<"Unknown">>}}
    @@ "Namespace" :> Two({}, [phase |-> "Terminating"])
    @@ "PersistentVolume" :> Two({"capacity", "access modes", "reclaim policy", "claim", "storage class", "reason"},
            [phase |-> "Bound", deleted |-> FALSE])
    @@ "PersistentVolumeClaim" :> {Made(name, {"volume", "capacity", "access modes", "storage class"},
            [phase |-> phase, deleted |-> name = "b"]) : name \in {"a", "b"}, phase \in {"Bound", "Lost", "Pending", ""}}
    @@ "Service" :> {Made(name, {"ports"}, [type |-> type, clusterIp |-> "", externalIps |-> <<"a">>, ingress |-> <<"b">>,
            externalName |-> "c"]) : name \in {"a", "b"}, type \in {"NodePort", "LoadBalancer", "ExternalName", "ClusterIP"}}
    @@ "Ingress" :> Two({}, [class |-> "", annotation |-> "a", hosts |-> <<"a", "b">>, ports |-> {Unset}, tls |-> TRUE,
            ingress |-> <<"c">>])
    @@ "HorizontalPodAutoscaler" :> {Made(name, {"reference", "minpods", "maxpods", "replicas"},
            [metrics |-> "cpu" :> [current |-> n, target |-> 10] @@ "memory" :> [current |-> Unset, target |-> Unset]]) :
            name \in {"a", "b"}, n \in {1, 9, 10}}
    @@ "Event" :> {Made(name, {"reason", "message"}, [observed |-> Unset, happened |-> Unset, repeated |-> Unset,
            type |-> "Normal", count |-> n, kind |-> "a", involved |-> "b"]) : name \in {"a", "b"}, n \in {Unset, 2, 10}}
    @@ "ClusterRole" :> Two({}, <<>>)
    @@ "ClusterRoleBinding" :> Two({"role"}, [subjects |-> <<"a", "b">>, kinds |-> <<"User", "ServiceAccount">>])
    @@ "CustomResourceDefinition" :> Two({"group", "kind", "scope"}, [versions |-> <<"a">>, deprecated |-> TRUE])
    @@ "ConfigMap" :> {Made(name, {}, [data |-> n]) : name \in {"a", "b"}, n \in {2, 10}}
    @@ "Secret" :> {Made("a", {"type"}, [data |-> 2]), Made("b", {"type"}, [data |-> 10])}
    @@ "ServiceAccount" :> Two({}, [secrets |-> 1])
    @@ "StorageClass" :> Two({"provisioner", "reclaimpolicy", "volumebindingmode", "allowvolumeexpansion"}, <<>>)
    @@ "Fallback" :> Two({"age", "cpu"}, [namespaced |-> TRUE, columns |-> <<"name", "age", "cpu", "age">>])
    @@ "Default" :> Two({}, <<>>)

\* What is asked for: an order by default, by a text, by padded and by plain
\* numbers; everything, or what has a letter or a digit, or does not.
Patterns == {{}} \cup {{[negative |-> n, text |-> x]} : n \in BOOLEAN, x \in {Spelled("a"), <<2>>}}
MCParams ==
    [k \in DOMAIN MCPool |->
        IF k = "Secret" THEN
            {[sort_by |-> "data", sort_order |-> "", filter |-> {}, filter_label |-> {}, filter_key |-> {}]}
        ELSE {[sort_by |-> by, sort_order |-> order, filter |-> patterns, filter_label |-> {<<"broken">>}, filter_key |-> {}] :
                by \in {"", "status", "ready", "restarts", "data", "count", "age"}, order \in {"", "desc"},
                patterns \in IF k = "Pod" THEN {{}} ELSE Patterns}
            \cup {[sort_by |-> "name", sort_order |-> "desc", filter |-> {}, filter_label |-> {<<"app", "a">>},
                   filter_key |-> {<<"metadata.name", "a">>}]}]

-----------------------------------------------------------------------------
\* One read of a store that is full, of at most an object of each name.
FullStore ==
    /\ version = MaxVersions /\ cluster = MaxClusters /\ live = {}
    /\ \E first \in MCPool[kind], rest \in SUBSET {o \in MCPool[kind] : o.name = "b"} :
        /\ Cardinality(rest) <= 1 /\ first.name = "a"
        /\ memory = 1 :> [rv |-> 1, o |-> first] @@ [a \in IF rest = {} THEN {} ELSE {2} |->
                        [rv |-> 2, o |-> CHOOSE o \in rest : TRUE]]
    /\ arcs = DOMAIN memory /\ cache = <<>>
    /\ reader = NoRead /\ shown = NoRead /\ mixed = FALSE

MCInit ==
    /\ ViewInit
    /\ \/ part \in {"queries", "events"} /\ RowInit /\ kind = "ConfigMap"
       \/ part = "changes" /\ RowInit /\ kind = "Secret"
       \/ part = "tables" /\ kind \in DOMAIN MCPool /\ FullStore
    /\ part # "queries" => query = CHOOSE q \in Queries : TRUE
    /\ part # "events" => store = CHOOSE r \in Rows \ Unprocessable : TRUE

MCSpec ==
    /\ MCInit
    /\ [][ /\ UNCHANGED part
           /\ \/ part = "queries" /\ ViewNext /\ UNCHANGED <<store, rowVars>>
              \/ part = "events" /\ ViewNext /\ UNCHANGED <<query, rowVars>>
              \/ part = "changes" /\ RowNext /\ UNCHANGED viewVars
              \/ /\ part = "tables" /\ shown = NoRead
                 /\ Get \/ Return \/ \E i \in 1..2 : Parse(i)
                 /\ UNCHANGED viewVars
         ]_<<part, viewVars, rowVars>>
    /\ ViewFairness
=============================================================================
