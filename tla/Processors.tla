-------------------------------- MODULE Processors -----------------------------
(***************************************************************************)
(* The row processors of kubectl-client/src/processors: for every kind,    *)
(* the row of an object, the columns it can be sorted and filtered by, and *)
(* the table that a view gets, filtered and sorted (processor.rs, sort.rs, *)
(* filter.rs).  Pure operators; RowReads runs them.                        *)
(*                                                                         *)
(* A text is a sequence of characters, a character the distance of its     *)
(* code from that of 0: numbers are spelled digit by digit, the slash is   *)
(* below all digits, and a word is one character above them.               *)
(***************************************************************************)
EXTENDS Integers, SequencesExt

CONSTANTS
    Words,   \* the words there are, in their order
    Unset    \* no sort key, no number, no reason

Spelled(word) == IF word = "" THEN <<>> ELSE <<17 + CHOOSE i \in DOMAIN Words : Words[i] = word>>
Digits(n) ==
    LET spell[m \in 0..n] == IF m < 10 THEN <<m>> ELSE Append(spell[m \div 10], m % 10) IN spell[n]
Slash == <<-1>>
Dot == <<-2>>

(* Mutant: the digits as they are. *)
Unpadded(n) == Digits(n)

pad_key(n) == [i \in 1..(20 - Len(Digits(n))) |-> 0] \o Digits(n)

\* Some of the words of the three lists; case does not matter in them.
ErrorStatuses == {"Error", "CrashLoopBackOff", "ErrImagePull", "OOMKilled", "Failed", "Lost", "Unknown"}
WarningStatuses == {"Warning", "ContainerCreating", "NotReady", "Pending", "PodInitializing", "Terminating",
                    "Available", "Released"}
SuccessStatuses == {"Active", "Bound", "Completed", "Normal", "Ready", "Running"}

color_status(text) ==
    LET Among(list) == \E i \in DOMAIN Words : Words[i] \in list /\ Spelled(Words[i]) = text
    IN  CASE Among(ErrorStatuses) -> "error"
          [] Among(WarningStatuses) -> "warning"
          [] Among(SuccessStatuses) -> "success"
          [] OTHER -> ""

-----------------------------------------------------------------------------
(* Fields of rows.  A row is a map from columns to fields; more columns do *)
(* not take the place of those it has.                                     *)
row ++ more ==
    [f \in DOMAIN row \cup DOMAIN more |-> IF f \in DOMAIN row THEN row[f] ELSE more[f]]
Column(f, field) == [g \in {f} |-> field]

FieldValue(value, sort_by, symbol) == [value |-> value, sort_by |-> sort_by, symbol |-> symbol]
Text(value) == FieldValue(value, Unset, "")
Word(word) == Text(Spelled(word))
Count(n) == FieldValue(Digits(n), n, "")
Status(text) == FieldValue(text, Unset, color_status(text))
Ratio(part, whole, key, full) ==
    FieldValue(Digits(part) \o Slash \o Digits(whole), key, IF full THEN "note" ELSE "deprecated")

\* The age is that of the object, never of a cached one; its text is spelled
\* like its key.
get_age(o) == Count(o.created)
Of(o) == [name |-> Word(o.name), age |-> get_age(o)]
Named(o) == [name |-> Word(o.name), age |-> get_age(o), namespace |-> Word(o.ns)]
Fields(o, names) == [f \in names |-> Word(o.text[f])]

percent(used, limit) == (200 * used + limit) \div (2 * limit)
color_usage(p) == IF p >= 90 THEN "error" ELSE IF p >= 80 THEN "warning" ELSE "success"
Usage(used, limit) ==
    IF limit = 0 THEN Word("n/a") ELSE FieldValue(Digits(percent(used, limit)), percent(used, limit), color_usage(percent(used, limit)))

-----------------------------------------------------------------------------
(* Pods.  A container's status: its state, the reason and signal it gives  *)
(* (Unset and 0 for none), its exit code, whether it is ready and has      *)
(* started, its restarts, when it last ended.                              *)
IsGiven(reason) == reason \notin {Unset, ""}

InitStatus(cs, i, count, restartable) ==
    LET init == Spelled("Init:")
    IN  CASE cs.state = "terminated" ->
               (CASE cs.code = 0 -> <<>>
                  [] cs.code # 0 /\ IsGiven(cs.reason) -> init \o Spelled(cs.reason)
                  [] cs.code # 0 /\ ~IsGiven(cs.reason) /\ cs.signal # 0 ->
                        init \o Spelled("Signal:") \o Digits(cs.signal)
                  [] OTHER -> init \o Spelled("ExitCode:") \o Digits(cs.code))
          [] cs.state # "terminated" /\ cs.state # "none" /\ restartable /\ cs.started /\ cs.ready -> <<>>
          [] cs.state = "waiting" /\ ~(restartable /\ cs.started) /\ IsGiven(cs.reason)
                /\ cs.reason # "PodInitializing" -> init \o Spelled(cs.reason)
          [] OTHER -> init \o Digits(i) \o Slash \o Digits(count)

\* The first init container that has something to say, or nothing.
get_init_container_status(pod) ==
    LET said == [i \in DOMAIN pod.inits |->
                    InitStatus(pod.inits[i], i, Len(pod.initContainers), pod.inits[i].name \in pod.sidecars)]
        saying == {i \in DOMAIN said : pod.initContainers # <<>> /\ said[i] # <<>>}
    IN  IF saying = {} THEN <<>> ELSE said[CHOOSE i \in saying : \A j \in saying : i <= j]

\* What a container that does not run says, or nothing.
ContainerSays(cs) ==
    CASE cs.state \in {"waiting", "terminated"} /\ IsGiven(cs.reason) -> Spelled(cs.reason)
      [] cs.state = "terminated" /\ cs.reason = Unset /\ cs.signal # 0 -> Spelled("Signal:") \o Digits(cs.signal)
      [] cs.state = "terminated" /\ ~IsGiven(cs.reason) /\ ~(cs.reason = Unset /\ cs.signal # 0) ->
            Spelled("ExitCode:") \o Digits(cs.code)
      [] OTHER -> <<>>

(* Mutant: the containers are walked from the first to the last. *)
LastContainerSays(pod, default) ==
    LET saying == {i \in DOMAIN pod.statuses : ContainerSays(pod.statuses[i]) # <<>>}
    IN  IF saying = {} THEN default
        ELSE ContainerSays(pod.statuses[CHOOSE i \in saying : \A j \in saying : i >= j])

\* They are walked from the last to the first, and the last one found stands.
get_container_status(pod, default) ==
    LET saying == {i \in DOMAIN pod.statuses : ContainerSays(pod.statuses[i]) # <<>>}
    IN  IF saying = {} THEN default
        ELSE ContainerSays(pod.statuses[CHOOSE i \in saying : \A j \in saying : i <= j])

get_pod_status(pod) ==
    LET phase == Spelled(IF pod.reason # Unset THEN pod.reason ELSE IF pod.phase = Unset THEN "Unknown" ELSE pod.phase)
        init == get_init_container_status(pod)
        said == get_container_status(pod, phase)
        running == \E i \in DOMAIN pod.statuses : pod.statuses[i].state = "running" /\ pod.statuses[i].ready
        unknown == ~pod.reported \/ (pod.deleted /\ pod.reason = "NodeLost")
    IN  CASE unknown -> Status(Spelled("Unknown"))
          [] ~unknown /\ init # <<>> -> Status(init)
          [] ~unknown /\ init = <<>> /\ pod.deleted -> Status(Spelled("Terminating"))
          [] OTHER -> Status(IF running /\ said = Spelled("Completed") THEN Spelled("Running") ELSE said)

get_ready(pod) ==
    LET ready == Cardinality({i \in DOMAIN pod.statuses : pod.statuses[i].ready})
    IN  Ratio(ready, Len(pod.containers), ready,
              ready = Len(pod.containers) \/ get_pod_status(pod).value = Spelled("Completed"))

\* With the time of the last end, of which the text keeps that there is one.
get_restarts(pod) ==
    LET sum == FoldSeq(LAMBDA cs, n : n + cs.restarts, 0, pod.statuses)
        ended == \E i \in DOMAIN pod.statuses : pod.statuses[i].ended
    IN  FieldValue(Digits(sum) \o (IF ended THEN Spelled("ago") ELSE <<>>), sum, IF sum > 0 THEN "warning" ELSE "")

ip_to_u32(octets) == IF Len(octets) # 4 THEN Unset ELSE FoldSeq(LAMBDA octet, n : 256 * n + octet, 0, octets)
Address(octets) == FieldValue(FlattenSeq([i \in DOMAIN octets |-> Digits(octets[i]) \o Dot]), ip_to_u32(octets), "")

\* Quantities come in thousandths of a CPU and in bytes.
quantity_to_mib(bytes) == bytes \div 1048576
sum_resources(pod, part) ==
    [cpu |-> FoldSeq(LAMBDA c, n : n + c[part].cpu, 0, pod.containers),
     mem |-> FoldSeq(LAMBDA c, n : n + quantity_to_mib(c[part].mem), 0, pod.containers)]

PodRow(pod) ==
    LET req == sum_resources(pod, "requests")
        lim == sum_resources(pod, "limits")
    IN  Named(pod)
        ++ [ready |-> get_ready(pod), status |-> get_pod_status(pod), restarts |-> get_restarts(pod),
            ip |-> Address(pod.ip), node |-> Word(pod.node), cpu |-> Count(pod.stats.cpu), mem |-> Count(pod.stats.mem)]
        ++ Column("%cpu/r", Usage(pod.stats.cpu, req.cpu)) ++ Column("%cpu/l", Usage(pod.stats.cpu, lim.cpu))
        ++ Column("%mem/r", Usage(pod.stats.mem, req.mem)) ++ Column("%mem/l", Usage(pod.stats.mem, lim.mem))

\* The containers of one pod: its own, then the init and the debug ones.
find_status(pod, name) ==
    LET all == pod.statuses \o pod.inits \o pod.debugs
        found == {i \in DOMAIN all : all[i].name = name}
    IN  IF found = {} THEN Unset ELSE all[CHOOSE i \in found : \A j \in found : i <= j]

container_state(cs) ==
    CASE cs.state = "running" -> Spelled("Running")
      [] cs.state = "waiting" -> Spelled(IF cs.reason = Unset THEN "Waiting" ELSE cs.reason)
      [] cs.state = "terminated" ->
            IF cs.reason = Unset THEN Spelled("ExitCode:") \o Digits(cs.code) ELSE Spelled(cs.reason)
      [] OTHER -> Spelled("Unknown")

ContainerFields(pod, c, type) ==
    LET cs == find_status(pod, c.name)
        Used(used, limit) == Text(Usage(used, limit).value)
    IN  [name |-> Word(c.name), type |-> Word(type),
         ready |-> Word(IF cs = Unset THEN "n/a" ELSE IF cs.ready THEN "true" ELSE "false"),
         state |-> Text(IF cs = Unset THEN Spelled("Unknown") ELSE container_state(cs)),
         restarts |-> Text(Digits(IF cs = Unset THEN 0 ELSE cs.restarts))]
        ++ Column("%cpu/r", Used(c.used.cpu, c.requests.cpu)) ++ Column("%cpu/l", Used(c.used.cpu, c.limits.cpu))
        ++ Column("%mem/r", Used(c.used.mem, quantity_to_mib(c.requests.mem)))
        ++ Column("%mem/l", Used(c.used.mem, quantity_to_mib(c.limits.mem)))

ContainersRow(pod) ==
    LET Lines(containers, type) == [i \in DOMAIN containers |-> ContainerFields(pod, containers[i], type)]
    IN  [namespace |-> Word(pod.ns), pod |-> Word(pod.name),
         containers |-> Lines(pod.containers, "container") \o Lines(pod.initContainers, "initcontainer")
                        \o Lines(pod.debugContainers, "debug")]

-----------------------------------------------------------------------------
(* The other kinds.  What a row takes from its object as it is, is in      *)
(* o.text; lists of names are words too.                                   *)
DeploymentRow(o) ==
    LET replicas == IF o.replicas = Unset THEN o.current ELSE o.replicas
    IN  Named(o) ++ Column("up-to-date", Text(Digits(o.updated)))
        ++ [available |-> Text(Digits(o.available)),
            ready |-> Ratio(o.available, replicas, 1001 * o.available + replicas,
                            o.available = replicas /\ o.unavailable = 0)]

\* Of a StatefulSet, what is available is held against what is ready.
StatefulSetRow(o) ==
    Named(o) ++ [ready |-> Ratio(o.available, o.ready, 1001 * o.available + o.ready, o.available = o.ready)]

DaemonSetRow(o) ==
    Named(o)
    ++ [desired |-> Text(Digits(o.desired)), current |-> Text(Digits(o.current)), available |-> Text(Digits(o.available)),
        ready |-> Ratio(o.ready, o.desired, 1001 * o.ready + o.desired, o.ready = o.desired)]
    ++ Column("up-to-date", Text(Digits(o.updated))) ++ Column("node selector", Text(Digits(o.selectors)))

Replicas(n, desired) == FieldValue(Digits(n), n, IF n < desired THEN "deprecated" ELSE "note")
ReplicaSetRow(o) ==
    Named(o) ++ Fields(o, {"containers", "images", "selector"})
    ++ [desired |-> Replicas(o.desired, o.desired), current |-> Replicas(o.current, o.desired),
        ready |-> Replicas(o.ready, o.desired)]

JobRow(o) ==
    Named(o) ++ Fields(o, {"duration", "containers", "images"})
    ++ [completions |-> Ratio(o.succeeded, o.desired, o.succeeded, o.succeeded = o.desired)]

CronJobRow(o) ==
    Named(o) ++ Fields(o, {"schedule", "last schedule", "containers", "images", "selector"})
    ++ [suspend |-> FieldValue(Spelled(IF o.suspended THEN "true" ELSE "false"), Unset,
                               IF o.suspended THEN "error" ELSE "success"),
        active |-> FieldValue(Digits(o.active), o.active, IF o.active > 0 THEN "note" ELSE "deprecated")]

\* Of several conditions of one type the last one counts.
NodeStatus(o) ==
    CASE o.unschedulable -> FieldValue(Spelled("SchedulingDisabled"), Unset, "warning")
      [] ~o.unschedulable /\ o.conditions = <<>> -> FieldValue(Spelled("Unknown"), Unset, "error")
      [] OTHER -> IF Last(o.conditions) = "True" THEN FieldValue(Spelled("Ready"), Unset, "success")
                  ELSE Status(Spelled("NotReady"))

NodeRow(o) ==
    Of(o) ++ [status |-> NodeStatus(o)] ++ Fields(o, {"roles", "version", "os-image"})
    ++ Column("internal-ip", Address(o.internal)) ++ Column("external-ip", Address(o.external))

NamespaceRow(o) == Of(o) ++ [status |-> Status(Spelled(IF o.phase = "" THEN "Unknown" ELSE o.phase))]

\* The phase of what is being deleted is Terminating.
VolumePhase(o) == IF o.deleted THEN "Terminating" ELSE IF o.phase = "" THEN "Unknown" ELSE o.phase

PersistentVolumeRow(o) ==
    Of(o) ++ [status |-> Status(Spelled(VolumePhase(o)))]
    ++ Fields(o, {"capacity", "access modes", "reclaim policy", "claim", "storage class", "reason"})

PersistentVolumeClaimRow(o) ==
    LET rank == CASE VolumePhase(o) = "Bound" -> <<4, "note">>
                  [] VolumePhase(o) = "Pending" -> <<2, "warning">>
                  [] VolumePhase(o) \in {"Terminating", "Lost"} -> <<1, "error">>
                  [] OTHER -> <<0, "neutral">>
    IN  Named(o) ++ [status |-> FieldValue(Spelled(VolumePhase(o)), rank[1], rank[2])]
        ++ Fields(o, {"volume", "capacity", "access modes", "storage class"})

\* Where a Service can be reached from outside; its addresses are words.
ServiceType(type) ==
    CASE type = "NodePort" -> FieldValue(Spelled(type), 1, "debug")
      [] type = "LoadBalancer" -> FieldValue(Spelled(type), 2, "note")
      [] type = "ExternalName" -> FieldValue(Spelled(type), 3, "success")
      [] OTHER -> FieldValue(Spelled(type), 0, "")
Joined(words) == FlattenSeq([i \in DOMAIN words |-> Spelled(words[i])])
get_external_ip(o) ==
    CASE o.type = "NodePort" /\ o.externalIps # <<>> -> Joined(o.externalIps)
      [] o.type = "LoadBalancer" /\ o.ingress \o o.externalIps # <<>> -> Joined(o.ingress \o o.externalIps)
      [] o.type = "ExternalName" -> Spelled(o.externalName)
      [] OTHER -> Spelled("<none>")
get_cluster_ip(o) == Spelled(IF o.clusterIp \in {"", "None"} THEN "<none>" ELSE o.clusterIp)
ServiceRow(o) ==
    Named(o) ++ [type |-> ServiceType(o.type)] ++ Fields(o, {"ports"})
    ++ Column("cluster-ip", Text(get_cluster_ip(o))) ++ Column("external-ip", Text(get_external_ip(o)))

\* The port of a backend that has a name is taken for 80.
IngressPorts(o) ==
    SetToSortSeq({IF p = Unset THEN 80 ELSE p : p \in o.ports} \cup (IF o.tls THEN {443} ELSE {}), <)
IngressRow(o) ==
    Named(o)
    ++ [class |-> Word(IF o.class = "" THEN o.annotation ELSE o.class),
        hosts |-> Text(Joined(SubSeq(o.hosts, 1, Min({4, Len(o.hosts)})))
                       \o (IF Len(o.hosts) > 4 THEN Digits(Len(o.hosts) - 4) ELSE <<>>)),
        address |-> Text(Joined(o.ingress)),
        ports |-> Text(FlattenSeq([i \in DOMAIN IngressPorts(o) |-> Digits(IngressPorts(o)[i])]))]

\* The worst of the metrics whose use and target are both percentages.
Strain(metric) ==
    CASE Unset \in {metric.current, metric.target} -> 0
      [] metric.current >= Max({metric.target, 1}) -> 2
      [] 5 * metric.current >= 4 * Max({metric.target, 1}) -> 1
      [] OTHER -> 0
summarize_metrics(o) ==
    LET names == SelectSeq(<<"cpu", "memory">>, LAMBDA n : n \in DOMAIN o.metrics)
                 \o SelectSeq(Words, LAMBDA n : n \in DOMAIN o.metrics \ {"cpu", "memory"})
        worst == Max({0} \cup {Strain(o.metrics[n]) : n \in DOMAIN o.metrics})
    IN  FieldValue(IF names = <<>> THEN Spelled("<none>") ELSE Joined(names), Unset,
                   CASE worst = 2 -> "error" [] worst = 1 -> "warning" [] worst = 0 -> "note")
HorizontalPodAutoscalerRow(o) ==
    Named(o) ++ [targets |-> summarize_metrics(o)] ++ Fields(o, {"reference", "minpods", "maxpods", "replicas"})

\* Seen last when its series was, or it happened, or it was repeated or made.
last_seen_field(o) ==
    LET times == SelectSeq(<<o.observed, o.happened, o.repeated, o.created>>, LAMBDA t : t # Unset)
    IN  IF times = <<>> THEN Text(<<>>) ELSE Count(times[1])
EventRow(o) ==
    Named(o) ++ Column("last seen", last_seen_field(o)) ++ Fields(o, {"reason", "message"})
    ++ [type |-> Status(Spelled(o.type)), count |-> Count(IF o.count = Unset THEN 1 ELSE o.count),
        object |-> Text(Spelled(o.kind) \o (IF o.involved = "" THEN <<>> ELSE Slash \o Spelled(o.involved)))]

\* The kind of the last subject.
SubjectKind(kind) == Word(IF kind = "ServiceAccount" THEN "SvcAcct" ELSE kind)
ClusterRoleBindingRow(o) ==
    Of(o) ++ Fields(o, {"role"})
    ++ [subjects |-> Text(Joined(o.subjects)),
        subject_kind |-> IF o.kinds = <<>> THEN Text(<<>>) ELSE SubjectKind(Last(o.kinds))]

get_versions(o) ==
    FieldValue(Joined(o.versions), Unset, IF o.deprecated THEN "error" ELSE "")
CustomResourceDefinitionRow(o) ==
    Of(o) ++ [versions |-> get_versions(o)] ++ Fields(o, {"group", "kind", "scope"})

ConfigMapRow(o) == Named(o) ++ [data |-> Count(o.data)]
SecretRow(o) == Named(o) ++ [data |-> Text(Digits(o.data))] ++ Fields(o, {"type"})
ServiceAccountRow(o) == Named(o) ++ [secret |-> Text(Digits(o.secrets))]
StorageClassRow(o) ==
    Of(o) ++ Fields(o, {"provisioner", "reclaimpolicy", "volumebindingmode", "allowvolumeexpansion"})
ClusterRoleRow(o) == Of(o)

\* Kinds without a processor of their own, drawn with the columns their
\* definition names; a column that repeats one is left out.
FallbackHeaders(o) ==
    LET first == IF o.namespaced THEN <<"namespace", "name">> ELSE <<"name">>
    IN  FoldSeq(LAMBDA c, headers : IF Contains(headers, c) THEN headers ELSE Append(headers, c), first, o.columns)
FallbackRow(o) ==
    LET extra == ToSet(FallbackHeaders(o)) \ {"namespace", "name"}
    IN  (IF o.namespaced THEN Named(o) ELSE Of(o)) ++ Fields(o, extra)

Row(kind, o) ==
    CASE kind = "Pod" -> PodRow(o)
      [] kind = "Container" -> ContainersRow(o)
      [] kind = "Deployment" -> DeploymentRow(o)
      [] kind = "StatefulSet" -> StatefulSetRow(o)
      [] kind = "DaemonSet" -> DaemonSetRow(o)
      [] kind = "ReplicaSet" -> ReplicaSetRow(o)
      [] kind = "Job" -> JobRow(o)
      [] kind = "CronJob" -> CronJobRow(o)
      [] kind = "Node" -> NodeRow(o)
      [] kind = "Namespace" -> NamespaceRow(o)
      [] kind = "PersistentVolume" -> PersistentVolumeRow(o)
      [] kind = "PersistentVolumeClaim" -> PersistentVolumeClaimRow(o)
      [] kind = "Service" -> ServiceRow(o)
      [] kind = "Ingress" -> IngressRow(o)
      [] kind = "HorizontalPodAutoscaler" -> HorizontalPodAutoscalerRow(o)
      [] kind = "Event" -> EventRow(o)
      [] kind = "ClusterRole" -> ClusterRoleRow(o)
      [] kind = "ClusterRoleBinding" -> ClusterRoleBindingRow(o)
      [] kind = "CustomResourceDefinition" -> CustomResourceDefinitionRow(o)
      [] kind = "ConfigMap" -> ConfigMapRow(o)
      [] kind = "Secret" -> SecretRow(o)
      [] kind = "ServiceAccount" -> ServiceAccountRow(o)
      [] kind = "StorageClass" -> StorageClassRow(o)
      [] kind = "Fallback" -> FallbackRow(o)
      [] OTHER -> <<>>

-----------------------------------------------------------------------------
(* Columns: how each kind is sorted - by the text of a column, by its      *)
(* number padded with zeros, by its number as it is - and what a filter    *)
(* looks at.                                                               *)
Columns(text, padded, plain, filter) == [text |-> text, padded |-> padded, plain |-> plain, filter |-> filter]

PodColumns == Columns({"namespace", "name", "ready", "status", "node"},
    {"restarts", "cpu", "mem", "%cpu/r", "%cpu/l", "%mem/r", "%mem/l"}, {"ip", "age"},
    {"namespace", "name", "ready", "status", "ip", "node"})
ContainerColumns == Columns({"namespace", "pod"}, {}, {}, {"namespace", "pod"})
DeploymentColumns == Columns({"namespace", "name", "up-to-date", "available"}, {"ready"}, {"age"},
    {"namespace", "name", "ready"})
StatefulSetColumns == Columns({"namespace", "name"}, {"ready"}, {"age"}, {"namespace", "name", "ready"})
DaemonSetColumns == Columns({"namespace", "name", "desired", "current", "up-to-date", "available", "node selector"},
    {"ready"}, {"age"}, {"namespace", "name"})
ReplicaSetColumns == LET seen == {"namespace", "name", "containers", "images", "selector"}
    IN  Columns(seen \cup {"desired", "current", "ready"}, {}, {"age"}, seen)
JobColumns == LET seen == {"namespace", "name", "containers", "images", "duration"}
    IN  Columns(seen \cup {"completions"}, {}, {"age"}, seen)
CronJobColumns == LET seen == {"namespace", "name", "schedule", "containers", "images", "selector"}
    IN  Columns(seen \cup {"suspend", "active", "last schedule"}, {}, {"age"}, seen)
NodeColumns == LET seen == {"name", "status", "roles", "version", "internal-ip", "external-ip"}
    IN  Columns(seen, {}, {"age"}, seen)
NamespaceColumns == Columns({"name", "status"}, {}, {"age"}, {"name", "status"})
PersistentVolumeColumns ==
    LET seen == {"name", "capacity", "access modes", "reclaim policy", "status", "claim", "storage class", "reason"}
    IN  Columns(seen, {}, {"age"}, seen)
PersistentVolumeClaimColumns ==
    LET seen == {"namespace", "name", "status", "volume", "capacity", "access modes", "storage class"}
    IN  Columns(seen, {}, {"age"}, seen)
ServiceColumns == LET seen == {"namespace", "name", "type", "cluster-ip", "external-ip", "ports"}
    IN  Columns(seen, {}, {"age"}, seen)
IngressColumns == Columns({"namespace", "name"}, {}, {"class", "hosts", "address", "ports", "age"},
    {"namespace", "name", "class", "hosts", "address", "ports"})
HorizontalPodAutoscalerColumns == Columns({"namespace", "name", "reference", "minpods", "maxpods", "replicas"}, {},
    {"targets", "age"}, {"namespace", "name", "reference", "targets"})
EventColumns == Columns({"namespace", "type", "reason", "object", "message", "name"}, {"count"}, {"last seen"},
    {"namespace", "last seen", "type", "reason", "object", "count", "message", "name"})
ClusterRoleColumns == Columns({"name"}, {}, {"age"}, {"name"})
ClusterRoleBindingColumns == LET seen == {"name", "role", "subject_kind", "subjects"} IN Columns(seen, {}, {"age"}, seen)
CustomResourceDefinitionColumns ==
    LET seen == {"name", "group", "kind", "versions", "scope"} IN Columns(seen, {}, {"age"}, seen)
\* The filter names a column that the rows do not have.
ConfigMapColumns == Columns({"namespace", "name"}, {"data"}, {"age"}, {"namespace", "name", "binary_data"})
SecretColumns == LET seen == {"namespace", "name", "type", "data"} IN Columns(seen, {}, {"age"}, seen)
ServiceAccountColumns == LET seen == {"namespace", "name", "secret"} IN Columns(seen, {}, {"age"}, seen)
StorageClassColumns ==
    LET seen == {"name", "provisioner", "reclaimpolicy", "volumebindingmode", "allowvolumeexpansion"}
    IN  Columns(seen, {}, {"age"}, seen)
\* The columns of a definition have no number to be sorted by.
FallbackColumns(rows) ==
    LET extra == UNION {DOMAIN rows[i] : i \in DOMAIN rows} \ {"namespace", "name"}
    IN  Columns({"namespace", "name"}, {}, extra, {"namespace", "name", "age"})
DefaultColumns == Columns({}, {}, {}, {})

ColumnsOf(kind, rows) ==
    CASE kind = "Pod" -> PodColumns
      [] kind = "Container" -> ContainerColumns
      [] kind = "Deployment" -> DeploymentColumns
      [] kind = "StatefulSet" -> StatefulSetColumns
      [] kind = "DaemonSet" -> DaemonSetColumns
      [] kind = "ReplicaSet" -> ReplicaSetColumns
      [] kind = "Job" -> JobColumns
      [] kind = "CronJob" -> CronJobColumns
      [] kind = "Node" -> NodeColumns
      [] kind = "Namespace" -> NamespaceColumns
      [] kind = "PersistentVolume" -> PersistentVolumeColumns
      [] kind = "PersistentVolumeClaim" -> PersistentVolumeClaimColumns
      [] kind = "Service" -> ServiceColumns
      [] kind = "Ingress" -> IngressColumns
      [] kind = "HorizontalPodAutoscaler" -> HorizontalPodAutoscalerColumns
      [] kind = "Event" -> EventColumns
      [] kind = "ClusterRole" -> ClusterRoleColumns
      [] kind = "ClusterRoleBinding" -> ClusterRoleBindingColumns
      [] kind = "CustomResourceDefinition" -> CustomResourceDefinitionColumns
      [] kind = "ConfigMap" -> ConfigMapColumns
      [] kind = "Secret" -> SecretColumns
      [] kind = "ServiceAccount" -> ServiceAccountColumns
      [] kind = "StorageClass" -> StorageClassColumns
      [] kind = "Fallback" -> FallbackColumns(rows)
      [] OTHER -> DefaultColumns

-----------------------------------------------------------------------------
(* The table.                                                              *)
\* A field's sort key; the empty one, below all others, for a field without.
SortKey(columns, row, field) ==
    CASE field \in columns.text \cap DOMAIN row -> row[field].value
      [] field \in columns.padded /\ row[field].sort_by # Unset -> pad_key(row[field].sort_by)
      [] field \in columns.plain /\ row[field].sort_by # Unset -> Digits(row[field].sort_by)
      [] OTHER -> <<>>

Below(a, b) ==
    \E n \in 0..Len(a) : /\ n < Len(b)
                         /\ SubSeq(a, 1, n) = SubSeq(b, 1, n)
                         /\ n = Len(a) \/ a[n + 1] < b[n + 1]

\* The members of a finite set as a sequence, each behind those before it.
InOrder(S, before) ==
    [k \in 1..Cardinality(S) |-> CHOOSE i \in S : Cardinality({j \in S : <<j, i>> \in before}) = k - 1]

\* What a sequence has at some of its places.
Selected(s, places) ==
    LET order == InOrder(places, {p \in places \X places : p[1] < p[2]})
    IN  [k \in DOMAIN order |-> s[order[k]]]

\* By namespace, then by name, which always ascends; rows of equal keys stay
\* in the order they came in.
RowOrder(columns, rows, by, descending) ==
    LET Key(i, field) == SortKey(columns, rows[i], field)
        Less(i, j) == IF descending THEN Below(Key(j, by), Key(i, by)) ELSE Below(Key(i, by), Key(j, by))
        Before(i, j) ==
            \/ Less(i, j)
            \/ /\ Key(i, by) = Key(j, by)
               /\ IF by = "namespace" /\ Key(i, "name") # Key(j, "name")
                  THEN Below(Key(i, "name"), Key(j, "name"))
                  ELSE i < j
    IN  {p \in (DOMAIN rows) \X (DOMAIN rows) : Before(p[1], p[2])}

sort_dynamic(columns, rows, by, descending) ==
    LET order == InOrder(DOMAIN rows, RowOrder(columns, rows, by, descending))
    IN  [k \in DOMAIN order |-> rows[order[k]]]

\* A pattern is found in a row that has its text in one of the columns.
Found(columns, row, pattern) ==
    \E field \in columns.filter \cap (columns.text \cup columns.padded \cup columns.plain) \cap DOMAIN row :
        \E i \in 1..(Len(row[field].value) - Len(pattern.text) + 1) :
            SubSeq(row[field].value, i, i + Len(pattern.text) - 1) = pattern.text

\* A row is kept that has all patterns, and none of those with a "!".
filter_dynamic(columns, rows, patterns) ==
    Selected(rows, {i \in DOMAIN rows : \A pattern \in patterns : Found(columns, rows[i], pattern) # pattern.negative})

\* Filters by label and by path of the object; those that are not of the form
\* key=value ask for nothing.
labels_match(o, wanted) == \A w \in {w \in wanted : Len(w) = 2} : w \in o.labels
key_filters_match(o, wanted) == \A w \in {w \in wanted : Len(w) = 2} : w \in o.paths

Matches(o, params) == labels_match(o, params.filter_label) /\ key_filters_match(o, params.filter_key)

process(kind, built, params) ==
    LET columns == ColumnsOf(kind, built)
        by == IF params.sort_by = "" THEN "namespace" ELSE params.sort_by
    IN  filter_dynamic(columns, sort_dynamic(columns, built, by, params.sort_order = "desc"), params.filter)
=============================================================================
