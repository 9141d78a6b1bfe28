------------------------------- MODULE Lineage -------------------------------
(***************************************************************************)
(* The lineage graph of kubectl-client/src/lineage: which object owns      *)
(* which, which object refers to which, what is related to an object, what *)
(* a deletion would affect, and which objects are orphans.  Pure           *)
(* operators, from a set of objects to a tree and from a tree to answers;  *)
(* LineageView runs them.                                                  *)
(*                                                                         *)
(* An object stands for its JSON: its references are records that name the *)
(* field they come from, so that a handler reads the fields it knows and   *)
(* no others.  Names stand for their lower-case forms.                     *)
(***************************************************************************)
EXTENDS Naturals, Sequences

CONSTANTS
    Names,        \* names of objects and of namespaces
    Kinds,        \* kinds of the cluster; kinds with a handler have their own names
    NoNs,         \* the namespace of what has none
    NoSelector,   \* no spec.selector
    SystemNames   \* <<kind, namespace, name>> that the exception patterns match

ASSUME LineageAssumption ==
    /\ NoNs \notin Names
    /\ "cluster" \notin Kinds

-----------------------------------------------------------------------------
(* Handlers: the fields a handler reads, the kinds it takes from them, and *)
(* the namespace it looks in: the object's own, the one the reference      *)
(* gives, or none.                                                         *)
Read(fields, kinds, ns) == [field : fields, kinds : {kinds}, ns : {ns}]

EnvFields ==
    Read({"env.configMapKeyRef", "envFrom.configMapRef"}, {"ConfigMap"}, "own")
    \cup Read({"env.secretKeyRef", "envFrom.secretRef"}, {"Secret"}, "own")

VolumeFields ==
    Read({"volumes.configMap", "volumes.projected.configMap"}, {"ConfigMap"}, "own")
    \cup Read({"volumes.secret", "volumes.csi.secret", "volumes.projected.secret"}, {"Secret"}, "own")
    \cup Read({"volumes.persistentVolumeClaim"}, {"PersistentVolumeClaim"}, "own")
    \cup Read({"volumes.csi"}, {"CSIDriver"}, "none")

PodSpecFields ==
    Read({"serviceAccountName"}, {"ServiceAccount"}, "own")
    \cup Read({"imagePullSecrets"}, {"Secret"}, "own")
    \cup VolumeFields \cup EnvFields

\* Deployments and ReplicaSets; DaemonSets, Jobs and CronJobs: their templates.
ControllerFields == PodSpecFields
JobFields == PodSpecFields

PodFields ==
    Read({"nodeName"}, {"Node"}, "none")
    \cup Read({"priorityClassName"}, {"PriorityClass"}, "none")
    \cup Read({"runtimeClassName"}, {"RuntimeClass"}, "none")
    \cup PodSpecFields

\* The claims of a StatefulSet are looked for under the names of their templates.
StatefulSetFields ==
    Read({"volumeClaimTemplates"}, {"PersistentVolumeClaim"}, "own")
    \cup Read({"serviceName"}, {"Service"}, "own")
    \cup PodSpecFields

IngressFields ==
    Read({"ingressClassName"}, {"IngressClass"}, "none")
    \cup Read({"backend.service"}, {"Service"}, "own")
    \cup Read({"backend.resource"}, Kinds, "own")
    \cup Read({"tls"}, {"Secret"}, "own")

IngressClassFields == Read({"parameters"}, Kinds, "given")

VolumeClaimFields ==
    Read({"volumeName"}, {"PersistentVolume"}, "none")
    \cup Read({"storageClassName"}, {"StorageClass"}, "none")

VolumeOfClusterFields ==
    Read({"claimRef"}, Kinds, "given") \cup Read({"storageClassName"}, {"StorageClass"}, "none")

ServiceAccountFields == Read({"secrets", "imagePullSecrets"}, {"Secret"}, "own")

RoleBindingFields ==
    Read({"roleRef"}, {"Role"}, "own")
    \cup Read({"roleRef"}, Kinds \ {"Role"}, "none")
    \cup Read({"subjects"}, {"ServiceAccount"}, "given")

ClusterRoleBindingFields ==
    Read({"roleRef"}, {"ClusterRole"}, "none")
    \cup Read({"subjects"}, {"ServiceAccount"}, "given")

WebhookFields == Read({"clientConfig.service"}, {"Service"}, "given")

ApiServiceFields == Read({"service"}, {"Service"}, "given")

AutoscalerFields == Read({"scaleTargetRef"}, Kinds, "own")

EventFields == Read({"involvedObject", "related"}, Kinds, "given")

Handler(kind) ==
    CASE kind = "Pod" -> PodFields
      [] kind \in {"Deployment", "ReplicaSet"} -> ControllerFields
      [] kind \in {"DaemonSet", "Job", "CronJob"} -> JobFields
      [] kind = "StatefulSet" -> StatefulSetFields
      [] kind = "Ingress" -> IngressFields
      [] kind = "IngressClass" -> IngressClassFields
      [] kind = "PersistentVolumeClaim" -> VolumeClaimFields
      [] kind = "PersistentVolume" -> VolumeOfClusterFields
      [] kind = "ServiceAccount" -> ServiceAccountFields
      [] kind = "RoleBinding" -> RoleBindingFields
      [] kind = "ClusterRoleBinding" -> ClusterRoleBindingFields
      [] kind \in {"ValidatingWebhookConfiguration", "MutatingWebhookConfiguration"} -> WebhookFields
      [] kind = "APIService" -> ApiServiceFields
      [] kind = "HorizontalPodAutoscaler" -> AutoscalerFields
      [] kind = "Event" -> EventFields
      [] OTHER -> {}

-----------------------------------------------------------------------------
(* Objects and their keys.                                                 *)
Key(o) == <<o.kind, o.ns, o.name>>
Root == <<"cluster", NoNs, "root">>

\* Only the first owner counts; an owner without a namespace is looked for in
\* the object's own, cluster-scoped owners included.
OwnerKey(o) ==
    LET owner == o.owners[1]
    IN  <<owner.kind, IF owner.ns = NoNs THEN o.ns ELSE owner.ns, owner.name>>

\* What the handler of an object finds in it; nothing in an object that is not
\* of the form the handler knows.
Relations(o) ==
    LET reads == {p \in o.refs \X Handler(o.kind) :
                    o.typed /\ p[2].field = p[1].field /\ p[1].kind \in p[2].kinds}
        Target(r, ns) == <<r.kind, IF ns = "own" THEN o.ns ELSE IF ns = "given" THEN r.ns ELSE NoNs, r.name>>
    IN  {Target(p[1], p[2].ns) : p \in reads}

\* Selectors know no namespaces, and an empty one selects all that has labels.
Selects(o, other) ==
    /\ o.selector # NoSelector
    /\ Key(other) # Key(o)
    /\ other.labels # {}
    /\ other.kind \notin {"ConfigMap", "Secret"}
    /\ o.selector \subseteq other.labels

-----------------------------------------------------------------------------
(* The tree.  "add_node" keeps the first object of a key.                  *)
Added(resources) ==
    {resources[i] : i \in {i \in DOMAIN resources :
        \A j \in 1..(i - 1) : Key(resources[j]) # Key(resources[i])}}

Keys(objects) == {Key(o) : o \in objects}
ParentKey(objects, o) ==
    IF o.owners # <<>> /\ OwnerKey(o) \in Keys(objects) THEN OwnerKey(o) ELSE Root

(* Mutant: no edge from the object to what it refers to. *)
BackEdges(objects) ==
    {<<f[2], Key(f[1])>> : f \in {f \in objects \X Keys(objects) : f[2] \in Relations(f[1])}}

\* An edge each way for every relation whose target is there.
RelationEdges(objects) ==
    LET found == {f \in objects \X Keys(objects) : f[2] \in Relations(f[1])}
    IN  {<<Key(f[1]), f[2]>> : f \in found} \cup {<<f[2], Key(f[1])>> : f \in found}

SelectorEdges(objects) ==
    LET found == {f \in objects \X objects : Selects(f[1], f[2])}
    IN  {<<Key(f[1]), Key(f[2])>> : f \in found} \cup {<<Key(f[2]), Key(f[1])>> : f \in found}

\* The kinds of the relations whose target is not there.
MissingKinds(objects, o) == {k[1] : k \in Relations(o) \ Keys(objects)}

LinkNodes(objects) ==
    [objects |-> objects,
     nodes |-> Keys(objects) \cup {Root},
     owns |-> {<<ParentKey(objects, o), Key(o)>> : o \in objects},
     refs |-> RelationEdges(objects) \cup SelectorEdges(objects)]

BuildTree(resources) == LinkNodes(Added(resources))

-----------------------------------------------------------------------------
(* Queries.  Each adds nodes to a set of nodes and leaves the root out.    *)
Parents(tree, keys) == {e[1] : e \in {e \in tree.owns : e[2] \in keys}}
Children(tree, keys) == {e[2] : e \in {e \in tree.owns : e[1] \in keys}}

Ancestors(tree, keys) ==
    LET up[some \in SUBSET tree.nodes] ==
            IF Parents(tree, some) \subseteq some THEN some ELSE up[some \cup Parents(tree, some)]
    IN  up[keys] \ {Root}

Descendants(tree, keys) ==
    LET down[some \in SUBSET tree.nodes] ==
            IF Children(tree, some) \subseteq some THEN some ELSE down[some \cup Children(tree, some)]
    IN  down[keys] \ {Root}

WithReferences(tree, keys) ==
    keys \cup {e[2] : e \in {e \in tree.refs : e[1] \in keys}}

(* Mutant: the descendants first, then the ancestors. *)
RelatedDownUp(tree, key) ==
    WithReferences(tree, Ancestors(tree, Descendants(tree, {key})))

RelatedItems(tree, key) ==
    WithReferences(tree, Descendants(tree, Ancestors(tree, {key})))

(* Mutant: what refers to an object and no more. *)
DirectImpact(tree, key) == {e[1] : e \in {e \in tree.refs : e[2] = key}}

\* What refers to an object, and what those own.
ComputeImpact(tree, key) ==
    LET direct == {e[1] : e \in {e \in tree.refs : e[2] = key}}
    IN  direct \cup Descendants(tree, direct)

\* The subgraph that is exported: the related nodes and every edge between them.
ExtractSubgraph(tree, key) ==
    LET nodes == RelatedItems(tree, key)
    IN  [nodes |-> nodes, edges |-> (tree.owns \cup tree.refs) \cap (nodes \X nodes)]

-----------------------------------------------------------------------------
(* Orphans.                                                                *)
\* Kinds with names that belong to the system: names alone, names of a
\* namespace too, and those of is_exception_role_binding.
NamedExceptions == {"ClusterRole", "ClusterRoleBinding"}
NamespacedExceptions == {"ConfigMap", "Secret", "ServiceAccount", "Service"}
RoleBindingExceptions == {"RoleBinding"}

Excepted(o) ==
    /\ o.kind \in NamedExceptions \cup NamespacedExceptions \cup RoleBindingExceptions
    /\ Key(o) \in SystemNames

\* The kinds whose reference keeps an object of a kind from being an orphan.
Consumers(kind) ==
    CASE kind = "Service" ->
            {"Pod", "Ingress", "ValidatingWebhookConfiguration", "MutatingWebhookConfiguration", "APIService"}
      [] kind = "ServiceAccount" ->
            {"Pod", "Deployment", "StatefulSet", "DaemonSet", "Job", "CronJob", "ReplicaSet",
             "RoleBinding", "ClusterRoleBinding"}
      [] kind = "PersistentVolumeClaim" -> {"Pod", "StatefulSet"}
      [] kind = "PersistentVolume" -> {"PersistentVolumeClaim"}
      [] kind = "StorageClass" -> {"PersistentVolumeClaim", "PersistentVolume"}
      [] kind = "ClusterRole" -> {"RoleBinding", "ClusterRoleBinding"}
      [] kind = "Role" -> {"RoleBinding"}
      [] kind = "ClusterRoleBinding" -> {"ClusterRole"}
      [] kind = "RoleBinding" -> {"Role", "ClusterRole"}
      [] kind = "HorizontalPodAutoscaler" -> {"Deployment", "StatefulSet", "ReplicaSet"}
      [] kind \in {"NetworkPolicy", "PodDisruptionBudget", "ReplicaSet"} -> {"Pod"}
      [] kind = "IngressClass" -> {"Ingress"}
      [] kind = "Ingress" -> {"Service"}
      [] OTHER -> {}

NoIncomingFrom(tree, o, kinds) == ~\E e \in tree.refs : e[2] = Key(o) /\ e[1][1] \in kinds

\* For ConfigMaps and Secrets, whatever refers to them.
NoIncomingRefs(tree, o) == ~\E e \in tree.refs : e[2] = Key(o)

OrphanCondition(tree, o) ==
    CASE o.kind = "ConfigMap" -> NoIncomingRefs(tree, o)
      [] o.kind = "Secret" -> ~o.token /\ NoIncomingRefs(tree, o)
      [] o.kind \in {"ClusterRoleBinding", "RoleBinding"} ->
            \/ NoIncomingFrom(tree, o, Consumers(o.kind))
            \/ "ServiceAccount" \in MissingKinds(tree.objects, o)
      [] o.kind = "ReplicaSet" ->
            <<Root, Key(o)>> \in tree.owns /\ NoIncomingFrom(tree, o, Consumers(o.kind))
      [] Consumers(o.kind) # {} -> NoIncomingFrom(tree, o, Consumers(o.kind))
      [] OTHER -> FALSE

IsOrphan(tree, o) == ~Excepted(o) /\ OrphanCondition(tree, o)

-----------------------------------------------------------------------------
(* What is handed to the view: for each object its children, what it       *)
(* refers to, its parent, and whether it is an orphan.                     *)
SerializedNode(tree, o) ==
    [key |-> Key(o),
     children_keys |-> Children(tree, {Key(o)}),
     leaf_keys |-> {e[2] : e \in {e \in tree.refs : e[1] = Key(o)}},
     parent_key |-> Parents(tree, {Key(o)}),
     is_orphan |-> IsOrphan(tree, o)]

SerializedNodes(resources) ==
    LET tree == BuildTree(resources) IN {SerializedNode(tree, o) : o \in tree.objects}
=============================================================================
