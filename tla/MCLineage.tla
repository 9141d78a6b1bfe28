------------------------------ MODULE MCLineage ------------------------------
(* The lineage view on small instances.  In "shapes" the cluster is any    *)
(* part of an application with its configuration, storage and rights, and  *)
(* all of it has been fetched before; in "reload" two versions of a Pod    *)
(* and a ConfigMap come and go while loads overlap.                        *)
EXTENDS LineageView

Plain(kind, ns, name) ==
    [kind |-> kind, ns |-> ns, name |-> name, owners |-> <<>>, labels |-> {},
     selector |-> NoSelector, refs |-> {}, token |-> FALSE, typed |-> TRUE]
Ref(field, kind, ns, name) == [field |-> field, kind |-> kind, ns |-> ns, name |-> name]
OwnedBy(kind, name) == <<[kind |-> kind, ns |-> NoNs, name |-> name]>>

MCNames == {"app", "pod", "odd", "static", "node", "conf", "key", "runs", "role", "web", "disk", "shop", "sys"}
MCKinds == {"Deployment", "ReplicaSet", "Pod", "Node", "Service", "ConfigMap", "Secret", "Role",
            "RoleBinding", "ServiceAccount", "PersistentVolumeClaim", "PersistentVolume"}
MCSystem == {<<"ConfigMap", "shop", "sys">>}

Deployed == [Plain("Deployment", "shop", "app") EXCEPT !.labels = {"app"}, !.selector = {"app"},
    !.refs = {Ref("volumes.persistentVolumeClaim", "PersistentVolumeClaim", NoNs, "disk")}]
Replicas == [Plain("ReplicaSet", "shop", "app") EXCEPT !.labels = {"app"}, !.selector = {"app"},
    !.owners = OwnedBy("Deployment", "app")]
Running == [Plain("Pod", "shop", "pod") EXCEPT !.labels = {"app"}, !.owners = OwnedBy("ReplicaSet", "app"),
    !.refs = {Ref("envFrom.configMapRef", "ConfigMap", NoNs, "conf"),
              Ref("volumes.persistentVolumeClaim", "PersistentVolumeClaim", NoNs, "disk"),
              Ref("serviceAccountName", "ServiceAccount", NoNs, "runs"),
              Ref("nodeName", "Node", NoNs, "node")}]
Static == [Plain("Pod", "shop", "static") EXCEPT !.owners = OwnedBy("Node", "node"),
    !.refs = {Ref("volumes.secret", "Secret", NoNs, "key"), Ref("volumes.configMap", "ConfigMap", NoNs, "sys")}]
Account == [Plain("ServiceAccount", "shop", "runs") EXCEPT !.refs = {Ref("secrets", "Secret", NoNs, "key")}]
Binding == [Plain("RoleBinding", "shop", "role") EXCEPT
    !.refs = {Ref("roleRef", "Role", NoNs, "role"), Ref("subjects", "ServiceAccount", "shop", "runs")}]
Claim == [Plain("PersistentVolumeClaim", "shop", "disk") EXCEPT
    !.refs = {Ref("volumeName", "PersistentVolume", NoNs, "disk")}]
Volume == [Plain("PersistentVolume", NoNs, "disk") EXCEPT
    !.refs = {Ref("claimRef", "PersistentVolumeClaim", "shop", "disk")}]

Odd == [Plain("Pod", "shop", "odd") EXCEPT !.typed = FALSE, !.owners = OwnedBy("ReplicaSet", "app"),
    !.refs = {Ref("volumes.configMap", "ConfigMap", NoNs, "conf")}]

Application == {Deployed, Replicas, Running, Static, Account, Binding, Claim, Volume,
    Plain("ConfigMap", "shop", "conf"), [Plain("Secret", "shop", "key") EXCEPT !.labels = {"app"}]}
Around == {Plain("Node", NoNs, "node"), Odd, Plain("Role", "shop", "role"),
    [Plain("Service", "shop", "web") EXCEPT !.selector = {"app"}], Plain("ConfigMap", "shop", "sys")}

Bare == [Plain("Pod", "shop", "pod") EXCEPT !.refs = {}]
Mounting == [Bare EXCEPT !.refs = {Ref("volumes.configMap", "ConfigMap", NoNs, "conf")}]
Config == Plain("ConfigMap", "shop", "conf")

MCWorlds == {{}, {Bare}, {Mounting, Config}}
MCResources == {<<"Pod", "shop", "pod">>, <<"ConfigMap", "shop", "conf">>}

\* All of the cluster has been fetched for a view that is closed by now; the
\* load that is left (MaxLoads) finds it in the cache.
Shapes ==
    /\ live \in {part \cup Around : part \in SUBSET Application}
    /\ changes = MaxChanges
    /\ data = InSomeOrder(live)
    /\ populated = TRUE
    /\ loads = [l \in 1..(MaxLoads - 1) |->
                  [force |-> FALSE, todo |-> {}, got |-> live, stage |-> "done", since |-> 0, whole |-> TRUE]]
    /\ phase = "idle" /\ open = FALSE
    /\ selection = NoTree /\ graph = NoTree /\ tree = NoTree /\ builds = <<>>

MCSpec ==
    /\ LineageViewInit \/ Shapes
    /\ [][LineageViewNext]_lineageVars
    /\ LineageViewFairness
=============================================================================
