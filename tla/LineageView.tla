----------------------------- MODULE LineageView -----------------------------
(***************************************************************************)
(* The lineage view, lua/kubectl/views/lineage/init.lua and graph.lua: the *)
(* objects of every kind are fetched, one call a kind, the answers are     *)
(* kept with the API resources, a worker builds the graph of all that is   *)
(* kept, stores it under the name of the cluster (builder.rs) and hands it *)
(* to the view.  Opening another resource, closing the view and a refresh  *)
(* come in between, so that loads and builds overlap.                      *)
(*                                                                         *)
(* One cluster, whose objects change under way.  Graph and stored tree are *)
(* kept as the objects they were built from; Lineage.tla says what they    *)
(* hold.  The text on the screen follows from phase and graph.             *)
(***************************************************************************)
EXTENDS Lineage, SequencesExt, FiniteSetsExt

CONSTANTS
    Worlds,        \* sets of objects the cluster may have
    Resources,     \* keys the view may be opened for
    NoTree,        \* no graph, no stored tree, no selection
    MaxLoads,      \* bound: loads
    MaxChanges     \* bound: changes of the cluster

ASSUME LineageViewAssumption ==
    /\ \A world \in Worlds : IsFiniteSet(world) /\ \A o \in world : o.kind \in Kinds
    /\ MaxLoads \in Nat
    /\ MaxChanges \in Nat
    /\ NoTree \notin Nat

VARIABLES
    live,       \* the objects of the cluster
    changes,    \* how often they have changed
    data,       \* what has been fetched, in the order it was kept
    populated,  \* M._cache.populated
    phase,      \* what the view is about
    open,       \* its buffer is there
    selection,  \* the resource it is opened for
    graph,      \* what it shows: a build, or nothing
    tree,       \* LINEAGE_TREES[cluster]: a build, or nothing
    loads,      \* calls of load_and_build
    builds      \* calls of build_lineage_graph_worker

lineageVars == <<live, changes, data, populated, phase, open, selection, graph, tree, loads, builds>>

FetchedKinds == {o.kind : o \in UNION Worlds}

LineageViewInit ==
    /\ live \in Worlds
    /\ changes = 0
    /\ data = <<>>
    /\ populated = FALSE
    /\ phase = "idle"
    /\ open = FALSE
    /\ selection = NoTree
    /\ graph = NoTree
    /\ tree = NoTree
    /\ loads = <<>>
    /\ builds = <<>>

Change ==
    /\ changes < MaxChanges
    /\ \E world \in Worlds \ {live} : live' = world
    /\ changes' = changes + 1
    /\ UNCHANGED <<data, populated, phase, open, selection, graph, tree, loads, builds>>

-----------------------------------------------------------------------------
(* begin_loading, load_and_build: one call of get_all_async for every kind,*)
(* or none when there is a cache and no refresh is asked for.              *)
BeginLoading(force) ==
    /\ Len(loads) < MaxLoads
    /\ phase' = "loading"
    /\ LET cached == ~force /\ populated
       IN  loads' = Append(loads, [force |-> force,
                                   todo |-> IF cached THEN {} ELSE FetchedKinds,
                                   got |-> {},
                                   stage |-> IF cached THEN "scheduled" ELSE "fetching",
                                   since |-> changes,
                                   whole |-> TRUE])

\* The key of a resource; another one forgets the graph, and a load begins
\* unless there is a graph or one is under way.
View(key) ==
    LET other == selection # key
        idle == IF other THEN TRUE ELSE phase = "idle" /\ graph = NoTree
    IN  /\ selection' = key
        /\ open' = TRUE
        /\ graph' = IF other THEN NoTree ELSE graph
        /\ IF idle THEN BeginLoading(FALSE) ELSE UNCHANGED <<phase, loads>>
        /\ UNCHANGED <<live, changes, data, populated, tree, builds>>

Refresh ==
    /\ open
    /\ phase \notin {"loading", "building"}
    /\ graph' = NoTree
    /\ BeginLoading(TRUE)
    /\ UNCHANGED <<live, changes, data, populated, open, selection, tree, builds>>

\* The buffer is wiped when its window is closed; what is under way goes on.
Wipe ==
    /\ open
    /\ open' = FALSE
    /\ phase' = "idle"
    /\ UNCHANGED <<live, changes, data, populated, selection, graph, tree, loads, builds>>

-----------------------------------------------------------------------------
(* await_all: an answer, or an error, for each kind.                       *)
Fetched(l, kind) ==
    /\ kind \in loads[l].todo
    /\ \E answered \in BOOLEAN :
        loads' = [loads EXCEPT ![l].todo = @ \ {kind},
                               ![l].got = @ \cup {o \in live : answered /\ o.kind = kind},
                               ![l].whole = @ /\ answered]
    /\ UNCHANGED <<live, changes, data, populated, phase, open, selection, graph, tree, builds>>

InSomeOrder(objects) == FoldSet(LAMBDA o, rows : Append(rows, o), <<>>, objects)

\* The last answer: processRow puts every object after what was kept before.
AllFetched(l) ==
    /\ loads[l].stage = "fetching"
    /\ loads[l].todo = {}
    /\ data' = data \o InSomeOrder(loads[l].got)
    /\ populated' = TRUE
    /\ loads' = [loads EXCEPT ![l].stage = "scheduled"]
    /\ UNCHANGED <<live, changes, phase, open, selection, graph, tree, builds>>

\* on_building, then the call of the worker with a copy of all that is kept.
Building(l) ==
    /\ loads[l].stage = "scheduled"
    /\ loads' = [loads EXCEPT ![l].stage = "done"]
    /\ phase' = "building"
    /\ graph' = NoTree
    /\ builds' = Append(builds, [of |-> data, load |-> l, stage |-> "working"])
    /\ UNCHANGED <<live, changes, data, populated, open, selection, tree>>

-----------------------------------------------------------------------------
(* build_lineage_graph_worker, in a thread of libuv.  An empty Lua table is*)
(* no list for it: it fails before there is a tree.                        *)
Store(b) ==
    /\ builds[b].stage = "working"
    /\ IF builds[b].of = <<>>
       THEN builds' = [builds EXCEPT ![b].stage = "failed"] /\ tree' = tree
       ELSE builds' = [builds EXCEPT ![b].stage = "stored"] /\ tree' = b
    /\ UNCHANGED <<live, changes, data, populated, phase, open, selection, graph, loads>>

(* Mutant: after an error the phase stays as it is. *)
OnGraphIfAny(b) ==
    /\ builds[b].stage \in {"stored", "failed"}
    /\ builds' = [builds EXCEPT ![b].stage = "done"]
    /\ graph' = IF builds[b].stage = "stored" THEN b ELSE NoTree
    /\ phase' = IF builds[b].stage = "stored" THEN "ready" ELSE phase
    /\ UNCHANGED <<live, changes, data, populated, open, selection, tree, loads>>

OnGraphResult(b) ==
    /\ builds[b].stage \in {"stored", "failed"}
    /\ builds' = [builds EXCEPT ![b].stage = "done"]
    /\ graph' = IF builds[b].stage = "stored" THEN b ELSE NoTree
    /\ phase' = IF builds[b].stage = "stored" THEN "ready" ELSE "error"
    /\ UNCHANGED <<live, changes, data, populated, open, selection, tree, loads>>

LoadStep == \E l \in DOMAIN loads : AllFetched(l) \/ Building(l) \/ \E kind \in FetchedKinds : Fetched(l, kind)
BuildStep == \E b \in DOMAIN builds : Store(b) \/ OnGraphResult(b)

LineageViewNext ==
    \/ Change
    \/ \E key \in Resources : View(key)
    \/ Refresh
    \/ Wipe
    \/ LoadStep
    \/ BuildStep

\* Every call comes to an end, and its callback is run.
LineageViewFairness == WF_lineageVars(LoadStep) /\ WF_lineageVars(BuildStep)

LineageViewSpec == LineageViewInit /\ [][LineageViewNext]_lineageVars /\ LineageViewFairness

-----------------------------------------------------------------------------
(* Properties.                                                             *)

(* In the stored tree, whatever order the objects came in: every object is *)
(* below the root, one whose owner is gone, unknown or cluster-scoped      *)
(* included; all objects of one owner's tree have the same related         *)
(* objects, so that what is marked in the view and what is exported does   *)
(* not depend on where in it the view was opened; and nothing stands alone *)
(* in an export but the object asked for (tree.rs, query.rs).              *)
RelatedIsWholeTree ==
    \A b \in DOMAIN builds : builds[b].stage = "stored" =>
        LET t == BuildTree(builds[b].of)
            keys == t.nodes \ {Root}
            found == {[top |-> Ancestors(t, {key}) \cap Children(t, {Root}), related |-> RelatedItems(t, key)] :
                        key \in keys}
        IN  /\ Descendants(t, {Root}) = keys
            /\ \A f, g \in found : f.top = g.top => f.related = g.related
            /\ \A key \in keys :
                  LET sub == ExtractSubgraph(t, key)
                  IN  \A node \in sub.nodes \ {key} : \E e \in sub.edges : node \in {e[1], e[2]}

(* What a Pod of the tree runs with - ConfigMaps, Secrets, claims, its     *)
(* service account - is no orphan, whatever else is there or missing       *)
(* (registry.rs, resource_behavior.rs, orphan_rules.rs): an orphan is what *)
(* a user deletes.                                                         *)
UsedIsNoOrphan ==
    \A b \in DOMAIN builds : builds[b].stage = "stored" =>
        LET orphans == {node \in SerializedNodes(builds[b].of) : node.is_orphan}
        IN  \A o \in Added(builds[b].of) : o.kind = "Pod" =>
                \A node \in orphans :
                    node.key[1] \in {"ConfigMap", "Secret", "PersistentVolumeClaim", "ServiceAccount"}
                        => node.key \notin Relations(o)

(* The impact of an object takes in whatever refers to it, and with each   *)
(* of these all it owns, at any depth (tree.rs, compute_impact).           *)
ImpactCoversDependents ==
    \A b \in DOMAIN builds : builds[b].stage = "stored" =>
        LET t == BuildTree(builds[b].of)
        IN  \A o \in t.objects : \A key \in Relations(o) \cap t.nodes :
                LET impact == ComputeImpact(t, key)
                IN  /\ Key(o) \in impact
                    /\ \A e \in t.owns : e[1] \in impact => e[2] \in impact

(* A view that says it is loading or building comes to show a graph, an    *)
(* error or nothing, however loads, builds, closing and opening of other   *)
(* resources overlap and whichever calls fail (init.lua, graph.lua).       *)
LoadEnds == phase \in {"loading", "building"} ~> phase \notin {"loading", "building"}

(* After a refresh whose calls were all answered, with no change since it  *)
(* began, the graph shows the objects of the cluster as they are           *)
(* (graph.lua, load_and_build with force_refresh).                         *)
RefreshShowsLive ==
    graph # NoTree =>
        LET load == loads[builds[graph].load]
        IN  load.force /\ load.whole /\ load.since = changes
                => Added(builds[graph].of) = live
=============================================================================
