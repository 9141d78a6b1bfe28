----------------------------- MODULE Collectors -----------------------------
(***************************************************************************)
(* The metrics collectors of kubectl-client/src/metrics/{pods,nodes}.rs,   *)
(* the dirty flag between them and the dashboards (metrics/mod.rs), and the *)
(* dashboards of ui/session.rs.                                            *)
(*                                                                         *)
(* The pod and the node collector have one life cycle, and their two dirty *)
(* flags are taken together: one collector with one flag stands for both.  *)
(* A poll task suspends only while it waits for a tick or for the metrics  *)
(* API; abort() takes effect there and nowhere else, so once the list has  *)
(* arrived the task writes its statistics and raises the flag whatever     *)
(* the main thread does meanwhile.                                         *)
(***************************************************************************)
EXTENDS Naturals, FiniteSets

CONSTANTS
    Contexts,    \* the clusters that can be switched to
    None,        \* no task, no statistics
    Polls,       \* the poll tasks ever spawned
    Dashboards,  \* the dashboard sessions ("top", "overview")
    Samples      \* what a cluster's usage can be

ASSUME NoneIsNot == None \notin Contexts \cup Polls \cup Samples

VARIABLES
    slot,     \* the COLLECTOR slot: the task that owns it
    clearing, \* init_runtime has stopped the collectors, and holds the main thread
    poll,     \* the poll tasks
    usage,    \* each cluster's present usage, what its metrics API answers
    stats,    \* POD_STATS / NODE_STATS
    dirty,    \* POD_STATS_DIRTY or NODE_STATS_DIRTY
    dash      \* the dashboards: phase and what each one last drew

collectorVars == <<slot, clearing, poll, usage, stats, dirty, dash>>

Stat == [ctx : Contexts, sample : Samples]

PollRecord == [phase : {"free", "stopped"}] \cup
    [phase : {"running", "stopping"}, ctx : Contexts,
     at : {"waiting", "listed", "written"}, sample : Samples \cup {None}]

CollectorTypeOK ==
    /\ slot \in Polls \cup {None}
    /\ clearing \in BOOLEAN
    /\ poll \in [Polls -> PollRecord]
    /\ usage \in [Contexts -> Samples]
    /\ stats \in Stat \cup {None}
    /\ dirty \in BOOLEAN
    /\ dash \in [Dashboards -> [phase : {"closed", "open", "drawing"},
                                shown : Stat \cup {None}]]

CollectorInit ==
    /\ slot = None
    /\ clearing = FALSE
    /\ poll = [p \in Polls |-> [phase |-> "free"]]
    /\ usage \in [Contexts -> Samples]
    /\ stats = None
    /\ dirty = TRUE
    /\ dash = [d \in Dashboards |-> [phase |-> "closed", shown |-> None]]

-----------------------------------------------------------------------------
(* The main thread: init_runtime and init_metrics.                         *)

(* Mutant: the slot is emptied, the task is not told. *)
ShutdownNone(p) == poll

Shutdown(p) ==
    [q \in Polls |->
        IF q = p /\ poll[q].phase = "running"
        THEN [poll[q] EXCEPT !.phase = "stopping"] ELSE poll[q]]

(* init_runtime: shutdown_*_collector takes the slot, cancels and aborts. *)
StopCollectors ==
    /\ ~ clearing
    /\ clearing' = TRUE
    /\ poll' = Shutdown(slot)
    /\ slot' = None
    /\ UNCHANGED <<usage, stats, dirty, dash>>

(* init_runtime, a moment later: clear_pod_stats and clear_node_stats. *)
ClearStats ==
    /\ clearing
    /\ clearing' = FALSE
    /\ stats' = None
    /\ UNCHANGED <<slot, poll, usage, dirty, dash>>

(* init_metrics, with the client of that moment: spawn_*_collector(client)  *)
(* shuts the task in the slot down, if there is one.                       *)
SpawnCollectors(c, p) ==
    /\ ~ clearing
    /\ poll[p].phase = "free"
    /\ poll' = [Shutdown(slot) EXCEPT
          ![p] = [phase |-> "running", ctx |-> c, at |-> "waiting", sample |-> None]]
    /\ slot' = p
    /\ UNCHANGED <<clearing, usage, stats, dirty, dash>>

-----------------------------------------------------------------------------
(* A poll task.                                                            *)

(* A tick, then the metrics API answers with the usage of the moment. *)
ListMetrics(p) ==
    /\ poll[p].phase = "running"
    /\ poll[p].at = "waiting"
    /\ poll' = [poll EXCEPT ![p].at = "listed", ![p].sample = usage[poll[p].ctx]]
    /\ UNCHANGED <<slot, clearing, usage, stats, dirty, dash>>

(* A tick, then it answers with an error: the task waits for the next tick, *)
(* and neither the statistics nor the flag change.                         *)
ListMetricsFailed(p) ==
    /\ poll[p].phase = "running"
    /\ poll[p].at = "waiting"
    /\ UNCHANGED collectorVars

(* Mutants: statistics that exist are kept; a tick writes without an answer. *)
WriteStatsOnce(p) ==
    /\ poll[p].phase \in {"running", "stopping"}
    /\ poll[p].at = "listed"
    /\ stats' = IF stats = None
                THEN [ctx |-> poll[p].ctx, sample |-> poll[p].sample] ELSE stats
    /\ poll' = [poll EXCEPT ![p].at = "written", ![p].sample = None]
    /\ UNCHANGED <<slot, clearing, usage, dirty, dash>>

WriteStatsUnlisted(p) ==
    /\ poll[p].phase \in {"running", "stopping"}
    /\ poll[p].at # "written"
    /\ stats' = [ctx |-> poll[p].ctx, sample |-> poll[p].sample]
    /\ poll' = [poll EXCEPT ![p].at = "written", ![p].sample = None]
    /\ UNCHANGED <<slot, clearing, usage, dirty, dash>>

(* The statistics are swapped for the ones built from the answer; what the *)
(* answer does not mention is dropped, whichever cluster it was of.        *)
WriteStats(p) ==
    /\ poll[p].phase \in {"running", "stopping"}
    /\ poll[p].at = "listed"
    /\ stats' = [ctx |-> poll[p].ctx, sample |-> poll[p].sample]
    /\ poll' = [poll EXCEPT ![p].at = "written", ![p].sample = None]
    /\ UNCHANGED <<slot, clearing, usage, dirty, dash>>

(* Mutant: the flag is not raised. *)
MarkNothing(p) ==
    /\ poll[p].phase \in {"running", "stopping"}
    /\ poll[p].at = "written"
    /\ poll' = [poll EXCEPT ![p].at = "waiting"]
    /\ UNCHANGED <<slot, clearing, usage, stats, dirty, dash>>

MarkDirty(p) ==
    /\ poll[p].phase \in {"running", "stopping"}
    /\ poll[p].at = "written"
    /\ dirty' = TRUE
    /\ poll' = [poll EXCEPT ![p].at = "waiting"]
    /\ UNCHANGED <<slot, clearing, usage, stats, dash>>

(* Aborted at an await. *)
PollEnds(p) ==
    /\ poll[p].phase = "stopping"
    /\ poll[p].at = "waiting"
    /\ poll' = [poll EXCEPT ![p] = [phase |-> "stopped"]]
    /\ UNCHANGED <<slot, clearing, usage, stats, dirty, dash>>

-----------------------------------------------------------------------------
(* A dashboard session.                                                    *)

(* run_buffer_ui draws once before it waits for anything. *)
OpenDashboard(d) ==
    /\ dash[d].phase = "closed"
    /\ dash' = [dash EXCEPT ![d] = [phase |-> "open", shown |-> stats]]
    /\ UNCHANGED <<slot, clearing, poll, usage, stats, dirty>>

(* A tick of 2 s: take_metrics_dirty clears the flag and says it was up. *)
TakeDirty(d) ==
    /\ dash[d].phase = "open"
    /\ dirty
    /\ dirty' = FALSE
    /\ dash' = [dash EXCEPT ![d].phase = "drawing"]
    /\ UNCHANGED <<slot, clearing, poll, usage, stats>>

(* ... and only then is the view drawn from the statistics. *)
Draw(d) ==
    /\ dash[d].phase = "drawing"
    /\ dash' = [dash EXCEPT ![d] = [phase |-> "open", shown |-> stats]]
    /\ UNCHANGED <<slot, clearing, poll, usage, stats, dirty>>

(* Mutant: the view is drawn first, and then the flag is cleared. *)
RedrawThenClear(d) ==
    /\ \/ /\ dash[d].phase = "open" /\ dirty
          /\ dash' = [dash EXCEPT ![d] = [phase |-> "drawing", shown |-> stats]]
          /\ UNCHANGED dirty
       \/ /\ dash[d].phase = "drawing"
          /\ dash' = [dash EXCEPT ![d].phase = "open"]
          /\ dirty' = FALSE
    /\ UNCHANGED <<slot, clearing, poll, usage, stats>>

(* The tick branch of the select!. *)
Redraw(d) == TakeDirty(d) \/ Draw(d)

(* A key or cursor message that the view answers with a redraw. *)
RedrawOnInput(d) ==
    /\ dash[d].phase = "open"
    /\ dash' = [dash EXCEPT ![d].shown = stats]
    /\ UNCHANGED <<slot, clearing, poll, usage, stats, dirty>>

(* A quit key or close(): the flag is not taken by a closed session. *)
CloseDashboard(d) ==
    /\ dash[d].phase = "open"
    /\ dash' = [dash EXCEPT ![d] = [phase |-> "closed", shown |-> None]]
    /\ UNCHANGED <<slot, clearing, poll, usage, stats, dirty>>

UsageChanges(c, s) ==
    /\ usage' = [usage EXCEPT ![c] = s]
    /\ UNCHANGED <<slot, clearing, poll, stats, dirty, dash>>

CollectorNext ==
    \/ StopCollectors
    \/ ClearStats
    \/ \E c \in Contexts, p \in Polls : SpawnCollectors(c, p)
    \/ \E p \in Polls : ListMetrics(p) \/ ListMetricsFailed(p) \/ WriteStats(p) \/ MarkDirty(p) \/ PollEnds(p)
    \/ \E d \in Dashboards :
          \/ OpenDashboard(d) \/ Redraw(d)
          \/ RedrawOnInput(d) \/ CloseDashboard(d)
    \/ \E c \in Contexts, s \in Samples : UsageChanges(c, s)

CollectorSpec == CollectorInit /\ [][CollectorNext]_collectorVars

(* Ticks come; a metrics API that is asked again and again answers in the  *)
(* end (where it never does, no statistics are promised); init_runtime     *)
(* goes on.                                                                *)
CollectorFairness ==
    /\ WF_collectorVars(ClearStats)
    /\ \A p \in Polls :
          /\ WF_collectorVars(ListMetrics(p))
          /\ WF_collectorVars(WriteStats(p))
          /\ WF_collectorVars(MarkDirty(p))
          /\ WF_collectorVars(PollEnds(p))
    /\ \A d \in Dashboards : WF_collectorVars(Redraw(d))

CollectorFairSpec == CollectorSpec /\ CollectorFairness

-----------------------------------------------------------------------------

(* Only the collector in the slot polls on: a restart never leaves two of  *)
(* them writing the same statistics.                                       *)
OneCollector ==
    \A p \in Polls : poll[p].phase = "running" => slot = p

(* take_metrics_dirty takes the flag before the view reads the statistics: *)
(* an update that comes between the two is not lost.  A dashboard that is  *)
(* not up to date, when it waits again, has the flag raised, or about to   *)
(* be by the task that wrote.  (Statistics that were cleared raise none.   *)
(* Two dashboards share the flag, and one takes it from the other.)        *)
NoUpdateMissed ==
    (\A d, e \in Dashboards : d = e) =>
        \A d \in Dashboards :
            dash[d].phase = "open" /\ dash[d].shown # stats /\ stats # None =>
                \/ dirty
                \/ \E p \in Polls : /\ poll[p].phase \in {"running", "stopping"}
                                    /\ poll[p].at = "written"

UsageLeftAlone == <>[][FALSE]_usage

(* A collector runs, and v is the present usage of its cluster. *)
IsPresent(v) == slot # None /\ v = [ctx |-> poll[slot].ctx, sample |-> usage[poll[slot].ctx]]

(* A collector that was aborted with its answer in hand still writes the   *)
(* old cluster's statistics, after init_runtime has cleared them.  They do *)
(* not stay: one that keeps running ends up with those of its own cluster. *)
StaleMetricsReplaced ==
    (UsageLeftAlone /\ <>[](slot # None)) => <>[]IsPresent(stats)

(* take_metrics_dirty "checks if metrics data has changed since last       *)
(* render": a dashboard left open shows the present usage in the end.      *)
DashboardsCatchUp ==
    \A d \in Dashboards :
        (UsageLeftAlone /\ <>[](slot # None) /\ <>[](dash[d].phase # "closed")) =>
            []<>IsPresent(dash[d].shown)
=============================================================================
