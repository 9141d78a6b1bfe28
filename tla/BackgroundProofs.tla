-------------------------- MODULE BackgroundProofs --------------------------
(***************************************************************************)
(* What goes on behind the views.  However often collectors are stopped,   *)
(* their statistics cleared and new ones spawned, with polls under way     *)
(* that abort() does not reach: one collector polls.  And for any          *)
(* clusters, dashboards, tables, calls, forwards and connections, the      *)
(* collectors, the heartbeat, the cache and the port forwards stay well    *)
(* formed.                                                                 *)
(***************************************************************************)
EXTENDS MCBackground, ApiCacheProofs, PortForwardProofs

\* What is kept of the poll tasks: a task in its life has a cluster.
Tasks ==
    /\ slot \in Polls \cup {None}
    /\ clearing \in BOOLEAN
    /\ poll \in [Polls -> PollRecord]
    /\ usage \in [Contexts -> Samples]

\* The task in the slot has not been told to stop.
SlotRuns == slot # None => poll[slot].phase = "running"

CollectorInv == Tasks /\ OneCollector /\ SlotRuns

(* A step of a poll task moves it along: its phase stays. *)
LEMMA PollMoves ==
    ASSUME Tasks, NEW p \in Polls, NEW at \in {"waiting", "listed", "written"}, NEW s \in Samples \cup {None},
           poll[p].phase \in {"running", "stopping"},
           \/ poll' = [poll EXCEPT ![p].at = at, ![p].sample = s]
           \/ poll' = [poll EXCEPT ![p].at = at]
    PROVE  /\ poll' \in [Polls -> PollRecord]
           /\ \A q \in Polls : poll'[q].phase = poll[q].phase
<1>1. poll[p] \in [phase : {"running", "stopping"}, ctx : Contexts,
                   at : {"waiting", "listed", "written"}, sample : Samples \cup {None}]
    BY DEF Tasks, PollRecord
<1>2. poll'[p] \in [phase : {"running", "stopping"}, ctx : Contexts,
                   at : {"waiting", "listed", "written"}, sample : Samples \cup {None}]
      /\ poll'[p].phase = poll[p].phase
    BY <1>1 DEF Tasks
<1>3. poll' = [poll EXCEPT ![p] = poll'[p]]
    BY DEF Tasks
<1> QED BY <1>2, <1>3 DEF Tasks, PollRecord

(* Shutting a task down leaves none in the slot running, and no other task *)
(* is touched.                                                             *)
LEMMA ShutdownStops ==
    ASSUME Tasks, NEW p \in Polls
    PROVE  /\ Shutdown(p) \in [Polls -> PollRecord]
           /\ Shutdown(p)[p].phase # "running"
           /\ \A q \in Polls \ {p} : Shutdown(p)[q] = poll[q]
<1>1. CASE poll[p].phase = "running"
    <2>1. [poll[p] EXCEPT !.phase = "stopping"] \in PollRecord /\ [poll[p] EXCEPT !.phase = "stopping"].phase = "stopping"
        <3>1. poll[p] \in [phase : {"running", "stopping"}, ctx : Contexts,
                           at : {"waiting", "listed", "written"}, sample : Samples \cup {None}]
            BY <1>1 DEF Tasks, PollRecord
        <3> QED BY <3>1 DEF PollRecord
    <2> QED BY <1>1, <2>1 DEF Shutdown, Tasks
<1>2. CASE poll[p].phase # "running"
    BY <1>2 DEF Shutdown, Tasks
<1> QED BY <1>1, <1>2

(* The slot is emptied, or taken by another, with nothing left running. *)
LEMMA SlotStops ==
    ASSUME CollectorInv
    PROVE  /\ Shutdown(slot) \in [Polls -> PollRecord]
           /\ \A q \in Polls : Shutdown(slot)[q].phase # "running"
<1>1. CASE slot \in Polls
    BY <1>1, ShutdownStops DEF CollectorInv, OneCollector
<1>2. CASE slot = None
    BY <1>2, NoneIsNot DEF Shutdown, CollectorInv, Tasks, OneCollector
<1> QED BY <1>1, <1>2 DEF CollectorInv, Tasks

LEMMA CollectorInvStep ==
    ASSUME CollectorInv, [CollectorNext]_collectorVars
    PROVE  CollectorInv'
<1> USE NoneIsNot
<1>1. CASE UNCHANGED collectorVars
    BY <1>1 DEF CollectorInv, Tasks, OneCollector, SlotRuns, collectorVars
<1>2. CASE StopCollectors
    <2>1. slot' = None /\ poll' = Shutdown(slot) /\ clearing' = TRUE /\ usage' = usage
        BY <1>2 DEF StopCollectors
    <2>2. /\ Shutdown(slot) \in [Polls -> PollRecord]
          /\ \A q \in Polls : Shutdown(slot)[q].phase # "running"
        BY SlotStops
    <2> QED BY <2>1, <2>2 DEF CollectorInv, Tasks, OneCollector, SlotRuns
<1>3. CASE ClearStats
    BY <1>3 DEF ClearStats, CollectorInv, Tasks, OneCollector, SlotRuns
<1>4. ASSUME NEW c \in Contexts, NEW p \in Polls, SpawnCollectors(c, p)
      PROVE  CollectorInv'
    <2> DEFINE new == [phase |-> "running", ctx |-> c, at |-> "waiting", sample |-> None]
               old == Shutdown(slot)
    <2>1. old \in [Polls -> PollRecord] /\ \A q \in Polls : old[q].phase # "running"
        BY SlotStops
    <2>2. poll' = [old EXCEPT ![p] = new] /\ slot' = p /\ clearing' = clearing /\ usage' = usage
        BY <1>4 DEF SpawnCollectors
    <2>3. new \in PollRecord /\ new.phase = "running"
        BY DEF PollRecord
    <2> HIDE DEF old, new
    <2>4. poll' \in [Polls -> PollRecord] /\ poll'[p] = new /\ \A q \in Polls \ {p} : poll'[q] = old[q]
        BY <2>1, <2>2, <2>3
    <2> QED BY <2>1, <2>2, <2>3, <2>4 DEF CollectorInv, Tasks, OneCollector, SlotRuns
<1>5. ASSUME NEW p \in Polls,
             ListMetrics(p) \/ WriteStats(p) \/ MarkDirty(p)
      PROVE  CollectorInv'
    <2>1. poll' \in [Polls -> PollRecord] /\ \A q \in Polls : poll'[q].phase = poll[q].phase
        <3>1. CASE ListMetrics(p)
            <4>1. poll[p].ctx \in Contexts
                BY <3>1 DEF ListMetrics, CollectorInv, Tasks, PollRecord
            <4>2. usage[poll[p].ctx] \in Samples
                BY <3>1, <4>1 DEF ListMetrics, CollectorInv, Tasks
            <4> QED BY <3>1, <4>2, PollMoves DEF ListMetrics, CollectorInv
        <3>2. CASE WriteStats(p)
            BY <3>2, PollMoves DEF WriteStats, CollectorInv
        <3>3. CASE MarkDirty(p)
            BY <3>3, PollMoves DEF MarkDirty, CollectorInv
        <3> QED BY <1>5, <3>1, <3>2, <3>3
    <2>2. UNCHANGED <<slot, clearing, usage>>
        BY <1>5 DEF ListMetrics, WriteStats, MarkDirty
    <2> QED BY <2>1, <2>2 DEF CollectorInv, Tasks, OneCollector, SlotRuns
<1>6. ASSUME NEW p \in Polls, PollEnds(p)
      PROVE  CollectorInv'
    <2>1. [phase |-> "stopped"] \in PollRecord
        BY DEF PollRecord
    <2>2. slot # p
        BY <1>6 DEF PollEnds, CollectorInv, SlotRuns
    <2> QED BY <1>6, <2>1, <2>2 DEF PollEnds, CollectorInv, Tasks, OneCollector, SlotRuns
<1>7. ASSUME NEW d \in Dashboards,
             OpenDashboard(d) \/ TakeDirty(d) \/ Draw(d) \/ RedrawOnInput(d) \/ CloseDashboard(d)
      PROVE  CollectorInv'
    BY <1>7 DEF OpenDashboard, TakeDirty, Draw, RedrawOnInput, CloseDashboard,
                CollectorInv, Tasks, OneCollector, SlotRuns
<1>8. ASSUME NEW c \in Contexts, NEW s \in Samples, UsageChanges(c, s)
      PROVE  CollectorInv'
    BY <1>8 DEF UsageChanges, CollectorInv, Tasks, OneCollector, SlotRuns
<1>9. ASSUME NEW p \in Polls, ListMetricsFailed(p)
      PROVE  CollectorInv'
    BY <1>1, <1>9 DEF ListMetricsFailed
<1> QED BY <1>1, <1>2, <1>3, <1>4, <1>5, <1>6, <1>7, <1>8, <1>9 DEF CollectorNext, Redraw

LEMMA CollectorInvInit ==
    ASSUME CollectorInit PROVE CollectorInv
<1>1. [phase |-> "free"] \in PollRecord
    BY DEF PollRecord
<1> QED BY <1>1 DEF CollectorInit, CollectorInv, Tasks, OneCollector, SlotRuns

LEMMA CollectorInvHolds == CollectorSpec => []CollectorInv
<1> QED BY CollectorInvInit, CollectorInvStep, PTL DEF CollectorSpec

(* A restart never leaves two collectors writing the same statistics, in   *)
(* whatever order context changes and init_metrics call shutdown and spawn *)
(* (metrics/pods.rs, metrics/nodes.rs).                                    *)
THEOREM OnlyOneCollects == CollectorSpec => []OneCollector
<1>1. CollectorInv => OneCollector
    BY DEF CollectorInv
<1> QED BY <1>1, CollectorInvHolds, PTL

-----------------------------------------------------------------------------
(* Types of the collectors and dashboards.                                 *)

\* A task that has its answer in hand has one.
Answered ==
    \A p \in Polls :
        poll[p].phase \in {"running", "stopping"} /\ poll[p].at = "listed" => poll[p].sample \in Samples

DashRecord == [phase : {"closed", "open", "drawing"}, shown : Stat \cup {None}]

Shown ==
    /\ stats \in Stat \cup {None}
    /\ dirty \in BOOLEAN
    /\ dash \in [Dashboards -> DashRecord]

LEMMA AnsweredStep ==
    ASSUME CollectorInv, Answered, [CollectorNext]_collectorVars
    PROVE  Answered'
<1>1. CASE UNCHANGED collectorVars
    BY <1>1 DEF Answered, collectorVars
<1>2. ASSUME NEW p \in Polls
      PROVE  /\ Shutdown(p) \in [Polls -> PollRecord]
             /\ \A q \in Polls : Shutdown(p)[q].phase \in {"running", "stopping"} =>
                    /\ poll[q].phase \in {"running", "stopping"}
                    /\ Shutdown(p)[q].at = poll[q].at /\ Shutdown(p)[q].sample = poll[q].sample
    <2>1. Shutdown(p) \in [Polls -> PollRecord] /\ \A q \in Polls \ {p} : Shutdown(p)[q] = poll[q]
        BY ShutdownStops DEF CollectorInv
    <2>2. CASE poll[p].phase = "running"
        <3>1. poll[p] \in [phase : {"running", "stopping"}, ctx : Contexts,
                           at : {"waiting", "listed", "written"}, sample : Samples \cup {None}]
            BY <2>2 DEF CollectorInv, Tasks, PollRecord
        <3>2. Shutdown(p)[p] = [poll[p] EXCEPT !.phase = "stopping"]
            BY <2>2 DEF Shutdown
        <3>3. Shutdown(p)[p].at = poll[p].at /\ Shutdown(p)[p].sample = poll[p].sample
            BY <3>1, <3>2
        <3> QED BY <2>1, <2>2, <3>3
    <2>3. CASE poll[p].phase # "running"
        BY <2>1, <2>3 DEF Shutdown
    <2> QED BY <2>1, <2>2, <2>3
<1>3. CASE StopCollectors
    <2>1. poll' = Shutdown(slot)
        BY <1>3 DEF StopCollectors
    <2>2. CASE slot \in Polls
        BY <1>2, <2>1, <2>2 DEF Answered
    <2>3. CASE slot = None
        <3>1. Shutdown(slot) = poll
            BY <2>3, NoneIsNot DEF Shutdown, CollectorInv, Tasks
        <3> QED BY <2>1, <3>1 DEF Answered
    <2> QED BY <2>2, <2>3 DEF CollectorInv, Tasks
<1>4. ASSUME NEW c \in Contexts, NEW p \in Polls, SpawnCollectors(c, p)
      PROVE  Answered'
    <2> DEFINE new == [phase |-> "running", ctx |-> c, at |-> "waiting", sample |-> None]
               old == Shutdown(slot)
    <2>1. /\ old \in [Polls -> PollRecord]
          /\ \A q \in Polls : old[q].phase \in {"running", "stopping"} =>
                 /\ poll[q].phase \in {"running", "stopping"}
                 /\ old[q].at = poll[q].at /\ old[q].sample = poll[q].sample
        <3>1. CASE slot \in Polls
            BY <1>2, <3>1
        <3>2. CASE slot = None
            BY <3>2, NoneIsNot DEF Shutdown, CollectorInv, Tasks
        <3> QED BY <3>1, <3>2 DEF CollectorInv, Tasks
    <2>2. poll' = [old EXCEPT ![p] = new]
        BY <1>4 DEF SpawnCollectors
    <2>3. poll'[p] = new /\ \A q \in Polls \ {p} : poll'[q] = old[q]
        BY <2>1, <2>2
    <2>4. new.at = "waiting"
        OBVIOUS
    <2> QED BY <2>1, <2>3, <2>4 DEF Answered
<1>5. ASSUME NEW p \in Polls,
             ListMetrics(p) \/ WriteStats(p) \/ MarkDirty(p)
      PROVE  Answered'
    <2>1. poll[p] \in [phase : {"running", "stopping"}, ctx : Contexts,
                       at : {"waiting", "listed", "written"}, sample : Samples \cup {None}]
        BY <1>5 DEF ListMetrics, WriteStats, MarkDirty, CollectorInv, Tasks, PollRecord
    <2>2. \A q \in Polls \ {p} : poll'[q] = poll[q]
        BY <1>5 DEF ListMetrics, WriteStats, MarkDirty, CollectorInv, Tasks
    <2>3. poll'[p].at = "listed" => poll'[p].sample \in Samples
        <3>1. CASE ListMetrics(p)
            <4>1. usage[poll[p].ctx] \in Samples
                BY <2>1, <3>1 DEF ListMetrics, CollectorInv, Tasks
            <4> QED BY <2>1, <3>1, <4>1 DEF ListMetrics, CollectorInv, Tasks
        <3>2. CASE WriteStats(p) \/ MarkDirty(p)
            <4>1. poll'[p].at # "listed"
                BY <2>1, <3>2 DEF WriteStats, MarkDirty, CollectorInv, Tasks
            <4> QED BY <4>1
        <3> QED BY <1>5, <3>1, <3>2
    <2> QED BY <2>2, <2>3 DEF Answered
<1>6. ASSUME NEW p \in Polls, PollEnds(p)
      PROVE  Answered'
    BY <1>6 DEF PollEnds, Answered, CollectorInv, Tasks
<1>7. ASSUME UNCHANGED poll
      PROVE  Answered'
    BY <1>7 DEF Answered
<1>8. CASE ClearStats
    BY <1>7, <1>8 DEF ClearStats
<1>9. ASSUME NEW d \in Dashboards,
             OpenDashboard(d) \/ TakeDirty(d) \/ Draw(d) \/ RedrawOnInput(d) \/ CloseDashboard(d)
      PROVE  Answered'
    BY <1>7, <1>9 DEF OpenDashboard, TakeDirty, Draw, RedrawOnInput, CloseDashboard
<1>10. ASSUME NEW c \in Contexts, NEW s \in Samples, UsageChanges(c, s)
      PROVE  Answered'
    BY <1>7, <1>10 DEF UsageChanges
<1>11. ASSUME NEW p \in Polls, ListMetricsFailed(p)
       PROVE  Answered'
    BY <1>1, <1>11 DEF ListMetricsFailed
<1> QED BY <1>1, <1>3, <1>4, <1>5, <1>6, <1>8, <1>9, <1>10, <1>11 DEF CollectorNext, Redraw

LEMMA ShownStep ==
    ASSUME CollectorInv, Answered, Shown, [CollectorNext]_collectorVars
    PROVE  Shown'
<1>1. ASSUME UNCHANGED <<stats, dirty, dash>> PROVE Shown'
    BY <1>1 DEF Shown
<1>2. CASE UNCHANGED collectorVars
    BY <1>1, <1>2 DEF collectorVars
<1>3. CASE StopCollectors
    BY <1>1, <1>3 DEF StopCollectors
<1>4. CASE ClearStats
    BY <1>4 DEF ClearStats, Shown
<1>5. ASSUME NEW c \in Contexts, NEW p \in Polls, SpawnCollectors(c, p) PROVE Shown'
    BY <1>1, <1>5 DEF SpawnCollectors
<1>6. ASSUME NEW p \in Polls, ListMetrics(p) \/ WriteStats(p) \/ MarkDirty(p) \/ PollEnds(p) PROVE Shown'
    <2>1. CASE ListMetrics(p) \/ PollEnds(p)
        BY <1>1, <2>1 DEF ListMetrics, PollEnds
    <2>2. CASE MarkDirty(p)
        BY <2>2 DEF MarkDirty, Shown
    <2>3. CASE WriteStats(p)
        <3>1. poll[p].ctx \in Contexts
            BY <2>3 DEF WriteStats, CollectorInv, Tasks, PollRecord
        <3>2. poll[p].sample \in Samples
            BY <2>3 DEF WriteStats, Answered
        <3>3. stats' \in Stat /\ dirty' = dirty /\ dash' = dash
            BY <2>3, <3>1, <3>2 DEF WriteStats, Stat
        <3> QED BY <3>3 DEF Shown
    <2> QED BY <1>6, <2>1, <2>2, <2>3
<1>7. ASSUME NEW d \in Dashboards,
             OpenDashboard(d) \/ TakeDirty(d) \/ Draw(d) \/ RedrawOnInput(d) \/ CloseDashboard(d)
      PROVE  Shown'
    <2>1. dash[d] \in DashRecord /\ stats \in Stat \cup {None}
        BY DEF Shown
    <2>2. PICK r \in DashRecord : dash' = [dash EXCEPT ![d] = r]
        <3>1. CASE OpenDashboard(d) \/ Draw(d) \/ CloseDashboard(d)
            <4>1. /\ [phase |-> "open", shown |-> stats] \in DashRecord
                  /\ [phase |-> "closed", shown |-> None] \in DashRecord
                BY <2>1 DEF DashRecord
            <4> QED BY <3>1, <4>1 DEF OpenDashboard, Draw, CloseDashboard
        <3>2. CASE TakeDirty(d) \/ RedrawOnInput(d)
            <4>1. /\ [dash[d] EXCEPT !.phase = "drawing"] \in DashRecord
                  /\ [dash[d] EXCEPT !.shown = stats] \in DashRecord
                BY <2>1 DEF DashRecord
            <4>2. CASE TakeDirty(d)
                <5>1. dash' = [dash EXCEPT ![d] = [dash[d] EXCEPT !.phase = "drawing"]]
                    BY <4>2 DEF TakeDirty
                <5> QED BY <4>1, <5>1
            <4>3. CASE RedrawOnInput(d)
                <5>1. dash' = [dash EXCEPT ![d] = [dash[d] EXCEPT !.shown = stats]]
                    BY <4>3 DEF RedrawOnInput
                <5> QED BY <4>1, <5>1
            <4> QED BY <3>2, <4>2, <4>3
        <3> QED BY <1>7, <3>1, <3>2
    <2>3. dash' \in [Dashboards -> DashRecord]
        BY <2>2 DEF Shown
    <2>4. stats' = stats /\ dirty' \in BOOLEAN
        BY <1>7 DEF OpenDashboard, TakeDirty, Draw, RedrawOnInput, CloseDashboard, Shown
    <2> QED BY <2>3, <2>4 DEF Shown
<1>8. ASSUME NEW c \in Contexts, NEW s \in Samples, UsageChanges(c, s) PROVE Shown'
    BY <1>1, <1>8 DEF UsageChanges
<1>9. ASSUME NEW p \in Polls, ListMetricsFailed(p) PROVE Shown'
    BY <1>2, <1>9 DEF ListMetricsFailed
<1> QED BY <1>2, <1>3, <1>4, <1>5, <1>6, <1>7, <1>8, <1>9 DEF CollectorNext, Redraw

-----------------------------------------------------------------------------
(* The dirty flag.                                                         *)

\* The task has written its statistics and has not raised the flag.
Marking(p) == poll[p].phase \in {"running", "stopping"} /\ poll[p].at = "written"

(* Told to stop or not, it comes to raise the flag. *)
LEMMA MarkingStays ==
    ASSUME CollectorInv, [CollectorNext]_collectorVars, NEW p \in Polls, Marking(p)
    PROVE  Marking(p)' \/ dirty'
<1>1. ASSUME UNCHANGED poll PROVE Marking(p)'
    BY <1>1 DEF Marking
<1>2. CASE UNCHANGED collectorVars
    BY <1>1, <1>2 DEF collectorVars
<1>3. Shutdown(slot)[p].phase \in {"running", "stopping"} /\ Shutdown(slot)[p].at = "written"
    <2>1. poll[p] \in [phase : {"running", "stopping"}, ctx : Contexts,
                       at : {"waiting", "listed", "written"}, sample : Samples \cup {None}]
        BY DEF Marking, CollectorInv, Tasks, PollRecord
    <2> QED BY <2>1 DEF Shutdown, Marking
<1>4. CASE StopCollectors
    BY <1>3, <1>4 DEF StopCollectors, Marking
<1>5. CASE ClearStats
    BY <1>1, <1>5 DEF ClearStats
<1>6. ASSUME NEW c \in Contexts, NEW q \in Polls, SpawnCollectors(c, q) PROVE Marking(p)'
    <2> DEFINE old == Shutdown(slot)
               new == [phase |-> "running", ctx |-> c, at |-> "waiting", sample |-> None]
    <2>1. p # q
        BY <1>6 DEF SpawnCollectors, Marking
    <2>2. old \in [Polls -> PollRecord]
        BY SlotStops
    <2>3. poll' = [old EXCEPT ![q] = new]
        BY <1>6 DEF SpawnCollectors
    <2> HIDE DEF old, new
    <2>4. poll'[p] = old[p]
        BY <2>1, <2>2, <2>3
    <2> QED BY <1>3, <2>4 DEF old, Marking
<1>7. ASSUME NEW q \in Polls,
             ListMetrics(q) \/ ListMetricsFailed(q) \/ WriteStats(q) \/ PollEnds(q)
      PROVE  Marking(p)'
    <2>1. p # q \/ UNCHANGED poll
        BY <1>7 DEF ListMetrics, ListMetricsFailed, WriteStats, PollEnds, Marking, collectorVars
    <2>2. p # q => poll'[p] = poll[p]
        <3>1. CASE ListMetricsFailed(q)
            BY <3>1 DEF ListMetricsFailed, collectorVars
        <3>2. CASE ~ ListMetricsFailed(q)
            BY <1>7, <3>2 DEF ListMetrics, WriteStats, PollEnds, CollectorInv, Tasks
        <3> QED BY <3>1, <3>2
    <2> QED BY <1>1, <2>1, <2>2 DEF Marking
<1>8. ASSUME NEW q \in Polls, MarkDirty(q) PROVE dirty'
    BY <1>8 DEF MarkDirty
<1>9. ASSUME NEW d \in Dashboards,
             OpenDashboard(d) \/ TakeDirty(d) \/ Draw(d) \/ RedrawOnInput(d) \/ CloseDashboard(d)
      PROVE  Marking(p)'
    BY <1>1, <1>9 DEF OpenDashboard, TakeDirty, Draw, RedrawOnInput, CloseDashboard
<1>10. ASSUME NEW c \in Contexts, NEW s \in Samples, UsageChanges(c, s) PROVE Marking(p)'
    BY <1>1, <1>10 DEF UsageChanges
<1> QED BY <1>2, <1>4, <1>5, <1>6, <1>7, <1>8, <1>9, <1>10 DEF CollectorNext, Redraw

\* What NoUpdateMissed says of one dashboard.
UpToDate(d) ==
    dash[d].phase = "open" /\ dash[d].shown # stats /\ stats # None =>
        dirty \/ \E p \in Polls : Marking(p)

LEMMA UpToDateStep ==
    ASSUME CollectorInv, Shown, \A d, e \in Dashboards : d = e,
           [CollectorNext]_collectorVars, NEW d \in Dashboards, UpToDate(d)
    PROVE  UpToDate(d)'
<1>1. (\E p \in Polls : Marking(p)) => dirty' \/ \E p \in Polls : Marking(p)'
    BY MarkingStays
<1>2. ASSUME dash' = dash, stats' \in {stats, None}, dirty => dirty' PROVE UpToDate(d)'
    BY <1>1, <1>2 DEF UpToDate
<1>3. CASE UNCHANGED collectorVars
    BY <1>2, <1>3 DEF collectorVars
<1>4. CASE StopCollectors \/ ClearStats
    BY <1>2, <1>4 DEF StopCollectors, ClearStats
<1>5. ASSUME NEW c \in Contexts, NEW p \in Polls, SpawnCollectors(c, p) PROVE UpToDate(d)'
    BY <1>2, <1>5 DEF SpawnCollectors
<1>6. ASSUME NEW p \in Polls, ListMetrics(p) \/ ListMetricsFailed(p) \/ MarkDirty(p) \/ PollEnds(p)
      PROVE  UpToDate(d)'
    BY <1>2, <1>6 DEF ListMetrics, ListMetricsFailed, MarkDirty, PollEnds, collectorVars
<1>7. ASSUME NEW p \in Polls, WriteStats(p) PROVE UpToDate(d)'
    <2>1. poll[p] \in [phase : {"running", "stopping"}, ctx : Contexts,
                       at : {"waiting", "listed", "written"}, sample : Samples \cup {None}]
        BY <1>7 DEF WriteStats, CollectorInv, Tasks, PollRecord
    <2>2. Marking(p)'
        BY <1>7, <2>1 DEF WriteStats, Marking, CollectorInv, Tasks
    <2> QED BY <2>2 DEF UpToDate
<1>8. ASSUME NEW e \in Dashboards,
             OpenDashboard(e) \/ TakeDirty(e) \/ Draw(e) \/ RedrawOnInput(e) \/ CloseDashboard(e)
      PROVE  UpToDate(d)'
    <2>1. d = e /\ dash[d] \in DashRecord /\ dash \in [Dashboards -> DashRecord]
        BY DEF Shown
    <2>2. stats' = stats
        BY <1>8 DEF OpenDashboard, TakeDirty, Draw, RedrawOnInput, CloseDashboard
    <2>3. dash'[d].phase = "open" => dash'[d].shown = stats
        <3>1. CASE OpenDashboard(e) \/ Draw(e) \/ CloseDashboard(e)
            BY <2>1, <3>1 DEF OpenDashboard, Draw, CloseDashboard
        <3>2. CASE TakeDirty(e) \/ RedrawOnInput(e)
            BY <2>1, <3>2 DEF TakeDirty, RedrawOnInput, DashRecord
        <3> QED BY <1>8, <3>1, <3>2
    <2> QED BY <2>2, <2>3 DEF UpToDate
<1>9. ASSUME NEW c \in Contexts, NEW s \in Samples, UsageChanges(c, s) PROVE UpToDate(d)'
    BY <1>2, <1>9 DEF UsageChanges
<1> QED BY <1>3, <1>4, <1>5, <1>6, <1>7, <1>8, <1>9 DEF CollectorNext, Redraw

(* A dashboard that no other shares the flag with misses no statistics,    *)
(* whatever is written between the taking of the flag and the drawing      *)
(* (metrics/mod.rs, run_buffer_ui of ui/session.rs).                       *)
THEOREM NothingIsMissed == CollectorSpec => []NoUpdateMissed
<1> DEFINE Inv == /\ CollectorInv /\ Answered /\ Shown
                  /\ (\A d, e \in Dashboards : d = e) => \A d \in Dashboards : UpToDate(d)
<1>1. CollectorInit => Inv
    <2> SUFFICES ASSUME CollectorInit PROVE Inv
        OBVIOUS
    <2>1. CollectorInv
        BY CollectorInvInit
    <2>2. Answered /\ Shown
        BY DEF CollectorInit, Answered, Shown, DashRecord
    <2>3. \A d \in Dashboards : UpToDate(d)
        BY DEF CollectorInit, UpToDate
    <2> QED BY <2>1, <2>2, <2>3
<1>2. Inv /\ [CollectorNext]_collectorVars => Inv'
    BY CollectorInvStep, AnsweredStep, ShownStep, UpToDateStep
<1>3. Inv => NoUpdateMissed
    BY DEF NoUpdateMissed, UpToDate, Marking
<1> HIDE DEF Inv
<1> QED BY <1>1, <1>2, <1>3, PTL DEF CollectorSpec

-----------------------------------------------------------------------------
(* Types of the heartbeat.                                                 *)

Answers == {"none", "ok", "failed"}

\* The collector's shapes; one that ticks or checks has a cluster, or a
\* cancellation would leave one without.
Unstarted == [phase : {"unset", "ended"}, ctx : Servers \cup {NoServer}, answer : Answers]
Going == [phase : {"ticking", "checking"}, ctx : Servers, answer : Answers]
Cancelling == [phase : {"cancelled"}, ctx : Servers, answer : Answers, checking : BOOLEAN]

HeartbeatInv == HeartbeatTypeOK /\ health \in Unstarted \cup Going \cup Cancelling

LEMMA HeartbeatInit_Inv ==
    ASSUME HeartbeatInit PROVE HeartbeatInv
<1>1. Unset \in Unstarted /\ 0 \in 0..MaxConnects
    BY HeartbeatAssumption DEF Unset, Unstarted, Answers
<1> QED BY <1>1 DEF HeartbeatInit, HeartbeatInv, HeartbeatTypeOK, Unstarted, Answers

LEMMA HeartbeatStep_Inv ==
    ASSUME HeartbeatInv, [HeartbeatNext]_heartbeatVars
    PROVE  HeartbeatInv'
<1>1. health \in Unstarted \cup Going \cup Cancelling /\ HeartbeatTypeOK
    BY DEF HeartbeatInv
<1>2. ASSUME health' \in Unstarted \cup Going \cup Cancelling
      PROVE  health' \in [phase : {"unset", "ticking", "checking", "ended"},
                          ctx : Servers \cup {NoServer}, answer : {"none", "ok", "failed"}]
                        \cup [phase : {"cancelled"}, ctx : Servers,
                              answer : {"none", "ok", "failed"}, checking : BOOLEAN]
    BY <1>2 DEF Unstarted, Going, Cancelling, Answers
<1>3. CASE UNCHANGED heartbeatVars
    BY <1>3 DEF HeartbeatInv, HeartbeatTypeOK, heartbeatVars, timerVars
<1>4. ASSUME NEW c \in Servers, Connect(c) PROVE HeartbeatInv'
    <2>1. [phase |-> "ticking", ctx |-> c, answer |-> "none"] \in Going
        BY DEF Going, Answers
    <2>2. health' \in Unstarted \cup Going \cup Cancelling
        BY <1>1, <1>4, <2>1 DEF Connect
    <2>3. connects' \in 0..MaxConnects
        BY <1>1, <1>4, HeartbeatAssumption DEF Connect, HeartbeatTypeOK
    <2>4. /\ connected' \in Servers \cup {NoServer} /\ setup' \in BOOLEAN
          /\ UNCHANGED <<alive, healthOk, timer, oldTimers, livez>> /\ isOpen' \in BOOLEAN
        BY <1>1, <1>4 DEF Connect, HeartbeatTypeOK
    <2> QED BY <1>1, <1>2, <2>2, <2>3, <2>4 DEF HeartbeatInv, HeartbeatTypeOK
<1>5. ASSUME health' \in Unstarted \cup Going \cup Cancelling, healthOk' \in BOOLEAN,
             connected' \in Servers \cup {NoServer}, UNCHANGED <<connects, alive, setup, timerVars, livez>>
      PROVE  HeartbeatInv'
    BY <1>1, <1>2, <1>5 DEF HeartbeatInv, HeartbeatTypeOK, timerVars
<1>6. CASE Disconnect
    <2>1. health' \in Unstarted \cup Going \cup Cancelling
        <3>1. CASE health.phase \in {"ticking", "checking"}
            <4>1. health.ctx \in Servers /\ health.answer \in Answers
                BY <1>1, <3>1 DEF Unstarted, Going, Cancelling
            <4>2. health' = [phase |-> "cancelled", ctx |-> health.ctx,
                             answer |-> health.answer, checking |-> health.phase = "checking"]
                BY <1>6, <3>1 DEF Disconnect
            <4> QED BY <4>1, <4>2 DEF Cancelling
        <3>2. CASE health.phase \notin {"ticking", "checking"}
            BY <1>1, <1>6, <3>2 DEF Disconnect
        <3> QED BY <3>1, <3>2
    <2>2. healthOk \in BOOLEAN
        BY <1>1 DEF HeartbeatTypeOK
    <2> QED BY <1>5, <1>6, <2>1, <2>2 DEF Disconnect
<1>7. CASE Tick
    <2>1. health \in Going
        BY <1>1, <1>7 DEF Tick, Unstarted, Going, Cancelling
    <2>2. \A a \in {"ok", "failed"} : [health EXCEPT !.phase = "checking", !.answer = a] \in Going
        BY <2>1 DEF Going, Answers
    <2>3. health' \in Unstarted \cup Going \cup Cancelling
        BY <1>7, <2>2 DEF Tick
    <2>4. healthOk \in BOOLEAN /\ connected \in Servers \cup {NoServer}
        BY <1>1 DEF HeartbeatTypeOK
    <2> QED BY <1>5, <1>7, <2>3, <2>4 DEF Tick
<1>8. CASE Store
    <2>1. health' \in Unstarted \cup Going \cup Cancelling
        <3>1. CASE health.phase = "checking"
            <4>1. health \in Going
                BY <1>1, <3>1 DEF Unstarted, Going, Cancelling
            <4>2. [health EXCEPT !.phase = "ticking", !.answer = "none"] \in Going
                BY <4>1 DEF Going, Answers
            <4> QED BY <1>8, <3>1, <4>2 DEF Store
        <3>2. CASE health.phase # "checking"
            <4>1. health \in Cancelling
                BY <1>1, <1>8, <3>2 DEF Store, Unstarted, Going, Cancelling
            <4>2. [health EXCEPT !.checking = FALSE, !.answer = "none"] \in Cancelling
                BY <4>1 DEF Cancelling, Answers
            <4> QED BY <1>8, <3>2, <4>2 DEF Store
        <3> QED BY <3>1, <3>2
    <2>2. connected \in Servers \cup {NoServer} /\ healthOk' \in BOOLEAN
        BY <1>1, <1>8 DEF HeartbeatTypeOK, Store
    <2> QED BY <1>5, <1>8, <2>1, <2>2 DEF Store
<1>9. CASE End
    <2>1. health.ctx \in Servers
        BY <1>1, <1>9 DEF End, Unstarted, Going, Cancelling
    <2>2. health' \in Unstarted
        BY <1>9, <2>1 DEF End, Unstarted, Answers
    <2>3. healthOk \in BOOLEAN /\ connected \in Servers \cup {NoServer}
        BY <1>1 DEF HeartbeatTypeOK
    <2> QED BY <1>5, <1>9, <2>2, <2>3 DEF End
<1>10. CASE CheckHealth
    BY <1>10 DEF CheckHealth, HeartbeatInv, HeartbeatTypeOK
<1>11. CASE ReadHealth
    BY <1>11 DEF ReadHealth, HeartbeatInv, HeartbeatTypeOK, timerVars
<1>12. ASSUME NEW c \in Servers, ServerChanges(c) PROVE HeartbeatInv'
    <2>1. alive' \in [Servers -> BOOLEAN]
        BY <1>1, <1>12 DEF ServerChanges, HeartbeatTypeOK
    <2> QED BY <1>12, <2>1 DEF ServerChanges, HeartbeatInv, HeartbeatTypeOK, timerVars
<1>13. CASE Close
    BY <1>13 DEF Close, HeartbeatInv, HeartbeatTypeOK
<1> QED BY <1>3, <1>4, <1>6, <1>7, <1>8, <1>9, <1>10, <1>11, <1>12, <1>13 DEF HeartbeatNext

-----------------------------------------------------------------------------
(* Types of the port forwards.                                             *)

\* What is listed was given an id, and the id in hand was given too.
Listings ==
    /\ hasClient \in BOOLEAN
    /\ pfCounter \in 1..(MaxForwards + 1)
    /\ DOMAIN pfMap \subseteq 1..(pfCounter - 1)
    /\ \A id \in DOMAIN pfMap : pfMap[id] \in [target : Targets, at : Binds]
    /\ pfMain.pc \in {"spawn", "insert"} => pfMain.id < pfCounter

LEMMA ListingsStep ==
    ASSUME PfInv, Listings, [PfNext]_pfVars
    PROVE  Listings'
<1> USE PortForwardAssumption
<1>1. ASSUME UNCHANGED <<hasClient, pfCounter, pfMap, pfMain>> PROVE Listings'
    BY <1>1 DEF Listings
<1>2. CASE UNCHANGED pfVars
    BY <1>1, <1>2 DEF pfVars
<1>3. ASSUME NEW t \in Targets, NEW a \in Binds, Bind(t, a) PROVE Listings'
    <2>1. /\ pfCounter' = pfCounter + 1 /\ pfCounter <= MaxForwards
          /\ hasClient' = hasClient /\ pfMap' = pfMap
        BY <1>3 DEF Bind
    <2>2. pfMain'.pc \in {"spawn", "insert"} => pfMain'.id = pfCounter
        BY <1>3 DEF Bind, Idle
    <2> QED BY <2>1, <2>2 DEF Listings
<1>4. CASE Spawn
    <2>1. pfMain \in [pc : {"spawn", "insert"}, id : Ids, target : Targets, at : Binds]
        BY <1>4 DEF Spawn, PfInv, Shapes, Idle
    <2>2. pfMain'.id = pfMain.id /\ pfMain.pc = "spawn"
        BY <1>4, <2>1 DEF Spawn
    <2> QED BY <1>4, <2>2 DEF Spawn, Listings
<1>5. CASE Insert
    <2>1. pfMain \in [pc : {"spawn", "insert"}, id : Ids, target : Targets, at : Binds]
        BY <1>5 DEF Insert, PfInv, Shapes, Idle
    <2>2. /\ pfMain.id \in 1..(pfCounter - 1)
          /\ [target |-> pfMain.target, at |-> pfMain.at] \in [target : Targets, at : Binds]
        BY <1>5, <2>1 DEF Insert, Listings, Ids
    <2>3. /\ DOMAIN pfMap' = DOMAIN pfMap \cup {pfMain.id}
          /\ \A id \in DOMAIN pfMap' : pfMap'[id] =
                IF id = pfMain.id THEN [target |-> pfMain.target, at |-> pfMain.at] ELSE pfMap[id]
        BY <1>5 DEF Insert
    <2>4. pfMain'.pc = "idle" /\ hasClient' = hasClient /\ pfCounter' = pfCounter
        BY <1>5 DEF Insert, Idle
    <2> QED BY <2>2, <2>3, <2>4 DEF Listings
<1>6. ASSUME NEW id \in Ids, Stop(id) PROVE Listings'
    <2>1. /\ DOMAIN pfMap' = DOMAIN pfMap \ {id}
          /\ \A i \in DOMAIN pfMap' : pfMap'[i] = pfMap[i]
          /\ pfMain'.pc = "wait" /\ hasClient' = hasClient /\ pfCounter' = pfCounter
        BY <1>6 DEF Stop, Restrict
    <2> QED BY <2>1 DEF Listings
<1>7. CASE Stopped
    BY <1>7 DEF Stopped, Listings, Idle
<1>8. ASSUME NEW id \in Ids, AcceptTask(id) \/ AcceptFails(id) PROVE Listings'
    BY <1>1, <1>8 DEF AcceptTask, Slept, Cancelled, AcceptEnds, AcceptFails
<1>9. ASSUME NEW id \in Ids, NEW p \in Peers, Accept(id, p) PROVE Listings'
    BY <1>1, <1>9 DEF Accept
<1>10. ASSUME NEW p \in Peers, Proceed(p) \/ Dropped(p) PROVE Listings'
    BY <1>1, <1>10 DEF Proceed, Dropped
<1>11. ASSUME NEW p \in Peers, NEW a \in Binds, PeerConnects(p, a) PROVE Listings'
    BY <1>1, <1>11 DEF PeerConnects
<1>12. CASE ClientChanges
    BY <1>12 DEF ClientChanges, Listings
<1> QED BY <1>2, <1>3, <1>4, <1>5, <1>6, <1>7, <1>8, <1>9, <1>10, <1>11, <1>12 DEF PfNext, PfMainStep

-----------------------------------------------------------------------------
(* Together.                                                               *)

BackgroundInv ==
    /\ CollectorInv /\ Answered /\ Shown
    /\ HeartbeatInv
    /\ CacheInv
    /\ PfInv /\ Listings

(* The slots, tasks and statistics of the collectors, the heartbeat's      *)
(* answer and what the header shows, the tables, files and calls of the    *)
(* cache, and the forwards, listeners and connections are well formed,     *)
(* however many there are (metrics/*.rs, health.rs, cache.lua,             *)
(* portforward.rs).                                                        *)
THEOREM BackgroundTypesCorrect == MCSpec => []BackgroundTypeOK
<1>1. MCInit => BackgroundInv
    <2> SUFFICES ASSUME MCInit PROVE BackgroundInv
        OBVIOUS
    <2>1. CollectorInv
        BY CollectorInvInit DEF MCInit
    <2>2. Answered /\ Shown
        BY DEF MCInit, CollectorInit, Answered, Shown, DashRecord
    <2>3. HeartbeatInv /\ CacheInv /\ PfInv
        BY HeartbeatInit_Inv, CacheInit_Inv, PfInit_Inv DEF MCInit
    <2>4. Listings
        <3>1. pfMap = <<>> /\ DOMAIN pfMap = {}
            BY DEF MCInit, PfInit
        <3>2. pfMain.pc = "idle" /\ hasClient = FALSE /\ pfCounter = 1 /\ 1 \in 1..(MaxForwards + 1)
            BY PortForwardAssumption DEF MCInit, PfInit, Idle
        <3> QED BY <3>1, <3>2 DEF Listings
    <2> QED BY <2>1, <2>2, <2>3, <2>4 DEF BackgroundInv
<1>2. ASSUME BackgroundInv,
             [ /\ UNCHANGED part
               /\ \/ part = "collectors" /\ CollectorNext /\ UNCHANGED <<heartbeatVars, cacheVars, pfVars>>
                  \/ part = "heartbeat" /\ HeartbeatNext /\ UNCHANGED <<collectorVars, cacheVars, pfVars>>
                  \/ part = "cache" /\ CacheNext /\ UNCHANGED <<collectorVars, heartbeatVars, pfVars>>
                  \/ part = "forwards" /\ PfNext /\ UNCHANGED <<collectorVars, heartbeatVars, cacheVars>>
             ]_backgroundVars
      PROVE  BackgroundInv'
    <2>1. /\ [CollectorNext]_collectorVars /\ [HeartbeatNext]_heartbeatVars
          /\ [CacheNext]_cacheVars /\ [PfNext]_pfVars
        BY <1>2 DEF backgroundVars
    <2>2. (CollectorInv /\ Answered /\ Shown)'
        BY <1>2, <2>1, CollectorInvStep, AnsweredStep, ShownStep DEF BackgroundInv
    <2>3. HeartbeatInv' /\ CacheInv' /\ PfInv' /\ Listings'
        BY <1>2, <2>1, HeartbeatStep_Inv, CacheStep_Inv, PfStep_Inv, ListingsStep DEF BackgroundInv
    <2> QED BY <2>2, <2>3 DEF BackgroundInv
<1>3. BackgroundInv => BackgroundTypeOK
    <2> SUFFICES ASSUME BackgroundInv PROVE BackgroundTypeOK
        OBVIOUS
    <2>1. CollectorTypeOK
        BY DEF BackgroundInv, CollectorInv, Tasks, Shown, CollectorTypeOK, DashRecord
    <2>2. HeartbeatTypeOK /\ CacheTypeOK
        BY TypesAre DEF BackgroundInv, HeartbeatInv, CacheInv
    <2>3. PfTypeOK
        BY DEF BackgroundInv, PfInv, Shapes, PortsAreHeld, Listings, PfTypeOK
    <2> QED BY <2>1, <2>2, <2>3 DEF BackgroundTypeOK
<1> QED BY <1>1, <1>2, <1>3, PTL DEF MCSpec
=============================================================================
