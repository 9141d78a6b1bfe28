# Verification of kubectl.nvim

TLA+ models of kubectl.nvim: the Rust client (`kubectl-client/src`), which runs
inside Neovim as a Lua module with a tokio runtime of its own, and the Lua
plugin (`lua/kubectl`) that drives it from the editor's main loop. The modules
are model-checked with TLC on small instances; what matters most of the core is
proved with TLAPS for every size of the system.

## The program

Three kinds of threads meet in one process.

* **The main thread** runs Lua. A callback runs to its end before the next one
  starts; in between come timers (`vim.uv.new_timer`), `vim.schedule` and the
  completions of queued work. Some Rust functions are called synchronously and
  block it (`init_runtime`, `describe_session`, `node_shell`).
* **The libuv worker threads** (four) run `commands.run_async`: a function name
  and arguments are queued, a thread calls the Rust function in a Lua state of
  its own and blocks until it is done, the callback is run by the main loop.
* **The tokio runtime** runs watcher tasks, collectors, log, describe and I/O
  tasks on its own threads.

They share process-wide Rust statics (`STORE_MAP`, `CLIENT_INSTANCE`,
`CLIENT_STREAM_INSTANCE`, `ACTIVE_CONTEXT`, `BASE_CONFIG`, `POD_STATS`,
`NODE_STATS`, `HEALTH_OK`, `PF_MAP`, `LINEAGE_TREES`, `RESOURCE_CACHE`, ...),
each behind a lock of its own. What is hard to
test is what happens between two of those locks, or between a call and its
callback.

## Inventory

| component | state | operations | talks to | what is hard | what makes it correct |
|---|---|---|---|---|---|
| reflector store (`store.rs`) | the map kind x namespace -> watcher, the store each watcher fills | start, reuse, upgrade to all namespaces, shut down one or all, get | clients, views | two workers racing on one kind, a list that never comes, `abort()` that takes effect late | one watcher per object, none outside the map, none lost but by a drain, views converge |
| clients, context switch (`lib.rs`, `client/init.lua`, `resources/contexts/init.lua`) | the statics, `state.context`, calls on worker threads | `init_runtime`, `init_client_async`, the callbacks, `change_context` | store, collectors, all views | two switches overlapping, a call that cloned the old client, a step failing, all workers hanging | both clients are of the context asked for when a switch is reported, they never disagree on the way, a switch ends in a report |
| metrics collectors (`metrics/`) | `COLLECTOR` slot, statistics, dirty flags | spawn, shut down, poll, clear | clients, dashboards | an aborted task that holds its answer | one collector, statistics of the present cluster in the end |
| dashboards (`ui/session.rs`) | open, what is drawn | open, tick, input, close | statistics, dirty flag | flag taken before the drawing | no update lost between flag and drawing, a dashboard left open shows the present usage |
| health and heartbeat (`health.rs`, `state.lua`) | `HEALTH_COLLECTOR`, `HEALTH_OK`, the header's timer | spawn, cancel, check, read | clients, header | restart after cancel, late answers | the header shows whether the server is up |
| log session (`cmd/log_session.rs`, `streaming.rs`, `views/logs`) | guards, `is_active`, channel, timers | start, stop, spawn, read, end | buffers | tasks that end while others are spawned | sessions end with their tasks and tasks with their session |
| describe session (`describe_session.rs`, `views/describe`) | poll task, channel, Lua session, loop | view, toggle, wipe, poll, show | refresh loop, Go library | loop stopped with the session open, sessions replaced | the view follows, closed sessions stop polling |
| exec, debug, node shell (`cmd/exec.rs`, `utils/terminal.lua`) | I/O tasks, pod, terminal, timer | create, wait, attach, read, write, clean up | API server | writer that waits for ever, queued callbacks, wiped terminal | the pod is released once, and not under a shell |
| refresh loop and drawing (`utils/loop.lua`, `resource_factory.lua`) | timers per buffer, draws in flight, the builder's data | start, tick, draw, stop, pause | store, workers, buffers | draws overlapping or failing, buffers hidden, context changes | a view on screen follows the store |
| API-resource cache (`cache.lua`) | resources of a context, `loading` | load, merge, clear | `get_api_resources_async` | answers that come after a context change, changes that overlap | what is listed is of a cluster talked to since the last change, every change fills it |
| port forwards (`cmd/portforward.rs`) | map id -> forward, the accept task of each, the tasks of its connections | start, list, accept, cancel, stop | stream client, the main thread that waits | connections accepted while it stops, tasks that copy for ever, the main thread blocked | what is not listed holds no port and no connection, stopping returns |
| event queue (`event_queue.rs`) | channel, callbacks by name | emit, poll, dispatch | watchers, views | callbacks replaced, timer replaced | events reach the callback registered |
| async commands (`actions/commands.lua`) | calls in flight | `run_async`, `await_all` | everything | partial failure | every call is answered once |
| row processors, sort, filter (`processors/`, `sort.rs`, `filter.rs`) | `RESOURCE_CACHE`, parsed objects by address | read, parse, build rows, filter, sort | reflector store, views | addresses used again under the reader, numbers sorted as text, statuses that hide one another | a row is of the object read, tables in order, failures show |
| lineage graph (`lineage/`, `views/lineage`) | `LINEAGE_TREES`, what was fetched, the phase of the view, loads and builds under way | load, build, store, show, refresh, close; related, impact, orphans | `run_async`, API-resource cache | loads and builds that overlap, objects without owners, edges both ways | related is the whole tree, what is used is no orphan, an impact misses no dependent, a load ends |

The rest (drift, mutating commands, drain, hover, language server, header,
statusline, mappings, configuration, logging) is single requests, layout or
tables; `PROJECT.json` gives the reason for each.

## Modules

| module | models | state and actions |
|---|---|---|
| `WatchedScopes` | what `store.rs` promises to its readers; no code of its own | `watched` and `held`: the scopes in which each kind is watched and what each scope holds. `Watch`, `Learn`, `Forget` |
| `Reflectors` | `store.rs`, `with_client`, `start_reflector_async` | `storeMap` is `STORE_MAP`, `task` the watcher tasks and the stores they fill, `call` the calls on worker threads. `StartReflector`, `ReuseReflector`, `CreateReflector`, `ReflectorReady` are the steps of one call, in the order of its locks and awaits; `List`, `WatchEvent`, `TaskEnds` those of a task; `ShutdownAll` drains. `Promised` is the refinement mapping to `WatchedScopes`. |
| `MCReflectors` | | instances, with the order the worker threads serve calls in |
| `ReflectorsProofs` | | theorems about `Reflectors`; it implements `WatchedScopes` |
| `ContextSwitch` | `change_context`, `set_implementation`, `init_runtime`, `init_client_async`, the callback of `state.setup` | EXTENDS `Reflectors`: the worker threads are the same. `DrainStore`, `LoadConfig`, `ClearClient`, `ClearStreamClient`, `QueueInit` are `init_runtime` step by step, `StartInit`, `Connect`, `StoreClient`, `StoreStreamClient` the call on the worker, `Callback` its callback and `Finish` what that schedules: `state.setup` and the report of the context shown by then. `ConfigRead` is the kubeconfig that setup asked for, which may come after the next switch has begun. |
| `MCContextSwitch` | | instances |
| `ContextSwitchProofs` | | `ContextSwitch` implements `Reflectors`; its types; the clients part only when a switch begins while the call of another connects |
| `Collectors` | `metrics/*.rs`, the dashboards of `ui/session.rs` | `StopCollectors`, `ClearStats`, `SpawnCollectors` are what a context change does; `ListMetrics` or `ListMetricsFailed`, `WriteStats`, `MarkDirty`, `PollEnds` a poll task; `TakeDirty` and `Draw`, together `Redraw`, a dashboard's tick |
| `Heartbeat` | `health.rs`, the livez timer of `state.lua` | `Connect`, `Disconnect`, `Close` are the plugin, `Tick`, `Store`, `End` the task, `CheckHealth`, `ReadHealth` the timers: the one `M.livez` refers to, and older ones that still run |
| `ApiCache` | `cache.lua`, as the setup, the context change and the alias view drive it | `table` and `content` are `cached_api_resources` and the tables that calls under way still refer to, `file` the files per context. `LoadFallbackData` is an operator its callers share (`SetupDone`, `AskForLoad`, `Announce`); `Ask`, `Listed`, `ListFailed`, `Save` are the steps of one load; `ClearCache`, `ReadConfig`, `ClientsMade` or `ClientsFailed`, `Callback`, `Announce` a change of context; changes overlap, and a kubeconfig may be read late (`SetupDone`) |
| `PortForward` | `portforward.rs` whole | `pfMap` is `PF_MAP`, `listener` who holds an address, `accepting` the accept tasks, `conns` the connections, `connTasks` the list of `JoinHandle`s. `Bind`, `Spawn`, `Insert`, `Stop`, `Stopped` are the main thread, `Accept`, `AcceptFails`, `Cancelled`, `AcceptEnds` the `select!` of an accept task, `Proceed`, `Dropped` the task of a connection |
| `MCBackground` | | `Collectors`, `Heartbeat`, `ApiCache` and `PortForward` side by side |
| `ApiCacheProofs`, `PortForwardProofs`, `BackgroundProofs` | | theorems about the cache, about port forwards, about the collectors and all four together |
| `LogSession` | `log_session.rs`, `TaskHandle` of `streaming.rs`, `views/logs/session.lua` | one action per step of a container's task and per callback of the Lua session |
| `DescribeSession` | `describe_session.rs`, `views/describe/session.lua`, the loop it uses, its framed buffer | the Lua object (`Start`, `Stop`, `Toggle`, `View`), the loop (`TimerFires`, `Callback`), the poll task (`Wake`, `Describe`, `Deliver`) |
| `NodeShell` | the node shell of `cmd/exec.rs`, `utils/terminal.lua` | the blocking call (`CreatePod`, `WaitForPodRunning`, `Attach`), the I/O tasks, the terminal's timer callback in two steps (`Drain`, `CheckOpen`) |
| `MCSessions` | | the three sessions side by side |
| `SessionsProofs` | | theorems about them |
| `ViewLoop` | `loop.lua`, `view` and `draw` of `resource_factory.lua`, what `buffers.lua` and `contexts/init.lua` do to a view | `loop` is `timers[buffer]` with its `running` flag, `draws` the `get_table_async` calls, `scheduled` the main loop's queue, `filetype` whether the buffer has got the file type that starts its loop, `data` the table the builder's draws share. `FileType`, `Tick`, `FirstDraw`, `Show`, `Clear` are callbacks of the main loop, `TimerFires` the timer, `GetTable`, `TableRead`, `TableFailed` a draw on its worker and back; `View`, `Enter`, `Leave`, `Wipe`, `DrawNow`, `SetQuery` the user; `StopAll`, `ContextChanged` the context change |
| `Processors` | `processors/*.rs`, `sort.rs`, `filter.rs`, the colours of `events.rs` | pure operators: for every kind the row of an object (`PodRow`, `EventRow`, ...), the columns it is sorted and filtered by, and `process`, the table a view gets |
| `RowReads` | `deserialize_cached` and the reading of a store in `processor.rs` | `memory` and `arcs` are the objects and who holds them, `cache` is `RESOURCE_CACHE`, `reader` the read under way. `Receive`, `Drop` the reflector, `Get`, `Parse`, `Return` the reader, `Switch` a context change |
| `MCViews` | | `ViewLoop` and `RowReads` side by side, with objects of every kind |
| `ViewProofs` | | theorems about both |
| `Lineage` | `registry.rs`, `resource_behavior.rs`, `relationships.rs`, `tree.rs`, `query.rs`, `orphan_rules.rs` | pure operators: `Handler`, the fields each kind's handler reads; `BuildTree`; `RelatedItems`, `ComputeImpact`, `ExtractSubgraph`, `IsOrphan` |
| `LineageView` | `builder.rs`, `views/lineage/graph.lua` and `init.lua`, `await_all` | `data` is what was fetched, `loads` the calls of `load_and_build`, `builds` those of the worker, `tree` the entry of `LINEAGE_TREES`. `View`, `Refresh`, `Wipe` are the user, `Fetched`, `AllFetched`, `Building` a load, `Store`, `OnGraphResult` a build |
| `MCLineage` | | an application to take parts from, and clusters that change |
| `LineageProofs` | | theorems about `Lineage` and `LineageView`; what its closures compute |

`MCBackground`, `MCSessions` and `MCViews` hold components that share no state.
A behaviour picks one of them and leaves the others at their start, so the state
space is the sum and not the product.

The rows of `Processors` keep of a text what a sort or a filter can tell apart: a
number is its digits, a word one character, and characters have the order of their
codes. A table is put in its order by rank: a row is at the place that its number
of rows ahead gives it (`InOrder`), as `sort_by`, which is stable, and `filter`
leave them. An object of `Lineage` keeps of its JSON its owners, its labels and
selector, and its references, each with the name of the field it is in, so that a
handler finds the fields it reads and no others.

Definitions named as mutants are changed copies of an action, the way a bug
would change it; they are used by no specification and show that a property can
fail.

## Runs

Passing runs. `PROJECT.json` names the properties of each.

* **`reflectors`**: one kind, two namespaces, two workers, three watcher tasks.
  Two workers are enough for every race on one key (the lock is taken once per
  call), two namespaces for "one of several" against "all", three tasks for a
  watcher that stops while its replacement and another namespace's run. No
  watcher is doubled, lost or left running; only a drain takes a view's watcher;
  and the store implements `WatchedScopes`: tasks that go on listing and watching
  after they were told to stop change nothing that a reader sees.
* **`reflectors_live`**: two clusters, one of which never lets the kind be
  listed. A start call returns when its list succeeds or its reflector is shut
  down; every view ends up with what its cluster holds.
* **`context_switch`**: two clusters, two worker threads shared with views that
  start watchers of two kinds, one cluster that never lets either be listed; the
  kubeconfig loads or does not. Two kinds, since two calls that hang need two
  watchers: with them both worker threads can hang before the switch, and again
  after the drain. `MaxPending` = 1: the user waits for a switch to end. When one
  whose kubeconfig was read is reported as loaded, both clients are of the context
  asked for; the two never disagree; once the store is drained, the switch ends in
  a report, unless all threads hang again in watchers that calls with the old
  client insert after the drain.
* **`background`**: two clusters and two collectors (one context change), one
  dashboard; or one connection of the heartbeat, its server going up and down; or
  the API resources of two contexts, of which one does not list them, with three
  lists, saves, kubeconfigs and changes of context under way together, a change
  begun while another ends included; or two starts of port forwards on one
  address, to a pod or a service, with two connections. Statistics end up those of
  the present cluster, no update is lost to a dashboard that draws, the header
  shows whether the server is up, and a list that was under way when the context
  changed never brings its resources into the new one. A forward that is not
  listed holds neither port nor connection, and stopping one returns. Finished
  tasks are dropped from the list with every connection (`KeptConns` = 1; the code
  begins at 8), the case that could lose a connection still open.
* **`sessions`**: two containers and two starts in one log buffer, a channel of
  two lines read one at a time; one describe buffer in up to two windows with
  two Rust sessions; one node shell with two callbacks waiting at most.
* **`views`**: one buffer in up to two windows, two queries, two draws under way
  (one of the loop overlapped by one the user asked for is where the shared
  table and the cleared flag matter). The view on the screen is what the store
  holds under the query set last, in the end. Two parts share the work: in
  "queries" the store stays and the query changes, in "events" the query stays and
  the store goes through three contents, one of which cannot be processed.
  Or ("changes") a store of up to two objects at two addresses that are used
  again, two versions in each of two clusters: a row is of the object it was read
  for. Or ("tables") one read of a full store of each kind, for every order and
  filter of `MCParams`: pods in every combination of two container states, an
  init container and a deletion; numbers of one and of two digits, since a sort
  key that is not padded goes wrong between 9 and 10.
* **`lineage`**: in "shapes" every part of an application (a Deployment with its
  ReplicaSet and Pods, a static Pod, configuration, storage and rights) beside a
  few objects that are always there, so that owners and targets are missing in
  every combination: 1024 trees. In "reload" a Pod that mounts a ConfigMap, or
  does not, two loads, one change of the cluster, calls that fail: every load ends
  in a graph, an error or a closed view.

Runs that show a disagreement between the code and what it says of itself; the
`findings` of `PROJECT.json` quote the lines.

* **`overtaken_reflector`**: a `start_reflector` call that has cloned the old
  client before a switch, whose kubeconfig loads and which is reported, inserts
  its watcher after the store was drained; the new context is served from the old
  cluster until the view is started again by another switch.
* **`frozen_heartbeat`**: the health task is kept in a `OnceLock`, so the first
  context change stops it for good and the header keeps the last answer.
* **`lineage_refresh`**: a refresh fetches all again and puts it after what was
  there; the tree keeps the first object of each key, so the graph shows the old
  ones, and those deleted since.
* **`frozen_view`**: a context change starts the loop of a buffer that no window
  shows; its draw finds no window and leaves `running` set, so the view is not
  refreshed when it is shown again.
* **`describe_leak`**: the callback that would clean up after a wiped describe
  buffer belongs to a loop that wiping has stopped; its session polls on.

Other divergences met while modelling, which the passing properties leave out
or step around, as their comments say:

* Two switches under way together: the clients of the one that connects last
  win, whichever context is shown, and for a while the two clients may be of two
  clusters (`lib.rs:170`). `MaxPending` = 2 shows it.
* The kubeconfig asked for after one switch may be stored after the next one has
  begun (`state.lua:102`): the Lua side then names the context that was left, and
  it is that name which is announced (`contexts/init.lua:152`), while the clients
  are of the one asked for. `ReportedIsServed` speaks of the latter.
* A switch never ends when, after the drain, as many calls as there are worker
  threads go on with the client they cloned before it and hang in watchers of a
  cluster that does not list; `SwitchSettles` names the case (`Hangs`).
* A kubeconfig that does not load: `set_implementation` ignores the failure of
  `init_runtime` and announces the context (`client/init.lua:13`).
* Two dashboards share one dirty flag: the one whose tick comes second does not
  redraw (`metrics/mod.rs:22`). Two dashboards in `Background.cfg` show it.
* A collector that holds its answer when it is aborted writes the old cluster's
  statistics after they were cleared (`lib.rs:188`), until the next poll.
* A log session that ended by itself and is started again before its timer has
  noticed leaves that timer running (`views/logs/session.lua:117`).
* A second resource in an open describe buffer is described with the arguments
  of the first; a refresh that finds no open session is never marked finished
  (`views/describe/session.lua:90,163`).
* An error after `pods.create` leaves the node shell's pod (`exec.rs:500`).
* A draw that fails leaves `running` set, and the loop draws no more until the
  view is drawn some other way (`resource_factory.lua:327`); the view of API
  resources has a draw of its own that never clears it
  (`resources/api-resources/init.lua:35`). `ViewCatchesUp` supposes rows that can
  be processed.
* The file type of a new buffer is set in a callback that first touches the window
  the buffer came in; when that has closed by then, it raises an error, and the
  view has neither file type nor loop in whatever window it is shown later
  (`buffers.lua:433`). Nor has one whose file type is set while no window shows it.
* A draw of a loop that was stopped and started again meanwhile does write:
  `is_cancelled()` asks for the loop of the buffer, not for its own (`loop.lua:36`).
* Each setup starts a timer for the header and forgets the one before
  (`state.lua:148`); closing the plugin stops the last one only.
* `:quit` in one of two windows that show a view stops the loop of both
  (`QuitPre`, `loop.lua`); `ViewCatchesUp` supposes the loop is there.
* A list of API resources answered after a context change is saved under the name
  of the context shown by then, so that file holds another cluster's resources
  (`cache.lua:85`); `ListedSinceCleared` is about lists, not about files. When two
  changes of context overlap, the lists in the cache may be of either cluster, and
  the name shown of the other.
* A list that fails leaves `loading` set, and a refresh asked for does nothing
  until the context changes (`cache.lua:66`).
* An entry for all namespaces answers for a namespace as soon as it is in the
  map, before it has listed anything (`store.rs:81`); the key of an entry is the
  kind without its API group (`store.rs:76`).
* The first task of a log session may end before the second is spawned: the
  session is inactive with tasks to come (`log_session.rs:374`).
* The terminal's last chunk may be sent between its last empty read and its look
  at whether the session is open (`terminal.lua:31`).
* Rows: ages, addresses and times last seen are sorted by digits that are not
  padded (`ColumnsOf`, its "plain" columns); the sort key of "ready", 1001 times
  the available ones and the replicas, mixes up workloads above 1000 replicas; a
  StatefulSet shows available of ready replicas, not of those desired; a Job
  without completions reads n/0; the filter of ConfigMaps names a column that rows
  do not have; the columns of an unknown kind and some of Ingress and
  HorizontalPodAutoscaler have no number to be sorted by; a pattern of "!" alone
  hides every row; a pod that is deleted while an init container runs shows the
  latter. `TableInOrder` speaks of padded columns, `FailureShows` says which
  container may hide which.
* A read under way when the context is switched may put a version of the old
  cluster into the emptied cache of parsed objects, under an address and version
  that the new one may use; `RowIsOfObject` leaves such a read out (`mixed`).
  Nothing else ever leaves that cache (`processor.rs:34`).
* Lineage: builds that overlap may leave in `LINEAGE_TREES` an older tree than the
  graph shows; a view closed and opened again for the same resource has its
  graph and shows "No graph available"; nothing clears what was fetched when the
  context changes; kinds of the same name in two API groups share a key; a cycle
  of owners would not end `ancestors`; `await_all` with no command never answers.
  What a handler cannot read (`typed` is FALSE) refers to nothing, so that what
  only such an object uses is called an orphan.
* `README.md:307` gives an interval of 300 ms, `config.lua:76` 500.

## Fairness

Weak fairness is given to steps the program schedules itself: the main loop's
queued callbacks and timers, the runtime's ready tasks, a worker thread with a
call in hand. Connections and lists carry a read timeout, so an attempt ends
(`lib.rs`); a list that is refused for ever is a constant of the model
(`Unwatchable`), not a matter of fairness. `DescribeSession` assumes strong
fairness of two steps that are possible again and again rather than for good: a
describe that may fail now and then, and a refresh put off while an LSP float is
open. Nothing is assumed of the user, of changes to the cluster, of pods that end
or connections that break. `PortForward` assumes strong fairness of the
cancellation alone: `select!` takes a ready branch at random, so that a task that
accepts again and again takes it some time; no peer is made to speak or to hang
up. `LineageView` assumes that a call is answered or fails and that its callback
runs; nothing of the user or the cluster. A property that speaks of a value
becoming stable says so in its hypothesis (`UsageLeftAlone`, `ContentLeftAlone`,
`LeftAlone`). `ViewLoop` gives it to the main loop, the timer and the workers that
read tables; `ApiCache` to lists and to what is scheduled after the clients were
made; `Collectors` to polls that ask again until the metrics API answers (the
failures in between are `ListMetricsFailed`). The components that share a run are
quiet at their start, so the fairness of one asks nothing of a behaviour that is
about another.

## Proofs

`ReflectorsProofs` proves of `Reflectors`, for any kinds, namespaces, clusters,
workers and watcher tasks:

* `TypeCorrect`: `Spec => []TypeOK`.
* `MapAgrees`: the inductive invariant, `MapSound`. That no two running watchers
  list the same object is not inductive by itself: it follows from three facts
  about the map together. The running tasks are those the map points to; each is
  of the key it is stored under; a key of all namespaces excludes the kind's other
  keys. A step that inserts needs the second to know what it displaces and the
  third to know it displaces enough. Each action is one step of the proof.
* `OneWatcher`: `Spec => []OneWatcherPerObject`, from the invariant.
* `CoverageIsKept`: the action property `CoverageKept`: no step but a drain of
  the whole store takes a served kind and namespace away.
* `StoreKeepsPromise`: `Spec => WatchesScopes`. The mapping reads the map and, of
  the stores, only those of tasks in it. A task lists what lies in its key
  (`TasksHoldTheirOwn`), so a step of a task in the map is `Learn`, and one of a
  stopping task a stutter, since by `MapAgrees` it is not in the map.
  `CreateReflector` is `Watch`, or a stutter when the entry is there by then.

`ContextSwitchProofs` proves that every behaviour of `ContextSwitch` is one of
`Reflectors` (`SwitchUsesStore`): each step of the composition is a step of the
store or leaves it alone, which needs that a call only carries the configuration
of a context (`CallTypesStable`). `SwitchKeepsOneWatcher` and
`SwitchKeepsPromise` carry the results across context changes in any number and
overlap, and `SwitchTypesCorrect` the types: that `pending` and `answers` stay
within the bound needs the number of switches under way, wherever each is, to be
within it (`Counted`).

`ClientsPartOnlyOverCall` says when the two clients can come to disagree at all:
only when `init_runtime` of one switch runs while `init_client_async` of another
does (`NoSwitchOverCall` is the negation, a condition on behaviours and not on the
constants). Switches may be queued, wait for threads, connect together and fail in
any number; so may views, worker threads, contexts and clusters. Nothing in the
code rules such an overlap out, and with it `ClientsAgree` does fail (see above).
`NoOldClientIsLeft` says under the same condition that no client of an earlier
configuration is left when `init_runtime` is done. The invariant (`InTurn`): a
client is of the configuration loaded last, but while `init_runtime` drops those
of the one before (`ClientsOfConfig`), and what a call carries is that
configuration (`Connected`).

The other components have an invariant each, of which the property is a part or
a consequence:

* `BackgroundProofs`, `OnlyOneCollects`: a running poll task is the one in the
  slot. `NothingIsMissed`: a task that has written raises the flag, told to stop or
  not (`MarkingStays`), and a flag taken is followed by a drawing. For any clusters
  and polls; the latter for a dashboard that shares its flag with no other.
  `BackgroundTypesCorrect` is the
  type invariant of the four components together. It is not inductive as it stands:
  statistics are written of an answer, so a task that has listed holds one
  (`Answered`); a cancelled health task has a cluster, because one that ticks or
  checks has (`Going`); what is listed in `PF_MAP` was given an id below the
  counter, because the id in the main thread's hands was (`Listings`); a table
  that is free for the cache exists (`FreshTable`).
* `PortForwardProofs`, `UnlistedHoldsNothing`: who answers for a port and for a
  connection at each moment. A bound address is of a task that accepts or is about
  to be spawned; a connection in the backlog is of such a one; a connection whose
  task runs is in the list of a live accept task (which is what `Retain` must
  keep); a live accept task is listed or in the hands of the main thread. For any
  addresses, targets and connections, and any number of tasks kept.
* `ApiCacheProofs`, `ListedStaysSinceCleared`: a call that refers to the table of
  now and was asked, was asked of a client there has been since the table was made.
  A change of context makes a table nothing refers to, and there always is one
  (`FreshTable` counts them). For any contexts, overlapping changes and bound on
  calls. `OneClusterListed`: when no change of context begins while the clients of
  another are connected, that client is one and the present one (`OneClient`).
* `SessionsProofs`, `NoSessionUnfed` and `OneSessionOpen`: `active_task_count`
  is the number of guards alive, so the task that finds it at one is the last;
  an open session has a task alive or about to close it, and was made last. For
  any containers and number of starts. `PodDeletedOnce`: the deletion is asked for
  with `cleanedUp`, which is set once, and only when `is_active` was cleared by a
  task that had found the end of the streams. For any number of callbacks and
  chunks. `SessionTypesCorrect`: the types of the three sessions, which need that
  timers are no more than starts already made, that a describe channel is a
  sequence, and that the guards of a shell are its waiting tasks.
* `ViewProofs`, `ViewTypesCorrect`: the types of a view. For any rows, queries,
  windows and draws.
* `ViewProofs`, `RowsAreOfTheirObjects`: in all that the cluster, the memory and
  the cache hold, a resource version stands for one object, as long as no read was
  under way in a switch (`OneCluster`; the switch empties the cache, which is
  needed). What is found in the cache under an address, with the version that lies
  there, is thus what lies there, whoever had the address before; and what the
  reader holds is not moved until it returns (`Kept`, `ParsedIsHeld`). For any
  objects that carry the time they were created, addresses, versions and clusters.
* `ViewProofs`, `PaddedKeysInOrder`: two keys made by `pad_key` are in the order of
  the text exactly when the numbers are in order, for any two numbers of at most
  20 digits, which is what a `usize` of 64 bits has and the width of `{:020}`. The
  digits of a number are those of its tens and the last (`DigitsOf`); of two padded
  numbers the lower has the lower digit where they first differ (`PaddedLower`, by
  the width, from the tens).
* `ViewProofs`, `SortIsStable`: the model's order of rows is a strict total one
  (`RowOrderIsOrder`: two texts are the same or differ first at one place,
  `BelowDecides`), so that the row at place k is the one with k - 1 ahead of it
  (`InOrderIsOrder`), which gives each row one place. For any rows whose keys are
  texts, whatever the column and direction.
* `ViewProofs`, `TablesAreInOrder`: besides `RowInv` the invariant says that what a
  read has parsed is of the kind's objects (`ReadKnown`) and that what is shown is
  the table of rows built for objects of the kind (`TableOfRead`, `TableInv`);
  `TableInOrder` alone says nothing of the read that makes the next table. A
  padded column of a kind is never one sorted as text, and does not hang on the
  rows (`PaddedColumns`); its keys are in the order of its numbers
  (`PaddedKeysInOrder`); filtering keeps the order of what it keeps
  (`SelectedPlaces`), and the places of a pattern and of its negation are each
  other's complement (`PatternShares`).
* `ViewProofs`, `FailuresShow`: the invariant is the same. What a Pod says of an
  init container is longer than any word of the lists, so it has no colour, and one
  that fails says something (`InitsSayLong`); of the containers the one furthest
  ahead that says something gives the status, and what it says is in the colour of
  health only when it has completed (`SaysWhatIs`), whether "Running" is put in its
  place or not. For any Pods, with any number of containers.

`LineageProofs` is about what the recursive operators of `Lineage` compute, for
any finite set of objects. They are recursive functions over the natural numbers
or folds over a set, so the proofs need induction over data. The induction
theorems of the library take the formula as an operator, which the provers cannot
instantiate; their place is taken by least members, which the library has for
sets without an operator: a nonempty set of naturals has a least one
(`LeastNumber`), hence a set of naturals that has 0 and with each its successor
has them all (`SetInduction`); a nonempty family of subsets of a finite set has a
smallest one (`SmallestMember`), and a largest. From these: the recursive function
exists, and what it computes is the least set closed under its step (`Closure`,
`ClosureExists`); a set that is put in some order by a fold becomes a sequence
of its members (`InSomeOrderIsSequence`). The theorems about tables rest on
`LeastNumber` in the same way.

* `ImpactIsWhole`: the search of `compute_impact` ends in a closed set, so it takes
  in what refers to an object, and what these own at any depth.
* `RelatedIsWhole`: for objects whose chains of owners have no cycle
  (`OwnersComeFirst`), which Kubernetes does not promise but its garbage collector
  supposes; with a cycle `ancestors` would not end, in the model as in the code.
  Every node is reached from the root, by descent along chains of owners; the
  related objects of a node are those below the child of the root it is under.
* `UsedIsNeverOrphan`: what a Pod refers to has an edge from a Pod, and each rule
  for the four kinds looks for one. It holds of every tree that can be built,
  whatever the state.
* `LineageTypesCorrect`: what is fetched and built stays a finite list of objects
  of the cluster, by which the three theorems apply to whatever is stored.
* `ReadyHasGraph`: a view that is ready has a graph, one that loads, builds or has
  failed has none, and a graph is of a build that stored a tree (`PhaseFitsGraph`,
  with `StoredIsThere`: what is stored and not yet reported is of some objects).
  It is why `View` of the model needs no rebuild of its own: the branch of
  `init.lua` that calls `rebuild_graph` asks for the same resource, "ready",
  without a graph.

The assumptions are those named in the modules: `All` is no namespace, `NoTask` no
task, `NoClient`, `NoContext`, `NoForward` and `Nothing` none of theirs,
containers are finitely many, a cluster's objects are finitely many and of kinds
it has, bounds are natural numbers. Of tables, `TableAssumption`: what a view asks
for has the fields of `FilterParams`, and the number of a field is a `usize`,
which has at most 20 digits (`FieldValue`); `NoTree` is no number. Of Pods,
`PodAssumption`: words are distinct and there are those that `pod.rs` writes;
lists are sequences; a Pod with statuses of init containers has init containers; a
container that waits is not ready, and a reason in the colour of health is
"Completed", of one that has ended (a runtime gives no other; a Pod whose
container waits for a reason called "Running" would be shown as healthy); exit
codes and signals are natural numbers, which negative ones of other platforms
would not be.

Only model-checked:

* liveness (`CallReturns`, `ViewsConverge`, `SwitchSettles`, `CacheFills`,
  `LoadEnds`, ...), which the prover does not reach;
* `ReportedIsServed`, with one switch at a time, which the code does not enforce:
  for any number it is false. Every other invariant and action property that a
  passing run checks is proved;
* the properties of the runs that expect a violation, which are false.

## Bounds

Every `Max...` constant names a bound the code does not have: sessions made, lines
or texts or chunks in a channel, callbacks waiting for the main loop, switches
under way, connections. A full channel makes its sender wait in the model where
the code would go on; the properties speak of order and ends, not of the number
waiting. `MaxDraws` holds draws asked for and begun, `MaxWindows` and `MaxBuffers`
the windows and successive buffers of a view, `MaxCalls` the lists, saves,
kubeconfigs and changes of context of the cache; one blanking of a buffer by
`clear_buffers` is queued at a time. Sets of watcher tasks and polls are finite
and not reused, which bounds how often a behaviour restarts them. `MaxForwards`
counts the ids port forwards ever get, `Peers` the connections ever made;
`MaxLoads` and `MaxChanges` the loads of a lineage view and the changes of its
cluster, `MaxVersions` and `MaxClusters` the changes and clusters behind a table.
Two of each are the fewest for one to overlap with another, an address to be used
again, or an old answer to come after a new one.

Lines, objects and descriptions are counted or are model values; formatting,
layout and key handling are left out throughout.

## Not modelled

* The event queue and its callbacks by name: what depends on the moment an event
  is delivered is checked for any moment (`ViewsConverge`, `ViewCatchesUp`).
* The history of samples, the widgets and keys of dashboards, the wording of
  hover texts, statuses and the drawing of the lineage tree: layout and text.
* The opening calls of exec and debug; they use the I/O tasks and the terminal of
  `NodeShell` and keep no pod.
* A change of context while the lineage view is open; the view's own wait for
  `cache.loading`.
* Mutating commands, drift, drain: single requests, or a library's logic (drain
  and describe are Go code of kubectl called through C).
* `PROJECT.json` gives for each component what is left out, and why.

## Plan

1. *Done*: `Reflectors` with its abstract `WatchedScopes`, `ContextSwitch` over
   it, `Collectors`, `Heartbeat`, `ApiCache`, `PortForward`, `LogSession`,
   `DescribeSession`, `NodeShell`, `ViewLoop`, `Processors`, `RowReads`,
   `Lineage`, `LineageView`, with the theorems above.
2. An abstract view ("what is on the screen was read from the store under some
   query") that `ViewLoop` implements.
3. A second resource in `DescribeSession` (`session.lua:163`), the saved session,
   a context change in `LineageView`.
4. Proofs: what `LINEAGE_TREES` and a graph owe each other when builds overlap.
