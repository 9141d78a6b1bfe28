------------------------------ MODULE ApiCache ------------------------------
(***************************************************************************)
(* The cache of API resources, lua/kubectl/cache.lua: what kinds a cluster *)
(* has, kept in memory for the context shown and in one file for each      *)
(* context.  It is loaded when the plugin starts, when the context has     *)
(* changed (resources/contexts/init.lua, state.lua) and when the user asks *)
(* for it.                                                                 *)
(*                                                                         *)
(* cached_api_resources is a Lua table that a change of context replaces   *)
(* and that a call under way goes on referring to; the tables have         *)
(* numbers here, and one that nothing refers to is used again.  Of a table *)
(* it is kept whose resources are in it, and whether they were read from   *)
(* the file or listed.  Changes of context overlap, with each other and     *)
(* with the kubeconfig of state.setup, as they do in ContextSwitch; of      *)
(* their clients the one the lists use is kept, CLIENT_INSTANCE.            *)
(***************************************************************************)
EXTENDS Naturals, Sequences, SequencesExt

CONSTANTS
    KubeContexts,
    NoContext,    \* no client; no file
    Unlistable,   \* contexts whose API server does not list its resources
    MaxCalls      \* bound: lists, saves, kubeconfigs and changes under way

ASSUME CacheAssumption ==
    /\ NoContext \notin KubeContexts
    /\ Unlistable \subseteq KubeContexts
    /\ MaxCalls \in Nat \ {0}

VARIABLES
    shownContext,  \* state.context["current-context"]
    base,          \* the context of BASE_CONFIG
    served,        \* the context of CLIENT_INSTANCE
    since,         \* what it has been since the cache was cleared (for the properties)
    queued,        \* init_client_async calls that have not read BASE_CONFIG
    connecting,    \* those that have: the context each one connects to
    made,          \* callbacks of those that went well
    finishing,     \* ends of change_context that are scheduled
    setups,        \* get_minified_config_async calls of state.setup: the context asked
    table,         \* M.cached_api_resources
    content,       \* what is in each table
    loading,       \* M.loading
    file,          \* api_resources/<context>.json: whose resources are in it
    lists,         \* get_api_resources_async calls under way
    saves          \* tables that are about to be saved

changeVars == <<base, served, since, queued, connecting, made, finishing>>
tableVars == <<table, content, loading, file, lists, saves>>
cacheVars == <<shownContext, setups, changeVars, tableVars>>

TableIds == 1..(MaxCalls + 2)
Entries == [of : KubeContexts, from : {"file", "list"}]
Files == SUBSET KubeContexts

CacheTypeOK ==
    /\ shownContext \in KubeContexts \cup {NoContext}
    /\ {base, served} \cup since \subseteq KubeContexts \cup {NoContext}
    /\ {queued, made, finishing} \subseteq Nat
    /\ connecting \in Seq(KubeContexts)
    /\ setups \in Seq(KubeContexts)
    /\ table \in TableIds
    /\ content \in [TableIds -> SUBSET Entries]
    /\ loading \in BOOLEAN
    /\ file \in [KubeContexts -> Files \cup {NoContext}]
    /\ lists \in Seq([table : TableIds, asked : BOOLEAN, of : KubeContexts \cup {NoContext}])
    /\ saves \in Seq(TableIds)

CacheInit ==
    /\ shownContext = NoContext
    /\ base = NoContext
    /\ served = NoContext
    /\ since = {NoContext}
    /\ queued = 0
    /\ connecting = <<>>
    /\ made = 0
    /\ finishing = 0
    /\ setups = <<>>
    /\ table = 1
    /\ content = [t \in TableIds |-> {}]
    /\ loading = FALSE
    /\ file = [c \in KubeContexts |-> NoContext]
    /\ lists = <<>>
    /\ saves = <<>>

-----------------------------------------------------------------------------
(* Tables, and the garbage collector.                                      *)

Referred == {table} \cup {lists[i].table : i \in DOMAIN lists} \cup ToSet(saves)

NewTable == CHOOSE t \in TableIds \ Referred : TRUE

(* What the tables hold after a step, but for what the step puts in. *)
Collected == [t \in TableIds |-> IF t \in Referred' THEN content[t] ELSE {}]

FromFile(c) == [of : file[c], from : {"file"}]

(* load_cache, with the table M.cached_api_resources is by now. *)
LoadCache ==
    /\ lists' = Append(lists, [table |-> table', asked |-> FALSE, of |-> NoContext])
    /\ loading' = TRUE

(* LoadFallbackData, where M.loading is `busy': the file is read if there  *)
(* is one, and the resources are listed when asked for, or when the file   *)
(* is missing or too old.  (When a file is too old is left open.)          *)
LoadFallbackData(force, busy) ==
    IF busy
    THEN UNCHANGED <<table, content, lists>> /\ loading' = TRUE
    ELSE LET there == file[shownContext'] # NoContext
         IN  /\ table' = IF there THEN NewTable ELSE table
             /\ \/ LoadCache
                \/ there /\ ~ force /\ UNCHANGED lists /\ loading' = FALSE
             /\ content' = IF there
                           THEN [Collected EXCEPT ![table'] = FromFile(shownContext')]
                           ELSE content

(* The end of a change counts twice: it begins two calls. *)
UnderWay ==
    Len(lists) + Len(saves) + Len(setups) + queued + Len(connecting) + made + 2 * finishing

(* The plugin is opened: its client is made, of the kubeconfig's current   *)
(* context, and state.setup asks for that one.                             *)
Open(c) ==
    /\ shownContext = NoContext
    /\ UnderWay = 0
    /\ base' = c
    /\ served' = c
    /\ since' = since \cup {c}
    /\ setups' = <<c>>
    /\ UNCHANGED <<shownContext, queued, connecting, made, finishing, tableVars>>

(* A callback of state.setup: the context asked for becomes the one shown, *)
(* or, if it could not be read, what is shown stays (the first one is).    *)
SetupDone(i) ==
    /\ i \in DOMAIN setups
    /\ setups' = RemoveAt(setups, i)
    /\ shownContext' \in {setups[i]} \cup ({shownContext} \ {NoContext})
    /\ UNCHANGED <<changeVars, file, saves>>
    /\ LoadFallbackData(FALSE, loading)

(* Refresh in the alias view. *)
AskForLoad ==
    /\ shownContext # NoContext
    /\ UnderWay < MaxCalls
    /\ UNCHANGED <<shownContext, setups, changeVars, file, saves>>
    /\ LoadFallbackData(TRUE, loading)

-----------------------------------------------------------------------------
(* A list of the API resources.                                            *)

(* with_client on the worker thread: the client is the one of this moment. *)
Ask(i) ==
    /\ i \in DOMAIN lists
    /\ ~ lists[i].asked
    /\ lists' = [lists EXCEPT ![i].asked = TRUE, ![i].of = served]
    /\ UNCHANGED <<shownContext, setups, changeVars, table, content, loading, file, saves>>

(* Mutant: it fills the table there is by now. *)
ListedIntoCurrent(i) ==
    /\ i \in DOMAIN lists
    /\ lists[i].asked
    /\ lists[i].of \in KubeContexts \ Unlistable
    /\ content' = [content EXCEPT ![table] = @ \cup {[of |-> lists[i].of, from |-> "list"]}]
    /\ loading' = FALSE
    /\ lists' = RemoveAt(lists, i)
    /\ saves' = Append(saves, table)
    /\ UNCHANGED <<shownContext, setups, changeVars, table, file>>

(* The callback of load_cache: it fills the table the load was begun with. *)
Listed(i) ==
    /\ i \in DOMAIN lists
    /\ lists[i].asked
    /\ lists[i].of \in KubeContexts \ Unlistable
    /\ content' = [content EXCEPT ![lists[i].table] = @ \cup {[of |-> lists[i].of, from |-> "list"]}]
    /\ loading' = FALSE
    /\ lists' = RemoveAt(lists, i)
    /\ saves' = Append(saves, lists[i].table)
    /\ UNCHANGED <<shownContext, setups, changeVars, table, file>>

(* The callback with an error, of the server or for want of a client: it   *)
(* returns, and loading stays set.                                         *)
ListFailed(i) ==
    /\ i \in DOMAIN lists
    /\ lists[i].asked
    /\ lists[i].of \in Unlistable \cup {NoContext}
    /\ lists' = RemoveAt(lists, i)
    /\ UNCHANGED <<shownContext, setups, changeVars, table, loading, file, saves>>
    /\ content' = Collected

(* Then, scheduled, the table is saved, under the name of the context that *)
(* is shown by now.                                                        *)
Save ==
    /\ saves # <<>>
    /\ saves' = Tail(saves)
    /\ file' = [file EXCEPT ![shownContext] =
          {e.of : e \in content[Head(saves)]}]
    /\ UNCHANGED <<shownContext, setups, changeVars, table, loading, lists>>
    /\ content' = Collected

(* save_file fails, and a message says so. *)
SaveFailed ==
    /\ saves # <<>>
    /\ saves' = Tail(saves)
    /\ UNCHANGED <<shownContext, setups, changeVars, table, loading, file, lists>>
    /\ content' = Collected

-----------------------------------------------------------------------------
(* A change of context, as the cache sees it.                              *)

(* The scheduled part of change_context: the name, clear_cache,            *)
(* init_runtime, which leaves no client unless the kubeconfig cannot be    *)
(* loaded, and init_client_async in either case.                           *)
ClearCache(c) ==
    /\ UnderWay + 2 <= MaxCalls
    /\ shownContext' = c
    /\ \/ base' = c /\ served' = NoContext
       \/ UNCHANGED <<base, served>>
    /\ since' = {served'}
    /\ queued' = queued + 1
    /\ table' = NewTable
    /\ UNCHANGED <<setups, connecting, made, finishing, loading, file, lists, saves>>
    /\ content' = [Collected EXCEPT ![table'] = {}]

(* init_client_async on its worker thread.  Without a BASE_CONFIG it fails. *)
ReadConfig ==
    /\ queued > 0
    /\ queued' = queued - 1
    /\ connecting' = IF base = NoContext THEN connecting ELSE Append(connecting, base)
    /\ UNCHANGED <<shownContext, setups, base, served, since, made, finishing, tableVars>>

ClientsMade(i) ==
    /\ i \in DOMAIN connecting
    /\ connecting' = RemoveAt(connecting, i)
    /\ served' = connecting[i]
    /\ since' = since \cup {served'}
    /\ made' = made + 1
    /\ UNCHANGED <<shownContext, setups, base, queued, finishing, tableVars>>

ClientsFailed(i) ==
    /\ i \in DOMAIN connecting
    /\ connecting' = RemoveAt(connecting, i)
    /\ UNCHANGED <<shownContext, setups, base, served, since, queued, made, finishing, tableVars>>

(* Its callback: init_metrics raises if there is no client any more. *)
Callback ==
    /\ made > 0
    /\ UnderWay < MaxCalls
    /\ made' = made - 1
    /\ finishing' = IF served = NoContext THEN finishing ELSE finishing + 1
    /\ UNCHANGED <<shownContext, setups, base, served, since, queued, connecting, tableVars>>

(* Mutant: loading is left as it is. *)
AnnounceKeepingLoading ==
    /\ finishing > 0
    /\ finishing' = finishing - 1
    /\ setups' = Append(setups, shownContext)
    /\ UNCHANGED <<shownContext, base, served, since, queued, connecting, made, file, saves>>
    /\ LoadFallbackData(FALSE, loading)

(* What it has scheduled: state.setup, loading = false, LoadFallbackData.  *)
Announce ==
    /\ finishing > 0
    /\ finishing' = finishing - 1
    /\ setups' = Append(setups, shownContext)
    /\ UNCHANGED <<shownContext, base, served, since, queued, connecting, made, file, saves>>
    /\ LoadFallbackData(FALSE, FALSE)

ListStep(i) == Ask(i) \/ Listed(i) \/ ListFailed(i)

SaveStep == Save \/ SaveFailed

CacheNext ==
    \/ \E c \in KubeContexts : Open(c) \/ ClearCache(c)
    \/ \E i \in 1..MaxCalls : SetupDone(i)
    \/ AskForLoad
    \/ \E i \in 1..MaxCalls : ListStep(i)
    \/ SaveStep
    \/ ReadConfig
    \/ \E i \in 1..MaxCalls : ClientsMade(i) \/ ClientsFailed(i)
    \/ Callback \/ Announce

CacheSpec == CacheInit /\ [][CacheNext]_cacheVars

(* Calls are answered, and what was scheduled after the clients were made  *)
(* runs.  (Whether they can be made is left open, and so is when; nothing  *)
(* depends on the end of state.setup and of saves.)                        *)
CacheFairness ==
    /\ WF_cacheVars(Announce)
    /\ WF_cacheVars(\E i \in 1..MaxCalls : ListStep(i))

-----------------------------------------------------------------------------

(* What the cache has from a list is of a cluster that the client has      *)
(* talked to since the last change of context: a list that was under way   *)
(* when the context changed, or is asked for while it changes, never       *)
(* brings the resources of the cluster that was left into the new cache.   *)
(* (When a change overtakes the connecting of another, that is one of two; *)
(* and the name shown may be another still, of a kubeconfig read late.     *)
(* What the cache has from the file may be of any cluster: a list that is  *)
(* answered late is saved under the context shown by then.)                *)
ListedSinceCleared == \A e \in content[table] : e.from = "list" => e.of \in since

(* Every change of context that goes through ends with something cached,   *)
(* if the server lists its resources and no other change has begun,        *)
(* whatever failed before: a load that failed leaves `loading' set for     *)
(* good, and only the end of the next change of context clears it.         *)
CacheFills ==
    (finishing > 0 /\ served \in KubeContexts \ Unlistable)
        ~> (content[table] # {} \/ queued > 0 \/ connecting # <<>>)
=============================================================================
