------------------------------ MODULE ViewLoop ------------------------------
(***************************************************************************)
(* One resource view: the refresh loop of lua/kubectl/utils/loop.lua, the  *)
(* view and draw methods of resource_factory.lua, and the buffer they      *)
(* write.                                                                  *)
(*                                                                         *)
(* A draw takes the filter, namespace and sorting of the moment it is      *)
(* asked for (its query), a worker thread reads the store some time later, *)
(* its callback leaves the table in the builder, which all draws of the    *)
(* view share, and schedules the writing of the buffer.  The loop draws    *)
(* with a token that tells whether the loop of its buffer has been         *)
(* stopped; draws the user asks for have none.                             *)
(*                                                                         *)
(* Other draws may be under way at the same time: the loop holds back its  *)
(* own while `running' is set, and every draw that is written clears it.   *)
(***************************************************************************)
EXTENDS Naturals, Sequences, SequencesExt

CONSTANTS
    Queries,        \* what the user may filter, sort and narrow a view by
    Rows,           \* what the store may hold for the kind
    Unprocessable,  \* rows the processor fails on: one object of a bad shape is enough
    Nothing,        \* no table: nothing read, nothing on the screen
    AutoRefresh,    \* config.options.auto_refresh.enabled
    MaxBuffers,     \* bound: buffers made for the view, one after the other
    MaxWindows,     \* bound: windows that show it
    MaxDraws        \* bound: draws under way, those asked for and not begun included

ASSUME ViewAssumption ==
    /\ Unprocessable \subseteq Rows
    /\ Nothing \notin Rows \cup [query : Queries, rows : Rows]
    /\ AutoRefresh \in BOOLEAN
    /\ {MaxBuffers, MaxWindows, MaxDraws} \subseteq Nat \ {0}

Tables == [query : Queries, rows : Rows \ Unprocessable]

NoToken == 0

VARIABLES
    query,      \* state.ns, state.filter, state.sortby
    store,      \* what the store holds
    switching,  \* a change of context is under way
    buffer,     \* builder.buf_nr, 0 before the first view
    valid,      \* that buffer exists
    filetype,   \* its file type: awaited, set, or lost with the window it came in
    windows,    \* how many windows show it
    hooked,     \* the autocommands of start_loop_for_buffer are there
    loop,       \* timers[buffer]: "off", or its running flag
    lspFloat,   \* an LSP float is open
    opening,    \* start_reflector_async calls of view under way
    draws,      \* get_table_async calls under way
    scheduled,  \* what vim.schedule has queued for the main loop
    data,       \* builder.data
    screen      \* what the buffer shows

viewVars == <<query, store, switching, buffer, valid, filetype, windows, hooked, loop, lspFloat,
              opening, draws, scheduled, data, screen>>

userVars == <<query, switching, lspFloat>>
bufferVars == <<buffer, valid, filetype, windows, hooked>>

Tokens == NoToken..MaxBuffers

Callbacks == [do : {"filetype", "tick", "draw", "show", "clear"}, token : Tokens]

ViewTypeOK ==
    /\ query \in Queries
    /\ store \in Rows
    /\ switching \in BOOLEAN
    /\ buffer \in 0..MaxBuffers
    /\ valid \in BOOLEAN
    /\ filetype \in {"awaited", "set", "lost"}
    /\ windows \in 0..MaxWindows
    /\ hooked \in BOOLEAN
    /\ loop \in {"off", "idle", "running"}
    /\ lspFloat \in BOOLEAN
    /\ opening \in 0..MaxDraws
    /\ draws \in Seq([token : Tokens, query : Queries, rows : Rows \cup {Nothing}])
    /\ scheduled \in Seq(Callbacks)
    /\ data \in Tables \cup {Nothing}
    /\ screen \in Tables \cup {Nothing}

ViewInit ==
    /\ query \in Queries
    /\ store \in Rows
    /\ switching = FALSE
    /\ buffer = 0
    /\ valid = FALSE
    /\ filetype = "awaited"
    /\ windows = 0
    /\ hooked = FALSE
    /\ loop = "off"
    /\ lspFloat = FALSE
    /\ opening = 0
    /\ draws = <<>>
    /\ scheduled = <<>>
    /\ data = Nothing
    /\ screen = Nothing

-----------------------------------------------------------------------------
(* The loop of the view's buffer.                                          *)

(* start_loop_for_buffer: nothing if there is a loop already. *)
StartLoop ==
    /\ loop' = IF loop = "off" THEN "idle" ELSE loop
    /\ hooked' = TRUE

(* The token of a draw of the loop, is_cancelled(): its buffer's loop is    *)
(* not there.  The loop of a buffer that was replaced never is.            *)
Cancelled(token) == token # NoToken /\ (token # buffer \/ loop = "off")

(* loop.set_running(builder.buf_nr, false) *)
Ended == IF loop = "off" THEN "off" ELSE "idle"

-----------------------------------------------------------------------------
(* Draws.                                                                  *)

Begins(c) == c.do \in {"tick", "draw", "show"}

DrawRoom == Len(draws) + Len(SelectSeq(scheduled, Begins)) + opening < MaxDraws

(* builder.draw: the arguments are taken now. *)
Draw(token) ==
    draws' = Append(draws, [token |-> token, query |-> query, rows |-> Nothing])

(* get_table on a worker thread: the store as it is now.  A kind without a *)
(* reflector gives an empty table (unwrap_or_default).                     *)
GetTable(i) ==
    /\ i \in DOMAIN draws
    /\ draws[i].rows = Nothing
    /\ draws' = [draws EXCEPT ![i].rows = store]
    /\ UNCHANGED <<userVars, store, bufferVars, loop, opening, scheduled, data, screen>>

(* The callback of draw, with a table. *)
TableRead(i) ==
    /\ i \in DOMAIN draws
    /\ draws[i].rows \in Rows \ Unprocessable
    /\ data' = [query |-> draws[i].query, rows |-> draws[i].rows]
    /\ scheduled' = Append(scheduled, [do |-> "show", token |-> draws[i].token])
    /\ draws' = RemoveAt(draws, i)
    /\ UNCHANGED <<userVars, store, bufferVars, loop, opening, screen>>

(* The callback of draw, with an error: it returns and clears nothing. *)
TableFailed(i) ==
    /\ i \in DOMAIN draws
    /\ draws[i].rows \in Unprocessable
    /\ draws' = RemoveAt(draws, i)
    /\ UNCHANGED <<userVars, store, bufferVars, loop, opening, scheduled, data, screen>>

-----------------------------------------------------------------------------
(* What vim.schedule has queued, one after the other.                      *)

IsNext(do) == scheduled # <<>> /\ Head(scheduled).do = do

Dequeue == scheduled' = Tail(scheduled)

(* The options of the window a new buffer came in, which raises an error   *)
(* when it has been closed; then the file type of the buffer.  The         *)
(* autocommand of that starts the loop where it runs in a window that is   *)
(* no float.  (For a buffer that no window of the tab page shows the       *)
(* editor runs it in a float of its own.)                                  *)
FileType(inFloat) ==
    /\ IsNext("filetype")
    /\ Dequeue
    /\ windows = 0 => inFloat
    /\ IF valid /\ Head(scheduled).token = buffer /\ filetype = "awaited"
       THEN /\ filetype' = "set"
            /\ IF ~ inFloat /\ AutoRefresh THEN StartLoop ELSE UNCHANGED <<loop, hooked>>
       ELSE UNCHANGED <<filetype, loop, hooked>>
    /\ UNCHANGED <<userVars, store, buffer, valid, windows, opening, draws, data, screen>>

(* The loop's callback: an LSP float puts the refresh off (and when the    *)
(* loop is gone by then, that raises an error and changes nothing).        *)
Tick ==
    /\ IsNext("tick")
    /\ Dequeue
    /\ IF lspFloat
       THEN /\ loop' = IF Head(scheduled).token = buffer THEN Ended ELSE loop
            /\ UNCHANGED draws
       ELSE /\ Draw(Head(scheduled).token)
            /\ UNCHANGED loop
    /\ UNCHANGED <<userVars, store, bufferVars, opening, data, screen>>

(* The rest of view: its reflector is ready. *)
FirstDraw ==
    /\ IsNext("draw")
    /\ Dequeue
    /\ IF valid THEN Draw(NoToken) ELSE UNCHANGED draws
    /\ UNCHANGED <<userVars, store, bufferVars, loop, opening, data, screen>>

(* Mutant: the flag is not cleared. *)
ShowUnended ==
    /\ IsNext("show")
    /\ Dequeue
    /\ screen' = IF windows = 0 \/ Cancelled(Head(scheduled).token) THEN screen ELSE data
    /\ UNCHANGED <<userVars, store, bufferVars, loop, opening, draws, data>>

(* The rest of draw: it writes what the builder holds by now, and the next *)
(* refresh may come.  With no window it returns before that.               *)
Show ==
    /\ IsNext("show")
    /\ Dequeue
    /\ IF windows = 0
       THEN UNCHANGED <<loop, screen>>
       ELSE /\ screen' = IF Cancelled(Head(scheduled).token) THEN screen ELSE data
            /\ loop' = Ended
    /\ UNCHANGED <<userVars, store, bufferVars, opening, draws, data>>

(* clear_buffers: "Loading new context". *)
Clear ==
    /\ IsNext("clear")
    /\ Dequeue
    /\ screen' = IF valid /\ Head(scheduled).token = buffer THEN Nothing ELSE screen
    /\ UNCHANGED <<userVars, store, bufferVars, loop, opening, draws, data>>

(* The timer: the flag is set until the refresh is written or put off. *)
TimerFires ==
    /\ loop = "idle"
    /\ DrawRoom
    /\ loop' = "running"
    /\ scheduled' = Append(scheduled, [do |-> "tick", token |-> buffer])
    /\ UNCHANGED <<userVars, store, bufferVars, opening, draws, data, screen>>

-----------------------------------------------------------------------------
(* The user.                                                               *)

(* BufEnter starts the loop again, where it has been started before. *)
Entered == IF hooked THEN StartLoop ELSE UNCHANGED <<loop, hooked>>

(* builder.view: a new buffer if there is none, shown in the current       *)
(* window, and a call that starts the reflector.  BufEnter comes only when *)
(* that window did not show the buffer already.                            *)
View ==
    /\ DrawRoom
    /\ opening < MaxDraws - 1
    /\ opening' = opening + 1
    /\ \/ /\ ~ valid
          /\ buffer < MaxBuffers
          /\ buffer' = buffer + 1
          /\ valid' = TRUE
          /\ filetype' = "awaited"
          /\ windows' = 1
          /\ hooked' = FALSE
          /\ loop' = "off"
          /\ screen' = Nothing
          /\ scheduled' = Append(scheduled, [do |-> "filetype", token |-> buffer'])
       \/ /\ valid
          /\ \/ /\ windows < MaxWindows
                /\ windows' = windows + 1
                /\ Entered
             \/ /\ windows > 0
                /\ UNCHANGED <<windows, loop, hooked>>
          /\ UNCHANGED <<buffer, valid, filetype, screen, scheduled>>
    /\ UNCHANGED <<userVars, store, draws, data>>

(* The callback of start_reflector_async. *)
ReflectorReady ==
    /\ opening > 0
    /\ opening' = opening - 1
    /\ scheduled' = Append(scheduled, [do |-> "draw", token |-> NoToken])
    /\ UNCHANGED <<userVars, store, bufferVars, loop, draws, data, screen>>

ReflectorFailed ==
    /\ opening > 0
    /\ opening' = opening - 1
    /\ UNCHANGED <<userVars, store, bufferVars, loop, draws, scheduled, data, screen>>

(* Sorting, selecting and Redraw draw at once. *)
DrawNow ==
    /\ windows > 0
    /\ DrawRoom
    /\ query' \in Queries
    /\ draws' = Append(draws, [token |-> NoToken, query |-> query', rows |-> Nothing])
    /\ UNCHANGED <<store, switching, lspFloat, bufferVars, loop, opening, scheduled, data, screen>>

(* A filter or namespace set from a float; the refresh that follows is a   *)
(* View, and may come in another window.                                   *)
SetQuery ==
    /\ query' \in Queries \ {query}
    /\ UNCHANGED <<store, switching, lspFloat, bufferVars, loop, opening, draws, scheduled,
                   data, screen>>

(* The user comes to the buffer from another one, in a window of its own   *)
(* or in one that shows it.                                                *)
Enter ==
    /\ valid
    /\ windows' \in {windows, windows + 1} \ {0, MaxWindows + 1}
    /\ Entered
    /\ UNCHANGED <<userVars, store, buffer, valid, filetype, opening, draws, scheduled, data, screen>>

(* What becomes of a file type that is awaited when a window closes: it is *)
(* lost if that is the window the buffer came in.                          *)
FileTypeLeft(how) ==
    IF filetype = "awaited" /\ how # "hides" THEN {"awaited", "lost"} ELSE {filetype}

(* Mutant: a window closes twice. *)
LeaveTwice(how) ==
    /\ windows > 0
    /\ windows' = windows - 2
    /\ filetype' \in FileTypeLeft(how)
    /\ loop' = IF how = "quits" \/ windows' <= 0 THEN "off" ELSE loop
    /\ UNCHANGED <<userVars, store, buffer, valid, hooked, opening, draws, scheduled, data, screen>>

(* A window closes or shows something else.  The last one hides the buffer *)
(* (BufHidden), and :quit stops the loop whether others show it or not     *)
(* (QuitPre).                                                              *)
Leave(how) ==
    /\ windows > 0
    /\ windows' = windows - 1
    /\ filetype' \in FileTypeLeft(how)
    /\ loop' = IF how = "quits" \/ windows' = 0 THEN "off" ELSE loop
    /\ UNCHANGED <<userVars, store, buffer, valid, hooked, opening, draws, scheduled, data, screen>>

(* The buffer is deleted, and its windows show something else. *)
DeleteBuffer ==
    /\ valid' = FALSE
    /\ filetype' = "awaited"
    /\ windows' = 0
    /\ hooked' = FALSE

Wipe ==
    /\ valid
    /\ DeleteBuffer
    /\ loop' = "off"
    /\ UNCHANGED <<userVars, store, buffer, opening, draws, scheduled, data, screen>>

ToggleFloat ==
    /\ lspFloat' = ~ lspFloat
    /\ UNCHANGED <<query, store, switching, bufferVars, loop, opening, draws, scheduled, data, screen>>

-----------------------------------------------------------------------------
(* A change of context, and the watchers.                                  *)

(* change_context: stop_all, and clear_buffers.  Of the buffers with the   *)
(* file type of a view it deletes those that no window of the current tab  *)
(* page shows, and blanks the others.  (Bound: one such blanking is        *)
(* queued; one for each window does the same.)                             *)
StopAll ==
    /\ ~ switching
    /\ \A i \in DOMAIN scheduled : scheduled[i].do # "clear"
    /\ switching' = TRUE
    /\ loop' = "off"
    /\ \/ /\ valid /\ filetype = "set"
          /\ DeleteBuffer
          /\ UNCHANGED scheduled
       \/ /\ valid /\ filetype = "set" /\ windows > 0
          /\ scheduled' = Append(scheduled, [do |-> "clear", token |-> buffer])
          /\ UNCHANGED <<valid, filetype, windows, hooked>>
       \/ /\ ~ (valid /\ filetype = "set")
          /\ UNCHANGED <<valid, filetype, windows, hooked, scheduled>>
    /\ UNCHANGED <<query, store, lspFloat, buffer, opening, draws, data, screen>>

(* K8sContextChanged starts the loop of every buffer that is still there,  *)
(* shown or not.  The store was drained.                                   *)
ContextChanged ==
    /\ switching
    /\ switching' = FALSE
    /\ Entered
    /\ UNCHANGED <<query, store, lspFloat, buffer, valid, filetype, windows, opening, draws,
                   scheduled, data, screen>>

(* The clients of the new context cannot be made. *)
ContextFailed ==
    /\ switching
    /\ switching' = FALSE
    /\ UNCHANGED <<query, store, lspFloat, bufferVars, loop, opening, draws, scheduled, data, screen>>

(* A watch event, a list, or the drain of a context change. *)
StoreChanges ==
    /\ store' \in Rows \ {store}
    /\ UNCHANGED <<userVars, bufferVars, loop, opening, draws, scheduled, data, screen>>

MainLoop == (\E inFloat \in BOOLEAN : FileType(inFloat)) \/ Tick \/ FirstDraw \/ Show \/ Clear

DrawStep(i) == GetTable(i) \/ TableRead(i) \/ TableFailed(i)

ViewNext ==
    \/ MainLoop \/ TimerFires
    \/ \E i \in 1..MaxDraws : DrawStep(i)
    \/ View \/ ReflectorReady \/ ReflectorFailed \/ DrawNow \/ SetQuery \/ Enter
    \/ \E how \in {"quits", "closes", "hides"} : Leave(how)
    \/ Wipe \/ ToggleFloat
    \/ StopAll \/ ContextChanged \/ ContextFailed
    \/ StoreChanges

ViewSpec == ViewInit /\ [][ViewNext]_viewVars

(* The main loop runs what is queued, timers fire, workers read.           *)
ViewFairness ==
    /\ WF_viewVars(MainLoop)
    /\ WF_viewVars(TimerFires)
    /\ WF_viewVars(\E i \in 1..MaxDraws : DrawStep(i))

ViewFairSpec == ViewSpec /\ ViewFairness

-----------------------------------------------------------------------------

LeftAlone == <>[][FALSE]_<<query, store>>

Refreshed == windows > 0 /\ loop # "off" /\ ~ lspFloat

(* A view on the screen shows, in the end, what the store holds under the  *)
(* filter, namespace and sorting set last, whatever draws, stops, restarts *)
(* and context changes came before, when its loop is there.  Two things    *)
(* leave a refresh that never ends, and are left out: rows the processor   *)
(* fails on, and a loop that is started for a hidden buffer.               *)
ViewCatchesUp ==
    (/\ LeftAlone
     /\ [](store \notin Unprocessable)
     /\ [](loop # "off" => windows > 0)
     /\ <>[]Refreshed)
        => <>[](screen = [query |-> query, rows |-> store])

(* README.md: auto_refresh.  A view on the screen whose loop is there      *)
(* follows the store.  (The loop that K8sContextChanged starts for a       *)
(* buffer hidden by then sets `running' and finds no window to draw in;    *)
(* BufEnter finds a loop and starts none.)                                 *)
AutoRefreshFollows ==
    (LeftAlone /\ [](store \notin Unprocessable) /\ <>[]Refreshed)
        => <>[](screen = [query |-> query, rows |-> store])
=============================================================================
