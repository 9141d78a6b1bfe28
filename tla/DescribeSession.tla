--------------------------- MODULE DescribeSession --------------------------
(***************************************************************************)
(* The describe view: DescribeSession of kubectl-client/src/               *)
(* describe_session.rs, whose task polls the API server, the session       *)
(* object of lua/kubectl/views/describe/session.lua, the refresh loop of   *)
(* lua/kubectl/utils/loop.lua that reads it, and the framed buffer of      *)
(* lua/kubectl/actions/buffers.lua it is shown in, which is wiped with its *)
(* last window.                                                            *)
(*                                                                         *)
(* Every start of the Lua object makes a Rust session; Sessions numbers    *)
(* them.  The delays between polls are left out: a poll comes, late after  *)
(* errors and early after a success.                                       *)
(***************************************************************************)
EXTENDS Naturals, Sequences, FiniteSets

CONSTANTS
    Contents,     \* what describing the resource can print
    NoText,       \* the buffer is empty
    MaxSessions,  \* bound: Rust sessions made in all
    MaxBuffers,   \* bound: describe buffers made in all
    MaxWindows,   \* bound: windows that show the buffer
    MaxTexts,     \* bound: texts in a channel (it has none)
    MaxScheduled  \* bound: refreshes waiting for the main loop (it has none)

ASSUME DescribeAssumption ==
    /\ NoText \notin Contents
    /\ {MaxSessions, MaxBuffers, MaxWindows, MaxTexts, MaxScheduled} \subseteq Nat \ {0}

Sessions == 1..MaxSessions

VARIABLES
    content,    \* what describing the resource prints now
    buffers,    \* how many describe buffers were made; the last is the one shown
    windows,    \* windows that show it, 0 when it is wiped
    text,       \* what the buffer holds
    started,       \* how many Rust sessions were made
    rust,       \* the Lua session's rust_session, 0 for nil
    kept,       \* Rust sessions that objects of wiped buffers still refer to
    open,     \* open[s]: is_active
    texts,      \* texts[s]: the channel
    poll,       \* poll[s]: the poll task
    loop,       \* timers[buf]: "off", or whether a refresh is "idle" or "running"
    scheduled   \* callbacks of the loop that vim.schedule holds

describeVars ==
    <<content, buffers, windows, text, started, rust, kept, open, texts, poll,
      loop, scheduled>>

pollVars == <<started, kept, open, texts, poll>>

PollRecord ==
    [at : {"sleeping", "describing"}, last : Contents]
        \cup [at : {"answered"}, last : Contents, answer : Contents]
        \cup [at : {"none", "done"}]

DescribeTypeOK ==
    /\ content \in Contents
    /\ buffers \in 0..MaxBuffers
    /\ windows \in 0..MaxWindows
    /\ text \in Contents \cup {NoText}
    /\ started \in 0..MaxSessions
    /\ rust \in 0..started
    /\ kept \subseteq 1..started
    /\ open \in [Sessions -> BOOLEAN]
    /\ \A s \in Sessions : texts[s] \in Seq(Contents) /\ Len(texts[s]) <= MaxTexts
    /\ poll \in [Sessions -> PollRecord]
    /\ loop \in {"off", "idle", "running"}
    /\ scheduled \in 0..MaxScheduled

DescribeInit ==
    /\ content \in Contents
    /\ buffers = 0
    /\ windows = 0
    /\ text = NoText
    /\ started = 0
    /\ rust = 0
    /\ kept = {}
    /\ open = [s \in Sessions |-> FALSE]
    /\ texts = [s \in Sessions |-> <<>>]
    /\ poll = [s \in Sessions |-> [at |-> "none"]]
    /\ loop = "off"
    /\ scheduled = 0

-----------------------------------------------------------------------------
(* The Lua session.                                                        *)

HasOpenSession == rust # 0 /\ open[rust]

(* start_loop_for_buffer leaves a loop that exists as it is. *)
StartLoop == loop' = IF loop = "off" THEN "idle" ELSE loop

(* session:start().  The first describe blocks the editor; when it fails   *)
(* there is no session and no loop.  One that is replaced is not closed.   *)
Start ==
    \/ /\ started < MaxSessions
       /\ started' = started + 1
       /\ rust' = started'
       /\ open' = [open EXCEPT ![started'] = TRUE]
       /\ texts' = [texts EXCEPT ![started'] = <<content>>]
       /\ poll' = [poll EXCEPT ![started'] = [at |-> "sleeping", last |-> content]]
       /\ StartLoop
       /\ UNCHANGED kept
    \/ UNCHANGED <<pollVars, rust, loop>>

(* M.view when there is no describe buffer: a new one, and a new object. *)
View ==
    /\ windows = 0
    /\ buffers < MaxBuffers
    /\ buffers' = buffers + 1
    /\ windows' = 1
    /\ text' = NoText
    /\ Start
    /\ UNCHANGED <<content, scheduled>>

(* M.view while the buffer is still shown: the object is found and started. *)
ViewAgain ==
    /\ windows \in 1..(MaxWindows - 1)
    /\ windows' = windows + 1
    /\ Start
    /\ UNCHANGED <<content, buffers, text, scheduled>>

(* session:stop(): the loop ends and the Rust session is closed. *)
Stop ==
    /\ loop' = "off"
    /\ open' = IF rust = 0 THEN open ELSE [open EXCEPT ![rust] = FALSE]
    /\ rust' = 0
    /\ UNCHANGED <<started, kept, texts, poll>>

Toggle ==
    /\ windows > 0
    /\ IF loop = "off" THEN Start ELSE Stop
    /\ UNCHANGED <<content, buffers, windows, text, scheduled>>

(* BufEnter and K8sContextChanged start the loop again, once it has been   *)
(* started for this buffer.                                                *)
Enter ==
    /\ windows > 0
    /\ started > 0
    /\ loop = "off"
    /\ loop' = "idle"
    /\ UNCHANGED <<content, buffers, windows, text, rust, scheduled, pollVars>>

(* stop_all of a context change, or QuitPre in one of several windows. *)
StopLoop ==
    /\ loop # "off"
    /\ loop' = "off"
    /\ UNCHANGED <<content, buffers, windows, text, rust, scheduled, pollVars>>

CloseWindow ==
    /\ windows > 1
    /\ windows' = windows - 1
    /\ UNCHANGED <<content, buffers, text, rust, loop, scheduled, pollVars>>

(* The last window goes, the buffer is wiped, BufUnload stops the loop.    *)
(* The manager keeps the object under the buffer's key.                    *)
Wipe ==
    /\ windows = 1
    /\ windows' = 0
    /\ loop' = "off"
    /\ scheduled' = 0
    /\ kept' = kept \cup ({rust} \ {0})
    /\ rust' = 0
    /\ text' = NoText
    /\ UNCHANGED <<content, buffers, started, open, texts, poll>>

-----------------------------------------------------------------------------
(* The loop.                                                               *)

TimerFires ==
    /\ loop = "idle"
    /\ scheduled < MaxScheduled
    /\ loop' = "running"
    /\ scheduled' = scheduled + 1
    /\ UNCHANGED <<content, buffers, windows, text, rust, pollVars>>

(* An LSP float is open: the refresh is put off. *)
CallbackPaused ==
    /\ scheduled > 0
    /\ scheduled' = scheduled - 1
    /\ loop' = IF loop = "off" THEN "off" ELSE "idle"
    /\ UNCHANGED <<content, buffers, windows, text, rust, pollVars>>

(* Mutant: the refresh that has read something does not end. *)
CallbackUnended ==
    /\ scheduled > 0
    /\ scheduled' = scheduled - 1
    /\ IF loop = "off" \/ ~ HasOpenSession \/ texts[rust] = <<>>
       THEN UNCHANGED <<text, texts>>
       ELSE /\ text' = Head(texts[rust])
            /\ texts' = [texts EXCEPT ![rust] = Tail(@)]
    /\ UNCHANGED <<content, buffers, windows, started, rust, kept, open, poll, loop>>

(* The callback of start(): cancelled, or without an open session, it      *)
(* returns and the refresh never ends; else it shows one text, if any.     *)
Callback ==
    /\ scheduled > 0
    /\ scheduled' = scheduled - 1
    /\ IF loop = "off" \/ ~ HasOpenSession
       THEN UNCHANGED <<text, texts, loop>>
       ELSE /\ loop' = "idle"
            /\ IF texts[rust] = <<>>
               THEN UNCHANGED <<text, texts>>
               ELSE /\ text' = Head(texts[rust])
                    /\ texts' = [texts EXCEPT ![rust] = Tail(@)]
    /\ UNCHANGED <<content, buffers, windows, started, rust, kept, open, poll>>

-----------------------------------------------------------------------------
(* The poll task of one Rust session.                                      *)

(* Mutant: it polls on. *)
WakeAnyway(s) ==
    /\ poll[s].at = "sleeping"
    /\ poll' = [poll EXCEPT ![s].at = "describing"]
    /\ UNCHANGED <<content, buffers, windows, text, rust, loop, scheduled, started, kept,
                   open, texts>>

(* After the delay: the session may be closed by now. *)
Wake(s) ==
    /\ poll[s].at = "sleeping"
    /\ poll' = [poll EXCEPT ![s] =
          IF open[s] THEN [@ EXCEPT !.at = "describing"] ELSE [at |-> "done"]]
    /\ UNCHANGED <<content, buffers, windows, text, rust, loop, scheduled, started, kept,
                   open, texts>>

Describe(s) ==
    /\ poll[s].at = "describing"
    /\ poll' = [poll EXCEPT ![s] =
          [at |-> "answered", last |-> poll[s].last, answer |-> content]]
    /\ UNCHANGED <<content, buffers, windows, text, rust, loop, scheduled, started, kept,
                   open, texts>>

DescribeFails(s) ==
    /\ poll[s].at = "describing"
    /\ poll' = [poll EXCEPT ![s].at = "sleeping"]
    /\ UNCHANGED <<content, buffers, windows, text, rust, loop, scheduled, started, kept,
                   open, texts>>

(* The garbage collector may have dropped the channel of a session that    *)
(* nothing refers to any more.                                             *)
Collectable(s) == s # rust /\ s \notin kept

(* Only a text that differs from the last one is sent; the guard of a task *)
(* that ends makes the session inactive.                                   *)
Deliver(s) ==
    /\ poll[s].at = "answered"
    /\ \/ /\ poll[s].answer = poll[s].last
          /\ poll' = [poll EXCEPT ![s] = [at |-> "sleeping", last |-> poll[s].last]]
          /\ UNCHANGED <<texts, open>>
       \/ /\ poll[s].answer # poll[s].last
          /\ Len(texts[s]) < MaxTexts
          /\ texts' = [texts EXCEPT ![s] = Append(@, poll[s].answer)]
          /\ poll' = [poll EXCEPT ![s] = [at |-> "sleeping", last |-> poll[s].answer]]
          /\ UNCHANGED open
       \/ /\ poll[s].answer # poll[s].last
          /\ Collectable(s)
          /\ poll' = [poll EXCEPT ![s] = [at |-> "done"]]
          /\ open' = [open EXCEPT ![s] = FALSE]
          /\ UNCHANGED texts
    /\ UNCHANGED <<content, buffers, windows, text, rust, loop, scheduled, started, kept>>

(* Someone changes the resource. *)
ResourceChanges ==
    /\ content' \in Contents \ {content}
    /\ UNCHANGED <<buffers, windows, text, rust, loop, scheduled, pollVars>>

PollStep(s) == Wake(s) \/ Describe(s) \/ Deliver(s)

DescribeNext ==
    \/ View \/ ViewAgain \/ Toggle \/ Enter \/ StopLoop \/ CloseWindow \/ Wipe
    \/ TimerFires \/ CallbackPaused \/ Callback
    \/ \E s \in Sessions : PollStep(s) \/ DescribeFails(s)
    \/ ResourceChanges

DescribeSpec == DescribeInit /\ [][DescribeNext]_describeVars

(* Timers fire, scheduled callbacks run, and no LSP float stays open for   *)
(* ever.  The API server answers from time to time.                        *)
DescribeFairness ==
    /\ WF_describeVars(TimerFires)
    /\ SF_describeVars(Callback)
    /\ \A s \in Sessions :
          /\ WF_describeVars(Wake(s))
          /\ SF_describeVars(Describe(s))
          /\ WF_describeVars(Deliver(s))

DescribeFairSpec == DescribeSpec /\ DescribeFairness

-----------------------------------------------------------------------------

ContentLeftAlone == <>[][FALSE]_content

(* A describe view that is not opened twice ends up showing the resource   *)
(* as it is, through toggles, context changes, errors and LSP floats, when *)
(* in the end its session is open and its loop is there.  (A refresh that  *)
(* finds no open session never ends; opening the view again gives it a     *)
(* session, and leaves that refresh as it is.)                             *)
DescribeFollows ==
    (/\ ContentLeftAlone
     /\ [](windows <= 1)
     /\ <>[](HasOpenSession /\ loop # "off"))
        => <>[](text = content)

(* Closing a session is enough to end its polling of the API server,       *)
(* whatever its task is waiting for.                                       *)
PollsEnd ==
    \A s \in Sessions :
        (poll[s].at # "none" /\ ~ open[s]) ~> (poll[s].at = "done")

(* session.lua: "Buffer deleted - full cleanup".  The session of a buffer  *)
(* that is gone does not poll for the rest of the editor's life.           *)
DeletedIsCleanedUp ==
    \A s \in Sessions : (s \in kept) ~> ~ open[s]
=============================================================================
