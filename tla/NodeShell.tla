------------------------------ MODULE NodeShell ------------------------------
(***************************************************************************)
(* A shell on a node: open_node_shell and NodeShellSession of              *)
(* kubectl-client/src/cmd/exec.rs, which create a privileged pod, attach   *)
(* to it and delete it again, its two I/O tasks over the session of        *)
(* streaming.rs, and the terminal of lua/kubectl/utils/terminal.lua, whose *)
(* 30 ms timer is all that closes the session.                             *)
(*                                                                         *)
(* The main thread and the runtime's threads run side by side: between the *)
(* last empty read of a timer callback and its look at is_active a task    *)
(* may send more and close.  Output is counted in chunks.                  *)
(***************************************************************************)
EXTENDS Naturals

CONSTANTS
    MaxChunks,    \* bound: chunks waiting in the output channel (it has none)
    MaxTicks      \* bound: timer callbacks waiting for the main loop (it has none)

ASSUME ShellAssumption == {MaxChunks, MaxTicks} \subseteq Nat \ {0}

VARIABLES
    call,       \* where the blocking call of node_shell is
    pod,        \* the shell's pod
    attached,   \* the attached streams have not come to their end
    reader,     \* the stdout reader task
    writer,     \* the stdin writer task
    input,      \* input waits for the writer
    isActive,   \* the session's is_active
    guards,     \* its active_task_count
    output,     \* chunks in the output channel
    term,       \* the terminal buffer
    ticking,    \* its timer runs
    ticks,      \* callbacks of the timer that vim.schedule holds
    drained,    \* the main thread is in a callback, past its empty read
    cleanedUp,  \* cleaned_up
    deleting,   \* a deletion of the pod is on its way
    asked       \* how often cleanup_pod asked for one

podVars == <<pod, deleting>>
taskVars == <<attached, reader, writer, input, isActive, guards, output>>
termVars == <<term, ticking, ticks, drained>>
shellVars == <<call, podVars, taskVars, termVars, cleanedUp, asked>>

ShellTypeOK ==
    /\ call \in {"create", "wait", "attach", "open", "failed"}
    /\ pod \in {"none", "pending", "running", "ended", "gone"}
    /\ {reader, writer} \subseteq {"none", "waiting", "done"}
    /\ {attached, input, isActive, ticking, drained, cleanedUp, deleting} \subseteq BOOLEAN
    /\ guards \in 0..2
    /\ output \in 0..MaxChunks
    /\ term \in {"none", "scheduled", "shown", "wiped"}
    /\ ticks \in 0..MaxTicks
    /\ asked \in Nat

ShellInit ==
    /\ call = "create"
    /\ pod = "none" /\ deleting = FALSE
    /\ reader = "none" /\ writer = "none"
    /\ attached = FALSE /\ input = FALSE /\ isActive = FALSE
    /\ guards = 0 /\ output = 0
    /\ term = "none" /\ ticking = FALSE /\ ticks = 0 /\ drained = FALSE
    /\ cleanedUp = FALSE /\ asked = 0

-----------------------------------------------------------------------------
(* open_node_shell.  An error of the API server, here and below, leaves    *)
(* the pod that was created.                                               *)

CreatePod ==
    /\ call = "create"
    /\ \/ call' = "wait" /\ pod' = "pending"
       \/ call' = "failed" /\ UNCHANGED pod
    /\ UNCHANGED <<deleting, taskVars, termVars, cleanedUp, asked>>

(* One turn of wait_for_pod_running that leaves the loop: the pod runs; it *)
(* ended and is deleted, if the API server does so; it cannot be read.     *)
WaitForPodRunning ==
    /\ call = "wait"
    /\ \/ pod = "running" /\ call' = "attach" /\ UNCHANGED pod
       \/ pod = "ended" /\ call' = "failed" /\ pod' \in {"gone", "ended"}
       \/ call' = "failed" /\ UNCHANGED pod
    /\ UNCHANGED <<deleting, taskVars, termVars, cleanedUp, asked>>

(* Mutant: the writer's guard is dropped where it is made. *)
SpawnUnguarded ==
    /\ reader' = "waiting"
    /\ writer' = "waiting"
    /\ guards' = 1
    /\ isActive' = FALSE

(* spawn_io_tasks: a guard for each task, taken before the task runs. *)
SpawnIoTasks ==
    /\ reader' = "waiting"
    /\ writer' = "waiting"
    /\ guards' = 2
    /\ isActive' = TRUE

Attach ==
    /\ call = "attach"
    /\ \/ /\ pod = "running"
          /\ call' = "open"
          /\ attached' = TRUE
          /\ SpawnIoTasks
          /\ term' = "scheduled"
       \/ call' = "failed" /\ UNCHANGED <<attached, reader, writer, isActive, guards, term>>
    /\ UNCHANGED <<podVars, input, output, ticking, ticks, drained, cleanedUp, asked>>

-----------------------------------------------------------------------------
(* The I/O tasks.                                                          *)

ReadChunk ==
    /\ reader = "waiting" /\ attached
    /\ output < MaxChunks
    /\ output' = output + 1
    /\ UNCHANGED <<call, podVars, attached, reader, writer, input, isActive, guards,
                   termVars, cleanedUp, asked>>

(* Mutant: the reader leaves it to the count to close the session. *)
ReadEndUnforced ==
    /\ reader = "waiting" /\ ~ attached
    /\ reader' = "done"
    /\ guards' = guards - 1
    /\ isActive' = (isActive /\ guards' > 0)
    /\ UNCHANGED <<call, podVars, attached, writer, input, output, termVars, cleanedUp, asked>>

(* End of stream or an error: force_close, for the writer may wait on. *)
ReadEnd ==
    /\ reader = "waiting" /\ ~ attached
    /\ reader' = "done"
    /\ guards' = guards - 1
    /\ isActive' = FALSE
    /\ UNCHANGED <<call, podVars, attached, writer, input, output, termVars, cleanedUp, asked>>

(* Input is written; the first that cannot be ends the task. *)
Write ==
    /\ writer = "waiting" /\ input
    /\ input' = FALSE
    /\ \/ UNCHANGED <<writer, guards, isActive>>
       \/ /\ ~ attached
          /\ writer' = "done"
          /\ guards' = guards - 1
          /\ isActive' = (isActive /\ guards' > 0)
    /\ UNCHANGED <<call, podVars, attached, reader, output, termVars, cleanedUp, asked>>

-----------------------------------------------------------------------------
(* The terminal.                                                           *)

(* The scheduled callback of spawn_terminal opens the terminal, or raises  *)
(* because its window is gone.                                             *)
AttachSession ==
    /\ term = "scheduled"
    /\ \/ term' = "shown" /\ ticking' = TRUE /\ input' = TRUE
       \/ term' = "wiped" /\ UNCHANGED <<ticking, input>>
    /\ UNCHANGED <<call, podVars, attached, reader, writer, isActive, guards, output,
                   ticks, drained, cleanedUp, asked>>

OnInput ==
    /\ ~ drained
    /\ term = "shown"
    /\ input' = TRUE
    /\ UNCHANGED <<call, podVars, attached, reader, writer, isActive, guards, output,
                   termVars, cleanedUp, asked>>

(* The user deletes the buffer, or one second after the exit the code      *)
(* does.  Neither stops the timer.                                         *)
WipeTerminal ==
    /\ ~ drained
    /\ term = "shown"
    /\ term' = "wiped"
    /\ UNCHANGED <<call, podVars, taskVars, ticking, ticks, drained, cleanedUp, asked>>

Tick ==
    /\ ticking
    /\ ticks < MaxTicks
    /\ ticks' = ticks + 1
    /\ UNCHANGED <<call, podVars, taskVars, term, ticking, drained, cleanedUp, asked>>

(* The callback reads chunks until there is none.  The channel of a        *)
(* terminal that was wiped takes none: the callback raises at the first.   *)
Drain ==
    /\ ticks > 0 /\ ~ drained
    /\ IF term = "wiped" /\ output > 0
       THEN output' = output - 1 /\ ticks' = ticks - 1 /\ UNCHANGED drained
       ELSE output' = 0 /\ drained' = TRUE /\ UNCHANGED ticks
    /\ UNCHANGED <<call, podVars, attached, reader, writer, input, isActive, guards,
                   term, ticking, cleanedUp, asked>>

(* Mutant: cleaned_up is read and not set. *)
CleanupEachTime ==
    IF cleanedUp
    THEN UNCHANGED <<cleanedUp, deleting, asked>>
    ELSE deleting' = TRUE /\ asked' = asked + 1 /\ UNCHANGED cleanedUp

CleanupPod ==
    IF cleanedUp
    THEN UNCHANGED <<cleanedUp, deleting, asked>>
    ELSE cleanedUp' = TRUE /\ deleting' = TRUE /\ asked' = asked + 1

(* ... and, when the session is not open, stops the timer and closes it.   *)
(* Callbacks that were scheduled before come here again.                   *)
CheckOpen ==
    /\ drained
    /\ drained' = FALSE
    /\ ticks' = ticks - 1
    /\ IF isActive
       THEN UNCHANGED <<ticking, cleanedUp, deleting, asked>>
       ELSE ticking' = FALSE /\ CleanupPod
    /\ UNCHANGED <<call, pod, taskVars, term>>

-----------------------------------------------------------------------------
(* The cluster.                                                            *)

DeletePod ==
    /\ deleting
    /\ deleting' = FALSE
    /\ pod' \in {"gone", pod}
    /\ attached' = (attached /\ pod' = pod)
    /\ UNCHANGED <<call, reader, writer, input, isActive, guards, output, termVars,
                   cleanedUp, asked>>

PodStarts ==
    /\ pod = "pending"
    /\ pod' = "running"
    /\ UNCHANGED <<call, deleting, taskVars, termVars, cleanedUp, asked>>

(* The shell exits, the pod fails, or someone deletes it. *)
PodEnds ==
    /\ pod \in {"pending", "running"}
    /\ pod' \in {"ended", "gone"}
    /\ attached' = FALSE
    /\ UNCHANGED <<call, deleting, reader, writer, input, isActive, guards, output,
                   termVars, cleanedUp, asked>>

ConnectionLost ==
    /\ attached
    /\ attached' = FALSE
    /\ UNCHANGED <<call, podVars, reader, writer, input, isActive, guards, output,
                   termVars, cleanedUp, asked>>

ShellNext ==
    \/ CreatePod \/ WaitForPodRunning \/ Attach
    \/ ReadChunk \/ ReadEnd \/ Write
    \/ AttachSession \/ OnInput \/ WipeTerminal \/ Tick \/ Drain \/ CheckOpen
    \/ DeletePod \/ PodStarts \/ PodEnds \/ ConnectionLost

ShellSpec == ShellInit /\ [][ShellNext]_shellVars

(* The runtime runs the tasks, the main loop its timers and callbacks. *)
ShellFairness ==
    /\ WF_shellVars(ReadEnd) /\ WF_shellVars(Write)
    /\ WF_shellVars(Tick) /\ WF_shellVars(Drain) /\ WF_shellVars(CheckOpen)

ShellFairSpec == ShellSpec /\ ShellFairness

-----------------------------------------------------------------------------

(* When the shell of a terminal ends, its pod is asked to be deleted: with *)
(* the writer still waiting for input, and with the terminal wiped before. *)
PodReleased ==
    (ticking /\ ~ attached) ~> (asked = 1)

(* The pod is deleted once, however many callbacks find the session        *)
(* closed, and never under a shell that is still attached.                 *)
DeletedOnceAfterEnd ==
    /\ asked <= 1
    /\ asked = 1 => ~ attached
=============================================================================
