----------------------------- MODULE LogSession -----------------------------
(***************************************************************************)
(* Following pod logs: the LogSession of kubectl-client/src/cmd/           *)
(* log_session.rs over the StreamingSession of streaming.rs, one tokio     *)
(* task for each container, and the session object with its timer that     *)
(* lua/kubectl/views/logs/session.lua keeps for the buffer.                *)
(*                                                                         *)
(* The main thread creates the Rust session and spawns its tasks one by    *)
(* one while the runtime already runs those it has spawned.  Every press   *)
(* of the follow key that does not stop a session makes a new Rust         *)
(* session; Starts numbers them.  Lines are counted, not kept; lines sent  *)
(* to an inactive session are never read and not counted.                  *)
(***************************************************************************)
EXTENDS Naturals, FiniteSets

CONSTANTS
    Containers,   \* the containers of the selected pods
    MaxStarts,    \* bound: Rust sessions made for the buffer
    MaxQueue,     \* bound: lines waiting in the channel (it has none)
    ChunkSize     \* MAX_CHUNK_SIZE, lines one read takes

ASSUME LogAssumption ==
    /\ IsFiniteSet(Containers) /\ Containers # {}
    /\ {MaxStarts, MaxQueue, ChunkSize} \subseteq Nat \ {0}

Starts == 1..MaxStarts

VARIABLES
    made,      \* how many Rust sessions were made
    toSpawn,   \* containers the session being made has no task for yet
    active,    \* active[g]: is_active of session g
    count,     \* count[g]: active_task_count
    queue,     \* queue[g]: lines in the channel
    closed,    \* closed[g]: close() was called on g
    pc,        \* pc[g][c]: where the task of container c is
    current,   \* the Lua session's rust_session, 0 for nil
    timers     \* running timers of the Lua session that is not stopped

logVars == <<made, toSpawn, active, count, queue, closed, pc, current, timers>>

Alive == {"opening", "check", "reading"}

LogTypeOK ==
    /\ made \in 0..MaxStarts
    /\ toSpawn \in SUBSET Containers
    /\ active \in [Starts -> BOOLEAN]
    /\ count \in [Starts -> Nat]
    /\ queue \in [Starts -> 0..MaxQueue]
    /\ closed \in [Starts -> BOOLEAN]
    /\ pc \in [Starts -> [Containers -> Alive \cup {"unborn", "last", "done"}]]
    /\ current \in 0..made
    /\ timers \in 0..MaxStarts

LogInit ==
    /\ made = 0
    /\ toSpawn = {}
    /\ active = [g \in Starts |-> FALSE]
    /\ count = [g \in Starts |-> 0]
    /\ queue = [g \in Starts |-> 0]
    /\ closed = [g \in Starts |-> FALSE]
    /\ pc = [g \in Starts |-> [c \in Containers |-> "unborn"]]
    /\ current = 0
    /\ timers = 0

-----------------------------------------------------------------------------
(* The main thread.  It runs one callback at a time: none of these while a *)
(* session is being made.                                                  *)

MainIdle == toSpawn = {}

IsActive == current # 0 /\ active[current]

(* session:stop(): close, and forget the object; a later start makes a new *)
(* one.  Only the last timer is stopped.  One that an earlier start of the *)
(* object left goes on firing and, with `stopped` set, does nothing.       *)
StopSession ==
    /\ active' = IF current = 0 THEN active ELSE [active EXCEPT ![current] = FALSE]
    /\ closed' = IF current = 0 THEN closed ELSE [closed EXCEPT ![current] = TRUE]
    /\ timers' = 0
    /\ current' = 0
    /\ UNCHANGED <<made, toSpawn, count, queue, pc>>

(* TailLogs on a buffer whose session is following: stop it. *)
StopFollowing ==
    /\ MainIdle
    /\ IsActive
    /\ StopSession

(* Mutant: a second press starts beside the session that follows. *)
StartAnyway ==
    /\ MainIdle
    /\ made < MaxStarts
    /\ made' = made + 1
    /\ toSpawn' = Containers
    /\ active' = [active EXCEPT ![made + 1] = TRUE]
    /\ UNCHANGED <<count, queue, closed, pc, current, timers>>

(* TailLogs otherwise: get_or_create and start.  A session that ended by   *)
(* itself and whose timer has not noticed yet is started again.            *)
StartFollowing ==
    /\ MainIdle
    /\ ~ IsActive
    /\ made < MaxStarts
    /\ made' = made + 1
    /\ toSpawn' = Containers
    /\ active' = [active EXCEPT ![made + 1] = TRUE]
    /\ UNCHANGED <<count, queue, closed, pc, current, timers>>

(* One turn of the loop over targets in LogSession::new; after the last    *)
(* the Lua object takes the session and starts a timer.                    *)
SpawnTask(c) ==
    /\ c \in toSpawn
    /\ toSpawn' = toSpawn \ {c}
    /\ count' = [count EXCEPT ![made] = @ + 1]
    /\ pc' = [pc EXCEPT ![made][c] = "opening"]
    /\ IF toSpawn = {c}
       THEN current' = made /\ timers' = timers + 1
       ELSE UNCHANGED <<current, timers>>
    /\ UNCHANGED <<made, active, queue, closed>>

(* A timer of the live object fires and its session is no longer active:   *)
(* what the channel still holds is left there.                             *)
TimerStops ==
    /\ MainIdle
    /\ timers > 0
    /\ ~ IsActive
    /\ StopSession

(* Mutant: a chunk is copied and stays in the channel. *)
TimerPeeks ==
    /\ MainIdle
    /\ timers > 0
    /\ IsActive
    /\ UNCHANGED logVars

(* ... or is: one chunk goes to the buffer. *)
TimerReads ==
    /\ MainIdle
    /\ timers > 0
    /\ IsActive
    /\ queue[current] > 0
    /\ queue' = [queue EXCEPT ![current] = IF @ > ChunkSize THEN @ - ChunkSize ELSE 0]
    /\ UNCHANGED <<made, toSpawn, active, count, closed, pc, current, timers>>

(* BufWinLeave, or a timer that finds the buffer gone. *)
LeaveBuffer ==
    /\ MainIdle
    /\ timers > 0
    /\ StopSession

-----------------------------------------------------------------------------
(* The task of one container.                                              *)

(* Mutants: done by hand and by the guard; the result of the decrement is *)
(* compared as if it were the count before.                               *)
CompleteTwice(g, c) ==
    /\ count' = [count EXCEPT ![g] = @ - 2]
    /\ pc' = [pc EXCEPT ![g][c] = IF count[g] = 1 THEN "last" ELSE "done"]

CompleteOffByOne(g, c) ==
    /\ count' = [count EXCEPT ![g] = @ - 1]
    /\ pc' = [pc EXCEPT ![g][c] = IF count[g] = 0 THEN "last" ELSE "done"]

(* The guard is dropped: fetch_sub, and for the last one a store after it. *)
Complete(g, c) ==
    /\ count' = [count EXCEPT ![g] = @ - 1]
    /\ pc' = [pc EXCEPT ![g][c] = IF count[g] = 1 THEN "last" ELSE "done"]

MarkInactive(g, c) ==
    /\ pc[g][c] = "last"
    /\ active' = [active EXCEPT ![g] = FALSE]
    /\ pc' = [pc EXCEPT ![g][c] = "done"]
    /\ UNCHANGED <<made, toSpawn, count, queue, closed, current, timers>>

Send(g) == queue' = IF active[g] THEN [queue EXCEPT ![g] = @ + 1] ELSE queue

Room(g) == active[g] => queue[g] < MaxQueue

OpenStream(g, c) ==
    /\ pc[g][c] = "opening"
    /\ pc' = [pc EXCEPT ![g][c] = "check"]
    /\ UNCHANGED <<made, toSpawn, active, count, queue, closed, current, timers>>

(* The stream cannot be opened, or breaks: an error line, and the end. *)
StreamFails(g, c) ==
    /\ pc[g][c] \in {"opening", "reading"}
    /\ Room(g)
    /\ Send(g)
    /\ Complete(g, c)
    /\ UNCHANGED <<made, toSpawn, active, closed, current, timers>>

(* Mutant: the loop does not look at is_active. *)
CheckNothing(g, c) ==
    /\ pc[g][c] = "check"
    /\ pc' = [pc EXCEPT ![g][c] = "reading"]
    /\ UNCHANGED <<made, toSpawn, active, count, queue, closed, current, timers>>

CheckActive(g, c) ==
    /\ pc[g][c] = "check"
    /\ IF active[g]
       THEN /\ pc' = [pc EXCEPT ![g][c] = "reading"]
            /\ UNCHANGED count
       ELSE Complete(g, c)
    /\ UNCHANGED <<made, toSpawn, active, queue, closed, current, timers>>

ReadLine(g, c) ==
    /\ pc[g][c] = "reading"
    /\ Room(g)
    /\ Send(g)
    /\ pc' = [pc EXCEPT ![g][c] = "check"]
    /\ UNCHANGED <<made, toSpawn, active, count, closed, current, timers>>

(* The container exited and its log is read to the end. *)
EndOfLog(g, c) ==
    /\ pc[g][c] = "reading"
    /\ Complete(g, c)
    /\ UNCHANGED <<made, toSpawn, active, queue, closed, current, timers>>

TaskStep(g, c) ==
    \/ OpenStream(g, c) \/ StreamFails(g, c) \/ CheckActive(g, c)
    \/ ReadLine(g, c) \/ EndOfLog(g, c) \/ MarkInactive(g, c)

LogNext ==
    \/ StopFollowing \/ StartFollowing
    \/ \E c \in Containers : SpawnTask(c)
    \/ TimerStops \/ TimerReads \/ LeaveBuffer
    \/ \E g \in Starts, c \in Containers : TaskStep(g, c)

LogSpec == LogInit /\ [][LogNext]_logVars

(* The main loop runs its callbacks, the runtime polls its tasks, and the  *)
(* stream client times a silent read out after 295 s.  A task that has no  *)
(* room for its line is not made to end by that.                           *)
LogFairness ==
    /\ \A c \in Containers : WF_logVars(SpawnTask(c))
    /\ WF_logVars(TimerStops) /\ WF_logVars(TimerReads)
    /\ \A g \in Starts, c \in Containers :
          /\ WF_logVars(CheckActive(g, c) \/ MarkInactive(g, c))
          /\ WF_logVars(Room(g) /\ TaskStep(g, c))

LogFairSpec == LogSpec /\ LogFairness

-----------------------------------------------------------------------------

Born(g) == g <= made /\ (g = made => toSpawn = {})

(* No session stays open without a task to feed it: the timer would poll   *)
(* it for as long as the buffer is on the screen.                          *)
NoZombieSession ==
    \A g \in Starts :
        Born(g) /\ (\A c \in Containers : pc[g][c] = "done") => ~ active[g]

(* At most one Rust session is open: starting again never leaves the one   *)
(* before it following in the background.                                  *)
OneOpenSession ==
    Cardinality({g \in Starts : active[g]}) <= 1

(* Once a session is inactive every task of it ends, those that wait for a *)
(* line of a container that logs on and on included.                       *)
TasksEnd ==
    \A g \in Starts :
        (g <= made /\ ~ active[g]) ~>
            (\A c \in Containers : pc[g][c] \in {"unborn", "done"})

(* Lines do not pile up in an open session nobody reads: one that stays    *)
(* active with lines waiting has lines taken out again and again.          *)
LinesAreRead ==
    \A g \in Starts :
        <>[](active[g] /\ queue[g] > 0) => []<><<queue'[g] < queue[g]>>_queue
=============================================================================
