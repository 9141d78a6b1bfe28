---------------------------- MODULE SessionsProofs ----------------------------
(***************************************************************************)
(* The streaming sessions, for any containers, starts, buffers, windows    *)
(* and queues.  Of log sessions: one is open only while a task of it is,   *)
(* and only the one made last is; both rest on the count of guards, which  *)
(* is the number of tasks alive, so that the task that finds it at one is  *)
(* the last one.  Of node shells: the pod is deleted once and never under  *)
(* a shell that is still attached, for what closes the session is the end  *)
(* of the streams, and nothing opens them again.  Of all three: the types. *)
(***************************************************************************)
EXTENDS MCSessions, FiniteSetTheorems, SequenceTheorems, TLAPS

-----------------------------------------------------------------------------
(* Log sessions.                                                           *)

AliveOf(g) == {c \in Containers : pc[g][c] \in Alive}

Shapes ==
    /\ made \in 0..MaxStarts
    /\ toSpawn \in SUBSET Containers
    /\ active \in [Starts -> BOOLEAN]
    /\ count \in [Starts -> Nat]
    /\ pc \in [Starts -> [Containers -> Alive \cup {"unborn", "last", "done"}]]
    /\ current \in 0..made

\* active_task_count is the number of guards alive.
CountIsGuards == \A g \in Starts : count[g] = Cardinality(AliveOf(g))

Unborn ==
    /\ toSpawn # {} => made \in Starts
    /\ \A c \in toSpawn : pc[made][c] = "unborn"
    /\ \A g \in Starts : g > made => ~ active[g] /\ \A c \in Containers : pc[g][c] = "unborn"

\* One task of an open session is alive, or about to close it.
OpenIsFed ==
    \A g \in Starts : active[g] /\ Born(g) => \E c \in Containers : pc[g][c] \in Alive \cup {"last"}

\* What is open was made last, and is in hand or held by the Lua session.
OpenIsCurrent ==
    \A g \in Starts : active[g] => g = made /\ (toSpawn = {} => current = g)

LogInv == Shapes /\ CountIsGuards /\ Unborn /\ OpenIsFed /\ OpenIsCurrent

LEMMA AliveFinite == \A g \in Starts : IsFiniteSet(AliveOf(g)) /\ Cardinality(AliveOf(g)) \in Nat
<1> TAKE g \in Starts
<1>1. AliveOf(g) \in SUBSET Containers
    BY DEF AliveOf
<1> QED BY <1>1, LogAssumption, FS_Subset, FS_CardinalityType

(* The invariant is enough. *)
LEMMA LogInvSuffices == LogInv => NoZombieSession /\ OneOpenSession
<1> SUFFICES ASSUME LogInv PROVE NoZombieSession /\ OneOpenSession
    OBVIOUS
<1>1. NoZombieSession
    <2> SUFFICES ASSUME NEW g \in Starts, Born(g), \A c \in Containers : pc[g][c] = "done", active[g]
                 PROVE  FALSE
        BY DEF NoZombieSession, LogInv, Shapes
    <2> QED BY DEF LogInv, OpenIsFed, Alive
<1>2. OneOpenSession
    <2>1. {g \in Starts : active[g]} \in SUBSET {made}
        BY DEF LogInv, OpenIsCurrent
    <2>2. IsFiniteSet({made}) /\ Cardinality({made}) = 1
        BY FS_Singleton
    <2>3. Cardinality({g \in Starts : active[g]}) <= 1
        BY <2>1, <2>2, FS_Subset
    <2> QED BY <2>3 DEF OneOpenSession
<1> QED BY <1>1, <1>2

-----------------------------------------------------------------------------

(* A session is closed, or a chunk read: nothing else changes. *)
LEMMA StopKeeps ==
    ASSUME LogInv, MainIdle, StopSession
    PROVE  LogInv'
<1> USE DEF LogInv, MainIdle, Starts
<1>1. /\ active' \in [Starts -> BOOLEAN]
      /\ \A g \in Starts : active'[g] => active[g] /\ g # current
    <2>1. CASE current = 0
        BY <2>1 DEF StopSession, Shapes
    <2>2. CASE current # 0
        BY <2>2 DEF StopSession, Shapes
    <2> QED BY <2>1, <2>2
<1>2. \A g \in Starts : ~ active'[g]
    BY <1>1 DEF OpenIsCurrent
<1>3. current' = 0 /\ UNCHANGED <<made, toSpawn, count, pc>>
    BY DEF StopSession
<1>4. Shapes'
    BY <1>1, <1>3 DEF Shapes
<1>5. \A g \in Starts : AliveOf(g)' = AliveOf(g)
    BY <1>3 DEF AliveOf
<1> QED BY <1>2, <1>3, <1>4, <1>5 DEF CountIsGuards, Unborn, OpenIsFed, OpenIsCurrent

LEMMA StartKeeps ==
    ASSUME LogInv, StartFollowing
    PROVE  LogInv'
<1> USE LogAssumption DEF LogInv, Starts
<1>1. /\ made < MaxStarts /\ made' = made + 1 /\ toSpawn' = Containers
      /\ active' = [active EXCEPT ![made + 1] = TRUE]
      /\ UNCHANGED <<count, pc, current>>
      /\ toSpawn = {} /\ ~ IsActive
    BY DEF StartFollowing, MainIdle
<1>2. \A g \in Starts : ~ active[g]
    BY <1>1 DEF IsActive, OpenIsCurrent, Shapes
<1>3. made' \in Starts /\ made \in Nat
    BY <1>1 DEF Shapes
<1>4. Shapes'
    BY <1>1, <1>3 DEF Shapes
<1>5. \A g \in Starts : AliveOf(g)' = AliveOf(g)
    BY <1>1 DEF AliveOf
<1>6. CountIsGuards'
    BY <1>1, <1>5 DEF CountIsGuards
<1>7. Unborn'
    BY <1>1, <1>2, <1>3 DEF Unborn, Shapes
<1>8. \A g \in Starts : active'[g] => g = made' /\ ~ Born(g)'
    BY <1>1, <1>2, <1>3 DEF Shapes, Born
<1> QED BY <1>1, <1>4, <1>6, <1>7, <1>8 DEF OpenIsFed, OpenIsCurrent

LEMMA SpawnKeeps ==
    ASSUME LogInv, NEW c \in Containers, SpawnTask(c)
    PROVE  LogInv'
<1> USE DEF LogInv, Starts
<1>1. /\ c \in toSpawn /\ toSpawn' = toSpawn \ {c} /\ made \in Starts
      /\ count' = [count EXCEPT ![made] = count[made] + 1]
      /\ pc' = [pc EXCEPT ![made][c] = "opening"]
      /\ current' = current \/ (toSpawn' = {} /\ current' = made)
      /\ toSpawn' = {} => current' = made
      /\ UNCHANGED <<made, active>>
    BY DEF SpawnTask, Unborn
<1>2. Shapes'
    BY <1>1, LogAssumption DEF Shapes, Alive
<1>3. /\ \A g \in Starts \ {made} : pc'[g] = pc[g]
      /\ \A d \in Containers \ {c} : pc'[made][d] = pc[made][d]
      /\ pc'[made][c] = "opening" /\ pc[made][c] = "unborn"
    BY <1>1 DEF Shapes, Unborn
<1>4. AliveOf(made)' = AliveOf(made) \cup {c} /\ c \notin AliveOf(made)
    BY <1>1, <1>3 DEF AliveOf, Alive
<1>5. Cardinality(AliveOf(made)') = Cardinality(AliveOf(made)) + 1
    BY <1>1, <1>4, AliveFinite, FS_AddElement
<1>6. \A g \in Starts \ {made} : AliveOf(g)' = AliveOf(g)
    BY <1>1, <1>3 DEF AliveOf
<1>7. CountIsGuards'
    <2>1. ASSUME NEW g \in Starts
          PROVE  (count[g] = Cardinality(AliveOf(g)))'
        <3>1. CASE g = made
            BY <1>1, <1>5, <3>1 DEF CountIsGuards, Shapes
        <3>2. CASE g # made
            BY <1>1, <1>6, <3>2 DEF CountIsGuards, Shapes
        <3> QED BY <3>1, <3>2
    <2> QED BY <2>1 DEF CountIsGuards
<1>8. Unborn'
    BY <1>1, <1>3 DEF Unborn, Shapes
<1>9. OpenIsFed'
    BY <1>1, <1>3 DEF OpenIsFed, OpenIsCurrent, Alive
<1>10. OpenIsCurrent'
    BY <1>1 DEF OpenIsCurrent
<1> QED BY <1>2, <1>7, <1>8, <1>9, <1>10

-----------------------------------------------------------------------------

(* A guard is dropped.  If the session is open and its count was not one,  *)
(* another task is alive.                                                  *)
LEMMA CompleteKeeps ==
    ASSUME LogInv, NEW g \in Starts, NEW c \in Containers, pc[g][c] \in Alive, Complete(g, c),
           UNCHANGED <<made, toSpawn, active, current>>
    PROVE  LogInv'
<1> USE DEF LogInv
<1> DEFINE next == IF count[g] = 1 THEN "last" ELSE "done"
<1>1. count' = [count EXCEPT ![g] = count[g] - 1] /\ pc' = [pc EXCEPT ![g][c] = next]
    BY DEF Complete
<1>2. c \in AliveOf(g)
    BY DEF AliveOf
<1>3. Cardinality(AliveOf(g) \ {c}) = Cardinality(AliveOf(g)) - 1 /\ IsFiniteSet(AliveOf(g) \ {c})
    BY <1>2, AliveFinite, FS_RemoveElement
<1>4. Cardinality(AliveOf(g) \ {c}) \in Nat /\ count[g] - 1 \in Nat /\ count[g] = Cardinality(AliveOf(g))
    BY <1>3, FS_CardinalityType DEF CountIsGuards, Shapes
<1>5. /\ \A h \in Starts \ {g} : pc'[h] = pc[h]
      /\ \A d \in Containers \ {c} : pc'[g][d] = pc[g][d]
      /\ pc'[g][c] = next
    BY <1>1 DEF Shapes
<1>6. Shapes'
    <2>1. count' \in [Starts -> Nat]
        BY <1>1, <1>4 DEF Shapes
    <2>2. pc' \in [Starts -> [Containers -> Alive \cup {"unborn", "last", "done"}]]
        BY <1>1 DEF Shapes
    <2> QED BY <2>1, <2>2 DEF Shapes
<1>7. AliveOf(g)' = AliveOf(g) \ {c}
    BY <1>5 DEF AliveOf, Alive
<1>8. \A h \in Starts \ {g} : AliveOf(h)' = AliveOf(h)
    BY <1>5 DEF AliveOf
<1>9. CountIsGuards'
    <2>1. ASSUME NEW h \in Starts
          PROVE  (count[h] = Cardinality(AliveOf(h)))'
        <3>1. CASE h = g
            BY <1>1, <1>3, <1>4, <1>7, <3>1 DEF Shapes
        <3>2. CASE h # g
            BY <1>1, <1>8, <3>2 DEF CountIsGuards, Shapes
        <3> QED BY <3>1, <3>2
    <2> QED BY <2>1 DEF CountIsGuards
<1>10. Unborn'
    <2>1. \A d \in toSpawn : pc'[made][d] = "unborn"
        BY <1>5 DEF Unborn, Alive, Shapes
    <2>2. g <= made
        BY DEF Unborn, Alive, Shapes, Starts
    <2>3. \A h \in Starts : h > made => \A d \in Containers : pc'[h][d] = "unborn"
        BY <1>5, <2>2 DEF Unborn, Shapes, Starts
    <2> QED BY <2>1, <2>3 DEF Unborn
<1>11. OpenIsFed'
    <2>1. CASE count[g] = 1
        BY <1>5, <2>1 DEF OpenIsFed, Born
    <2>2. CASE count[g] # 1
        <3>1. PICK d \in Containers \ {c} : pc[g][d] \in Alive
            <4>1. Cardinality(AliveOf(g) \ {c}) # 0
                BY <1>3, <1>4, <2>2 DEF Shapes
            <4>2. AliveOf(g) \ {c} # {}
                BY <4>1, FS_EmptySet
            <4> QED BY <4>2 DEF AliveOf
        <3>2. pc'[g][d] \in Alive
            BY <1>5, <3>1
        <3> QED BY <1>5, <3>2 DEF OpenIsFed, Born
    <2> QED BY <2>1, <2>2
<1> QED BY <1>6, <1>9, <1>10, <1>11 DEF OpenIsCurrent

(* A task goes on, with its guard. *)
LEMMA MoveKeeps ==
    ASSUME LogInv, NEW g \in Starts, NEW c \in Containers, NEW next \in Alive,
           pc[g][c] \in Alive, pc' = [pc EXCEPT ![g][c] = next],
           UNCHANGED <<made, toSpawn, active, count, current>>
    PROVE  LogInv'
<1> USE DEF LogInv
<1>1. /\ \A h \in Starts \ {g} : pc'[h] = pc[h]
      /\ \A d \in Containers \ {c} : pc'[g][d] = pc[g][d]
      /\ pc'[g][c] = next
    BY DEF Shapes
<1>2. Shapes'
    BY DEF Shapes
<1>3. \A h \in Starts : AliveOf(h)' = AliveOf(h)
    <2>1. ASSUME NEW h \in Starts, NEW d \in Containers
          PROVE  pc'[h][d] \in Alive <=> pc[h][d] \in Alive
        BY <1>1
    <2> QED BY <2>1 DEF AliveOf
<1>4. CountIsGuards'
    BY <1>3 DEF CountIsGuards
<1>5. Unborn'
    BY <1>1 DEF Unborn, Alive
<1>6. OpenIsFed'
    BY <1>1 DEF OpenIsFed, Born
<1> QED BY <1>2, <1>4, <1>5, <1>6 DEF OpenIsCurrent

LEMMA MarkKeeps ==
    ASSUME LogInv, NEW g \in Starts, NEW c \in Containers, MarkInactive(g, c)
    PROVE  LogInv'
<1> USE DEF LogInv
<1>1. /\ pc[g][c] = "last" /\ pc' = [pc EXCEPT ![g][c] = "done"]
      /\ active' = [active EXCEPT ![g] = FALSE]
      /\ UNCHANGED <<made, toSpawn, count, current>>
    BY DEF MarkInactive
<1>2. /\ \A h \in Starts \ {g} : pc'[h] = pc[h] /\ active'[h] = active[h]
      /\ \A d \in Containers \ {c} : pc'[g][d] = pc[g][d]
      /\ pc'[g][c] = "done" /\ ~ active'[g]
    BY <1>1 DEF Shapes
<1>3. Shapes'
    BY <1>1 DEF Shapes
<1>4. \A h \in Starts : AliveOf(h)' = AliveOf(h)
    <2>1. ASSUME NEW h \in Starts, NEW d \in Containers
          PROVE  pc'[h][d] \in Alive <=> pc[h][d] \in Alive
        BY <1>1, <1>2 DEF Alive
    <2> QED BY <2>1 DEF AliveOf
<1>5. CountIsGuards'
    BY <1>1, <1>4 DEF CountIsGuards
<1>6. Unborn'
    BY <1>1, <1>2 DEF Unborn
<1>7. OpenIsFed' /\ OpenIsCurrent'
    BY <1>1, <1>2 DEF OpenIsFed, OpenIsCurrent, Born
<1> QED BY <1>3, <1>5, <1>6, <1>7

LEMMA LogInvStep ==
    ASSUME LogInv, [LogNext]_logVars
    PROVE  LogInv'
<1>1. CASE UNCHANGED <<made, toSpawn, active, count, pc, current>>
    BY <1>1 DEF LogInv, Shapes, CountIsGuards, AliveOf, Unborn, OpenIsFed, OpenIsCurrent, Born
<1>2. CASE StopFollowing \/ TimerStops \/ LeaveBuffer
    BY <1>2, StopKeeps DEF StopFollowing, TimerStops, LeaveBuffer
<1>3. CASE StartFollowing
    BY <1>3, StartKeeps
<1>4. ASSUME NEW c \in Containers, SpawnTask(c)
      PROVE  LogInv'
    BY <1>4, SpawnKeeps
<1>5. ASSUME NEW g \in Starts, NEW c \in Containers, TaskStep(g, c)
      PROVE  LogInv'
    <2>1. CASE OpenStream(g, c) \/ ReadLine(g, c) \/ (CheckActive(g, c) /\ active[g])
        BY <2>1, MoveKeeps DEF OpenStream, ReadLine, CheckActive, Alive
    <2>2. CASE StreamFails(g, c) \/ EndOfLog(g, c) \/ (CheckActive(g, c) /\ ~ active[g])
        BY <2>2, CompleteKeeps DEF StreamFails, EndOfLog, CheckActive, Alive
    <2>3. CASE MarkInactive(g, c)
        BY <2>3, MarkKeeps
    <2> QED BY <1>5, <2>1, <2>2, <2>3 DEF TaskStep
<1>6. CASE TimerReads
    BY <1>1, <1>6 DEF TimerReads
<1>7. CASE UNCHANGED logVars
    BY <1>1, <1>7 DEF logVars
<1> QED BY <1>2, <1>3, <1>4, <1>5, <1>6, <1>7 DEF LogNext

LEMMA LogInitInv == LogInit => LogInv
<1> SUFFICES ASSUME LogInit PROVE LogInv
    OBVIOUS
<1>1. Shapes
    BY LogAssumption DEF LogInit, Shapes, Starts
<1>2. \A g \in Starts : AliveOf(g) = {}
    BY DEF LogInit, AliveOf, Alive
<1>3. CountIsGuards
    BY <1>2, FS_EmptySet DEF LogInit, CountIsGuards
<1> QED BY <1>1, <1>3 DEF LogInit, LogInv, Unborn, OpenIsFed, OpenIsCurrent

LEMMA LogInvHolds == LogSpec => []LogInv
<1>1. LogInv /\ [LogNext]_logVars => LogInv'
    BY LogInvStep
<1> QED BY <1>1, LogInitInv, PTL DEF LogSpec

(* No log session stays open without a task to feed it, however tasks end  *)
(* while the loop still spawns others (log_session.rs, streaming.rs).      *)
THEOREM NoSessionUnfed == LogSpec => []NoZombieSession
<1>1. LogInv => NoZombieSession
    BY LogInvSuffices
<1> QED BY <1>1, LogInvHolds, PTL

(* At most one log session of a buffer is open, however often it is        *)
(* started, stopped and started again (views/logs/session.lua).            *)
THEOREM OneSessionOpen == LogSpec => []OneOpenSession
<1>1. LogInv => OneOpenSession
    BY LogInvSuffices
<1> QED BY <1>1, LogInvHolds, PTL

-----------------------------------------------------------------------------
(* Node shells.                                                            *)

Booleans == {attached, isActive, cleanedUp, drained, ticking} \subseteq BOOLEAN

AskedOnce == asked = IF cleanedUp THEN 1 ELSE 0

\* Before the streams are attached there is nothing to clean up.
NotYetOpen ==
    call # "open" => /\ reader = "none" /\ writer = "none" /\ term = "none"
                     /\ ticks = 0 /\ ~ ticking /\ ~ drained
                     /\ ~ attached /\ ~ cleanedUp

\* is_active is cleared by a task that found the end of the streams.
AttachedIsActive == call = "open" /\ attached => isActive

CleanedIsEnded == cleanedUp => ~ attached

ShellInv == Booleans /\ AskedOnce /\ NotYetOpen /\ AttachedIsActive /\ CleanedIsEnded

LEMMA OpeningKeeps ==
    ASSUME ShellInv, CreatePod \/ WaitForPodRunning \/ Attach
    PROVE  ShellInv'
<1> USE DEF ShellInv, Booleans, AskedOnce, NotYetOpen, AttachedIsActive, CleanedIsEnded, podVars, taskVars, termVars
<1>1. CASE CreatePod
    <2>1. call # "open" /\ call' # "open"
        BY <1>1 DEF CreatePod
    <2>2. UNCHANGED <<taskVars, termVars, cleanedUp, asked>>
        BY <1>1 DEF CreatePod
    <2> QED BY <2>1, <2>2
<1>2. CASE WaitForPodRunning
    <2>1. call # "open" /\ call' # "open"
        BY <1>2 DEF WaitForPodRunning
    <2>2. UNCHANGED <<taskVars, termVars, cleanedUp, asked>>
        BY <1>2 DEF WaitForPodRunning
    <2> QED BY <2>1, <2>2
<1>3. CASE Attach
    <2>1. call # "open" /\ UNCHANGED <<ticks, drained, ticking, cleanedUp, asked>>
        BY <1>3 DEF Attach
    <2>2. ~ cleanedUp /\ ~ cleanedUp' /\ asked' = 0
        BY <2>1
    <2>3. CASE call' = "open"
        <3>1. attached' = TRUE /\ isActive' = TRUE
            BY <1>3, <2>3 DEF Attach, SpawnIoTasks
        <3> QED BY <2>1, <2>2, <2>3, <3>1
    <2>4. CASE call' # "open"
        <3>1. UNCHANGED <<attached, reader, writer, isActive, term>>
            BY <1>3, <2>4 DEF Attach
        <3> QED BY <2>1, <2>2, <2>4, <3>1
    <2> QED BY <2>3, <2>4
<1> QED BY <1>1, <1>2, <1>3

LEMMA TasksKeep ==
    ASSUME ShellInv, ReadChunk \/ ReadEnd \/ Write
    PROVE  ShellInv'
<1> USE DEF ShellInv, Booleans, AskedOnce, NotYetOpen, AttachedIsActive, CleanedIsEnded, podVars, taskVars, termVars
<1>1. CASE ReadChunk
    BY <1>1 DEF ReadChunk
<1>2. CASE ReadEnd
    BY <1>2 DEF ReadEnd
<1>3. CASE Write
    <2>1. call = "open" /\ UNCHANGED <<call, attached, reader, cleanedUp, drained, ticking, asked, term, ticks>>
        BY <1>3 DEF Write
    <2>2. UNCHANGED isActive \/ (~ attached /\ isActive' \in BOOLEAN)
        BY <1>3 DEF Write
    <2> QED BY <2>1, <2>2
<1> QED BY <1>1, <1>2, <1>3

LEMMA TerminalKeeps ==
    ASSUME ShellInv, AttachSession \/ OnInput \/ WipeTerminal \/ Tick \/ Drain \/ CheckOpen
    PROVE  ShellInv'
<1> USE DEF ShellInv, Booleans, AskedOnce, NotYetOpen, AttachedIsActive, CleanedIsEnded, podVars, taskVars, termVars
<1>1. CASE AttachSession
    BY <1>1 DEF AttachSession
<1>2. CASE OnInput
    BY <1>2 DEF OnInput
<1>3. CASE WipeTerminal
    BY <1>3 DEF WipeTerminal
<1>4. CASE Tick
    BY <1>4 DEF Tick
<1>5. CASE Drain
    <2>1. call = "open"
        BY <1>5 DEF Drain
    <2>2. drained' \in BOOLEAN /\ UNCHANGED <<call, attached, isActive, cleanedUp, ticking, asked>>
        BY <1>5 DEF Drain
    <2> QED BY <2>1, <2>2
<1>6. CASE CheckOpen
    <2>1. call = "open" /\ drained' = FALSE /\ UNCHANGED <<call, attached, isActive>>
        BY <1>6 DEF CheckOpen
    <2>2. CASE isActive
        <3>1. UNCHANGED <<ticking, cleanedUp, asked>>
            BY <1>6, <2>2 DEF CheckOpen
        <3> QED BY <2>1, <3>1
    <2>3. CASE ~ isActive
        <3>1. ~ attached /\ ticking' = FALSE /\ CleanupPod
            BY <1>6, <2>1, <2>3 DEF CheckOpen
        <3>2. cleanedUp' = TRUE /\ asked' = 1
            BY <3>1 DEF CleanupPod
        <3> QED BY <2>1, <3>1, <3>2
    <2> QED BY <2>2, <2>3
<1> QED BY <1>1, <1>2, <1>3, <1>4, <1>5, <1>6

LEMMA ClusterKeeps ==
    ASSUME ShellInv, DeletePod \/ PodStarts \/ PodEnds \/ ConnectionLost \/ UNCHANGED shellVars
    PROVE  ShellInv'
<1> USE DEF ShellInv, Booleans, AskedOnce, NotYetOpen, AttachedIsActive, CleanedIsEnded, podVars, taskVars, termVars
<1>1. CASE DeletePod
    <2>1. attached' \in BOOLEAN /\ (attached' => attached)
        BY <1>1 DEF DeletePod
    <2> QED BY <1>1, <2>1 DEF DeletePod
<1>2. CASE PodStarts
    BY <1>2 DEF PodStarts
<1>3. CASE PodEnds
    BY <1>3 DEF PodEnds
<1>4. CASE ConnectionLost
    BY <1>4 DEF ConnectionLost
<1>5. CASE UNCHANGED shellVars
    BY <1>5 DEF shellVars
<1> QED BY <1>1, <1>2, <1>3, <1>4, <1>5

(* However many callbacks of the timer find the session closed, its pod is *)
(* deleted once, and only after the streams have ended (exec.rs,           *)
(* terminal.lua).                                                          *)
THEOREM PodDeletedOnce == ShellSpec => []DeletedOnceAfterEnd
<1>1. ShellInit => ShellInv
    BY DEF ShellInit, ShellInv, Booleans, AskedOnce, NotYetOpen, AttachedIsActive, CleanedIsEnded
<1>2. ShellInv /\ [ShellNext]_shellVars => ShellInv'
    BY OpeningKeeps, TasksKeep, TerminalKeeps, ClusterKeeps DEF ShellNext
<1>3. ShellInv => DeletedOnceAfterEnd
    BY DEF ShellInv, AskedOnce, CleanedIsEnded, DeletedOnceAfterEnd
<1> QED BY <1>1, <1>2, <1>3, PTL DEF ShellSpec

-----------------------------------------------------------------------------
(* Types.  What the invariants above leave open about log sessions: the    *)
(* queues, and that every timer belongs to a start.                        *)

LogRest ==
    /\ queue \in [Starts -> 0..MaxQueue]
    /\ closed \in [Starts -> BOOLEAN]
    /\ timers \in 0..made
    /\ toSpawn # {} => timers < made

LEMMA LogRestStep ==
    ASSUME LogInv, LogRest, [LogNext]_logVars
    PROVE  LogRest'
<1>1. made \in Nat /\ current \in 0..made /\ made <= MaxStarts /\ MaxStarts \in Nat
      /\ MaxQueue \in Nat /\ ChunkSize \in Nat
    BY LogAssumption DEF LogInv, Shapes
<1>2. CASE UNCHANGED <<made, toSpawn, queue, closed, timers>>
    BY <1>2 DEF LogRest
<1>3. CASE StopFollowing \/ TimerStops \/ LeaveBuffer
    <2>1. closed' \in [Starts -> BOOLEAN]
        BY <1>3 DEF StopFollowing, TimerStops, LeaveBuffer, StopSession, LogRest
    <2>2. timers' = 0 /\ toSpawn' = {} /\ UNCHANGED <<made, queue>>
        BY <1>3 DEF StopFollowing, TimerStops, LeaveBuffer, StopSession, MainIdle
    <2> QED BY <1>1, <2>1, <2>2 DEF LogRest
<1>4. CASE StartFollowing
    BY <1>1, <1>4 DEF StartFollowing, LogRest
<1>5. ASSUME NEW c \in Containers, SpawnTask(c)
      PROVE  LogRest'
    BY <1>1, <1>5 DEF SpawnTask, LogRest
<1>6. CASE TimerReads
    <2>1. current \in Starts
        BY <1>1, <1>6 DEF TimerReads, IsActive, Starts
    <2>2. queue' \in [Starts -> 0..MaxQueue]
        BY <1>1, <1>6, <2>1 DEF TimerReads, LogRest
    <2> QED BY <1>6, <2>2 DEF TimerReads, LogRest
<1>7. ASSUME NEW g \in Starts, NEW c \in Containers, TaskStep(g, c)
      PROVE  LogRest'
    <2>1. CASE Room(g) /\ Send(g) /\ UNCHANGED <<made, toSpawn, closed, timers>>
        <3>1. queue' \in [Starts -> 0..MaxQueue]
            BY <1>1, <2>1 DEF Room, Send, LogRest
        <3> QED BY <2>1, <3>1 DEF LogRest
    <2> QED BY <1>2, <1>7, <2>1 DEF TaskStep, OpenStream, StreamFails, CheckActive, ReadLine, EndOfLog, MarkInactive
<1>8. CASE UNCHANGED logVars
    BY <1>2, <1>8 DEF logVars
<1> QED BY <1>3, <1>4, <1>5, <1>6, <1>7, <1>8 DEF LogNext

(* Describe sessions: the channels are functions. *)
DescribeInv == DescribeTypeOK /\ texts \in [Sessions -> Seq(Contents)]

LEMMA StartTypes ==
    ASSUME DescribeInv, Start
    PROVE  /\ started' \in 0..MaxSessions /\ rust' \in 0..started' /\ kept' \subseteq 1..started'
           /\ open' \in [Sessions -> BOOLEAN]
           /\ texts' \in [Sessions -> Seq(Contents)] /\ \A s \in Sessions : Len(texts'[s]) <= MaxTexts
           /\ poll' \in [Sessions -> PollRecord]
           /\ loop' \in {"off", "idle", "running"}
<1>1. CASE UNCHANGED <<pollVars, rust, loop>>
    BY <1>1 DEF pollVars, DescribeInv, DescribeTypeOK
<1>2. CASE started < MaxSessions /\ started' = started + 1
           /\ rust' = started'
           /\ open' = [open EXCEPT ![started'] = TRUE]
           /\ texts' = [texts EXCEPT ![started'] = <<content>>]
           /\ poll' = [poll EXCEPT ![started'] = [at |-> "sleeping", last |-> content]]
           /\ StartLoop
           /\ UNCHANGED kept
    <2>1. MaxSessions \in Nat /\ MaxTexts \in Nat \ {0}
        BY DescribeAssumption
    <2>2. started' \in Sessions /\ started' \in 0..MaxSessions /\ rust' \in 0..started' /\ kept' \subseteq 1..started'
        BY <1>2, <2>1 DEF DescribeInv, DescribeTypeOK, Sessions
    <2>3. open' \in [Sessions -> BOOLEAN] /\ loop' \in {"off", "idle", "running"}
        BY <1>2 DEF StartLoop, DescribeInv, DescribeTypeOK
    <2>4. [at |-> "sleeping", last |-> content] \in PollRecord
        BY DEF PollRecord, DescribeInv, DescribeTypeOK
    <2>5. poll' \in [Sessions -> PollRecord]
        BY <1>2, <2>4 DEF DescribeInv, DescribeTypeOK
    <2>6. <<content>> \in Seq(Contents) /\ Len(<<content>>) = 1
        BY DEF DescribeInv, DescribeTypeOK
    <2>7. texts' \in [Sessions -> Seq(Contents)] /\ \A s \in Sessions : Len(texts'[s]) <= MaxTexts
        <3>1. texts' \in [Sessions -> Seq(Contents)]
            BY <1>2, <2>6 DEF DescribeInv
        <3>2. ASSUME NEW s \in Sessions PROVE Len(texts'[s]) <= MaxTexts
            <4>1. CASE s = started'
                BY <1>2, <2>1, <2>2, <2>6, <4>1 DEF DescribeInv
            <4>2. CASE s # started'
                BY <1>2, <4>2 DEF DescribeInv, DescribeTypeOK
            <4> QED BY <4>1, <4>2
        <3> QED BY <3>1, <3>2
    <2> QED BY <2>2, <2>3, <2>5, <2>7
<1> QED BY <1>1, <1>2 DEF Start

LEMMA DescribeUserTypes ==
    ASSUME DescribeInv,
           View \/ ViewAgain \/ Toggle \/ Enter \/ StopLoop \/ CloseWindow \/ Wipe \/ ResourceChanges
    PROVE  DescribeInv'
<1>1. {MaxSessions, MaxBuffers, MaxWindows, MaxTexts, MaxScheduled} \subseteq Nat /\ MaxWindows # 0
    BY DescribeAssumption
<1>2. MaxBuffers \in Nat /\ MaxWindows \in Nat /\ MaxWindows >= 1 /\ MaxScheduled \in Nat /\ MaxSessions \in Nat
    BY <1>1
<1>3. CASE View
    <2>1. Start
        BY <1>3 DEF View
    <2>2. buffers' \in 0..MaxBuffers
        BY <1>2, <1>3 DEF View, DescribeInv, DescribeTypeOK
    <2>3. windows' \in 0..MaxWindows
        BY <1>2, <1>3 DEF View
    <2> QED BY <1>3, <2>1, <2>2, <2>3, StartTypes DEF View, DescribeInv, DescribeTypeOK
<1>4. CASE ViewAgain
    <2>1. Start
        BY <1>4 DEF ViewAgain
    <2>2. windows' \in 0..MaxWindows
        BY <1>2, <1>4 DEF ViewAgain
    <2> QED BY <1>4, <2>1, <2>2, StartTypes DEF ViewAgain, DescribeInv, DescribeTypeOK
<1>5. CASE Toggle
    <2>1. CASE Start
        BY <1>5, <2>1, StartTypes DEF Toggle, DescribeInv, DescribeTypeOK
    <2>2. CASE Stop
        <3>1. open' \in [Sessions -> BOOLEAN]
            BY <2>2 DEF Stop, DescribeInv, DescribeTypeOK
        <3>2. rust' \in 0..started' /\ started' = started
            BY <2>2 DEF Stop, DescribeInv, DescribeTypeOK
        <3> QED BY <1>5, <2>2, <3>1, <3>2 DEF Toggle, Stop, DescribeInv, DescribeTypeOK
    <2> QED BY <1>5, <2>1, <2>2 DEF Toggle
<1>6. CASE Enter \/ StopLoop
    BY <1>6 DEF Enter, StopLoop, pollVars, DescribeInv, DescribeTypeOK
<1>7. CASE CloseWindow
    <2>1. windows' \in 0..MaxWindows
        BY <1>2, <1>7 DEF CloseWindow, DescribeInv, DescribeTypeOK
    <2> QED BY <1>7, <2>1 DEF CloseWindow, pollVars, DescribeInv, DescribeTypeOK
<1>8. CASE Wipe
    <2>1. windows' \in 0..MaxWindows /\ scheduled' \in 0..MaxScheduled /\ rust' \in 0..started'
        BY <1>2, <1>8 DEF Wipe, DescribeInv, DescribeTypeOK
    <2>2. kept' \subseteq 1..started'
        BY <1>8 DEF Wipe, DescribeInv, DescribeTypeOK
    <2> QED BY <1>8, <2>1, <2>2 DEF Wipe, DescribeInv, DescribeTypeOK
<1>9. CASE ResourceChanges
    BY <1>9 DEF ResourceChanges, pollVars, DescribeInv, DescribeTypeOK
<1> QED BY <1>3, <1>4, <1>5, <1>6, <1>7, <1>8, <1>9

LEMMA DescribeLoopTypes ==
    ASSUME DescribeInv, TimerFires \/ CallbackPaused \/ Callback
    PROVE  DescribeInv'
<1>1. MaxScheduled \in Nat /\ MaxTexts \in Nat
    BY DescribeAssumption
<1>2. CASE TimerFires
    BY <1>1, <1>2 DEF TimerFires, pollVars, DescribeInv, DescribeTypeOK
<1>3. CASE CallbackPaused
    BY <1>1, <1>3 DEF CallbackPaused, pollVars, DescribeInv, DescribeTypeOK
<1>4. CASE Callback
    <2>1. scheduled' \in 0..MaxScheduled /\ loop' \in {"off", "idle", "running"}
        BY <1>1, <1>4 DEF Callback, DescribeInv, DescribeTypeOK
    <2>2. CASE UNCHANGED <<text, texts>>
        BY <1>4, <2>1, <2>2 DEF Callback, DescribeInv, DescribeTypeOK
    <2>3. CASE HasOpenSession /\ texts[rust] # <<>> /\ text' = Head(texts[rust])
               /\ texts' = [texts EXCEPT ![rust] = Tail(texts[rust])]
        <3>1. rust \in Sessions
            <4>1. rust \in 0..started /\ started \in 0..MaxSessions /\ MaxSessions \in Nat
                BY DescribeAssumption DEF DescribeInv, DescribeTypeOK
            <4> QED BY <2>3, <4>1 DEF HasOpenSession, Sessions
        <3>2. texts[rust] \in Seq(Contents) /\ Len(texts[rust]) <= MaxTexts
            BY <3>1 DEF DescribeInv, DescribeTypeOK
        <3>3. /\ Head(texts[rust]) \in Contents /\ Tail(texts[rust]) \in Seq(Contents)
              /\ Len(Tail(texts[rust])) = Len(texts[rust]) - 1 /\ Len(texts[rust]) \in Nat
            BY <2>3, <3>2, HeadTailProperties, LenProperties
        <3>4. texts' \in [Sessions -> Seq(Contents)]
            BY <2>3, <3>3 DEF DescribeInv, DescribeTypeOK
        <3>5. \A s \in Sessions : Len(texts'[s]) <= MaxTexts
            BY <1>1, <2>3, <3>1, <3>2, <3>3 DEF DescribeInv, DescribeTypeOK
        <3> QED BY <1>4, <2>1, <2>3, <3>3, <3>4, <3>5 DEF Callback, DescribeInv, DescribeTypeOK
    <2> QED BY <1>4, <2>2, <2>3 DEF Callback
<1> QED BY <1>2, <1>3, <1>4

LEMMA PollTypes ==
    ASSUME DescribeInv, NEW s \in Sessions, PollStep(s) \/ DescribeFails(s)
    PROVE  DescribeInv'
<1>1. poll[s] \in PollRecord /\ MaxTexts \in Nat
    BY DescribeAssumption DEF DescribeInv, DescribeTypeOK
<1>2. ASSUME NEW record \in PollRecord, poll' = [poll EXCEPT ![s] = record],
             UNCHANGED <<content, buffers, windows, text, rust, loop, scheduled, started, kept, open, texts>>
      PROVE  DescribeInv'
    <2>1. poll' \in [Sessions -> PollRecord]
        BY <1>2 DEF DescribeInv, DescribeTypeOK
    <2> QED BY <1>2, <2>1 DEF DescribeInv, DescribeTypeOK
<1>3. [at |-> "done"] \in PollRecord
    BY DEF PollRecord
<1>4. CASE Wake(s)
    <2>1. [poll[s] EXCEPT !.at = "describing"] \in PollRecord
        BY <1>1, <1>4 DEF Wake, PollRecord
    <2> QED BY <1>2, <1>3, <1>4, <2>1 DEF Wake
<1>5. CASE Describe(s)
    <2>1. [at |-> "answered", last |-> poll[s].last, answer |-> content] \in PollRecord
        BY <1>1, <1>5 DEF Describe, PollRecord, DescribeInv, DescribeTypeOK
    <2> QED BY <1>2, <1>5, <2>1 DEF Describe
<1>6. CASE DescribeFails(s)
    <2>1. [poll[s] EXCEPT !.at = "sleeping"] \in PollRecord
        BY <1>1, <1>6 DEF DescribeFails, PollRecord
    <2>2. poll' = [poll EXCEPT ![s] = [poll[s] EXCEPT !.at = "sleeping"]]
        BY <1>6 DEF DescribeFails
    <2> QED BY <1>2, <1>6, <2>1, <2>2 DEF DescribeFails
<1>7. CASE Deliver(s)
    <2>1. poll[s].last \in Contents /\ poll[s].answer \in Contents
        BY <1>1, <1>7 DEF Deliver, PollRecord
    <2>2. \A c \in Contents : [at |-> "sleeping", last |-> c] \in PollRecord
        BY DEF PollRecord
    <2>3. CASE poll' = [poll EXCEPT ![s] = [at |-> "sleeping", last |-> poll[s].last]] /\ UNCHANGED <<texts, open>>
        BY <1>2, <1>7, <2>1, <2>2, <2>3 DEF Deliver
    <2>4. CASE /\ Len(texts[s]) < MaxTexts
               /\ texts' = [texts EXCEPT ![s] = Append(texts[s], poll[s].answer)]
               /\ poll' = [poll EXCEPT ![s] = [at |-> "sleeping", last |-> poll[s].answer]]
               /\ UNCHANGED open
        <3>1. texts[s] \in Seq(Contents)
            BY DEF DescribeInv
        <3>2. /\ Append(texts[s], poll[s].answer) \in Seq(Contents)
              /\ Len(Append(texts[s], poll[s].answer)) = Len(texts[s]) + 1 /\ Len(texts[s]) \in Nat
            BY <2>1, <3>1, AppendProperties, LenProperties
        <3>3. texts' \in [Sessions -> Seq(Contents)] /\ \A z \in Sessions : Len(texts'[z]) <= MaxTexts
            BY <1>1, <2>4, <3>2 DEF DescribeInv, DescribeTypeOK
        <3>4. poll' \in [Sessions -> PollRecord]
            BY <2>1, <2>2, <2>4 DEF DescribeInv, DescribeTypeOK
        <3> QED BY <1>7, <2>4, <3>3, <3>4 DEF Deliver, DescribeInv, DescribeTypeOK
    <2>5. CASE /\ poll' = [poll EXCEPT ![s] = [at |-> "done"]]
               /\ open' = [open EXCEPT ![s] = FALSE]
               /\ UNCHANGED texts
        <3>1. poll' \in [Sessions -> PollRecord] /\ open' \in [Sessions -> BOOLEAN]
            BY <1>3, <2>5 DEF DescribeInv, DescribeTypeOK
        <3> QED BY <1>7, <2>5, <3>1 DEF Deliver, DescribeInv, DescribeTypeOK
    <2> QED BY <1>7, <2>3, <2>4, <2>5 DEF Deliver
<1> QED BY <1>4, <1>5, <1>6, <1>7 DEF PollStep

(* Node shells: the count of guards is the number of tasks that wait. *)
Waiting(task) == IF task = "waiting" THEN 1 ELSE 0

ShellRest ==
    /\ call \in {"create", "wait", "attach", "open", "failed"}
    /\ pod \in {"none", "pending", "running", "ended", "gone"}
    /\ reader \in {"none", "waiting", "done"} /\ writer \in {"none", "waiting", "done"}
    /\ input \in BOOLEAN /\ deleting \in BOOLEAN
    /\ guards = Waiting(reader) + Waiting(writer)
    /\ output \in 0..MaxChunks
    /\ term \in {"none", "scheduled", "shown", "wiped"}
    /\ ticks \in 0..MaxTicks
    /\ drained => ticks > 0

LEMMA ShellRestStep ==
    ASSUME ShellInv, ShellRest, [ShellNext]_shellVars
    PROVE  ShellRest'
<1>1. MaxChunks \in Nat /\ MaxTicks \in Nat /\ ticks \in Nat /\ output \in Nat
    BY ShellAssumption DEF ShellRest
<1> USE DEF ShellRest, podVars, taskVars, termVars
<1>2. CASE CreatePod \/ WaitForPodRunning
    BY <1>2 DEF CreatePod, WaitForPodRunning
<1>3. CASE Attach
    BY <1>3 DEF Attach, SpawnIoTasks, Waiting, ShellInv, NotYetOpen
<1>4. CASE ReadChunk
    BY <1>1, <1>4 DEF ReadChunk
<1>5. CASE ReadEnd
    BY <1>5 DEF ReadEnd, Waiting
<1>6. CASE Write
    <2>1. input' = FALSE /\ UNCHANGED <<call, podVars, reader, output, termVars>>
        BY <1>6 DEF Write
    <2>2. CASE UNCHANGED <<writer, guards>>
        <3>1. guards' = Waiting(reader') + Waiting(writer')
            BY <2>1, <2>2
        <3>2. /\ call' = call /\ pod' = pod /\ reader' = reader /\ writer' = writer /\ input' = FALSE
              /\ deleting' = deleting /\ output' = output /\ term' = term /\ ticks' = ticks /\ drained' = drained
            BY <2>1, <2>2
        <3> HIDE DEF Waiting
        <3>3. /\ call' \in {"create", "wait", "attach", "open", "failed"}
              /\ pod' \in {"none", "pending", "running", "ended", "gone"}
              /\ reader' \in {"none", "waiting", "done"} /\ writer' \in {"none", "waiting", "done"}
              /\ term' \in {"none", "scheduled", "shown", "wiped"}
            BY <3>2
        <3>4. input' \in BOOLEAN /\ deleting' \in BOOLEAN
            BY <3>2
        <3>5. output' \in 0..MaxChunks /\ ticks' \in 0..MaxTicks /\ (drained' => ticks' > 0)
            BY <1>1, <3>2
        <3> QED BY <3>1, <3>3, <3>4, <3>5
    <2>3. CASE writer = "waiting" /\ writer' = "done" /\ guards' = guards - 1
        <3>1. guards' = Waiting(reader') + Waiting(writer')
            BY <2>1, <2>3 DEF Waiting
        <3>2. writer' \in {"none", "waiting", "done"}
            BY <2>3
        <3> QED BY <2>1, <3>1, <3>2
    <2> QED BY <1>6, <2>2, <2>3 DEF Write
<1>7. CASE AttachSession \/ OnInput \/ WipeTerminal
    <2>1. CASE AttachSession
        <3>1. term' \in {"shown", "wiped"} /\ input' \in BOOLEAN
            BY <2>1 DEF AttachSession
        <3> QED BY <2>1, <3>1 DEF AttachSession
    <2>2. CASE OnInput
        BY <2>2 DEF OnInput
    <2>3. CASE WipeTerminal
        BY <2>3 DEF WipeTerminal
    <2> QED BY <1>7, <2>1, <2>2, <2>3
<1>8. CASE Tick
    BY <1>1, <1>8 DEF Tick
<1>9. CASE Drain
    BY <1>1, <1>9 DEF Drain
<1>10. CASE CheckOpen
    <2>1. ticks' \in 0..MaxTicks /\ ~ drained' /\ UNCHANGED <<call, pod, taskVars, term>>
        BY <1>1, <1>10 DEF CheckOpen
    <2>2. deleting' \in BOOLEAN
        BY <1>10 DEF CheckOpen, CleanupPod
    <2> QED BY <2>1, <2>2
<1>11. CASE DeletePod \/ PodStarts \/ PodEnds \/ ConnectionLost
    <2>1. CASE DeletePod
        BY <2>1 DEF DeletePod
    <2>2. CASE PodStarts
        BY <2>2 DEF PodStarts
    <2>3. CASE PodEnds
        BY <2>3 DEF PodEnds
    <2>4. CASE ConnectionLost
        BY <2>4 DEF ConnectionLost
    <2> QED BY <1>11, <2>1, <2>2, <2>3, <2>4
<1>12. CASE UNCHANGED shellVars
    BY <1>12 DEF shellVars
<1> QED BY <1>2, <1>3, <1>4, <1>5, <1>6, <1>7, <1>8, <1>9, <1>10, <1>11, <1>12 DEF ShellNext

SessionInv == LogInv /\ LogRest /\ DescribeInv /\ ShellInv /\ ShellRest

LEMMA SessionInvTypes == SessionInv => SessionTypeOK
<1> SUFFICES ASSUME SessionInv PROVE SessionTypeOK
    OBVIOUS
<1>1. LogTypeOK
    <2>1. timers \in 0..MaxStarts
        BY LogAssumption DEF SessionInv, LogInv, LogRest, Shapes
    <2> QED BY <2>1 DEF SessionInv, LogInv, LogRest, Shapes, LogTypeOK
<1>2. DescribeTypeOK
    BY DEF SessionInv, DescribeInv
<1>3. ShellTypeOK
    BY DEF SessionInv, ShellInv, ShellRest, Booleans, AskedOnce, Waiting, ShellTypeOK
<1> QED BY <1>1, <1>2, <1>3 DEF SessionTypeOK

(* A step of one session is none of the others. *)
LEMMA SessionInvStep ==
    ASSUME SessionInv,
           \/ [LogNext]_logVars /\ UNCHANGED <<describeVars, shellVars>>
           \/ [DescribeNext]_describeVars /\ UNCHANGED <<logVars, shellVars>>
           \/ [ShellNext]_shellVars /\ UNCHANGED <<logVars, describeVars>>
    PROVE  SessionInv'
<1>1. [LogNext]_logVars => LogInv' /\ LogRest'
    BY LogInvStep, LogRestStep DEF SessionInv
<1>2. [ShellNext]_shellVars => ShellInv' /\ ShellRest'
    BY OpeningKeeps, TasksKeep, TerminalKeeps, ClusterKeeps, ShellRestStep DEF ShellNext, SessionInv
<1>3. [DescribeNext]_describeVars => DescribeInv'
    <2>1. ASSUME UNCHANGED describeVars PROVE DescribeInv'
        BY <2>1 DEF describeVars, SessionInv, DescribeInv, DescribeTypeOK
    <2> QED BY <2>1, DescribeUserTypes, DescribeLoopTypes, PollTypes DEF DescribeNext, SessionInv
<1> QED BY <1>1, <1>2, <1>3 DEF SessionInv

LEMMA SessionInvHolds == MCSpec => []SessionInv
<1>1. MCInit => SessionInv
    <2> SUFFICES ASSUME MCInit PROVE SessionInv
        OBVIOUS
    <2>1. LogInv
        BY LogInitInv DEF MCInit
    <2>2. LogRest
        BY LogAssumption DEF MCInit, LogInit, LogRest
    <2>3. DescribeInv
        <3>1. <<>> \in Seq(Contents) /\ Len(<<>>) = 0
            OBVIOUS
        <3>2. /\ texts \in [Sessions -> Seq(Contents)] /\ \A s \in Sessions : Len(texts[s]) <= MaxTexts
            BY <3>1, DescribeAssumption DEF MCInit, DescribeInit
        <3>3. poll \in [Sessions -> PollRecord]
            BY DEF MCInit, DescribeInit, PollRecord
        <3>4. 0 \in 0..MaxBuffers /\ 0 \in 0..MaxWindows /\ 0 \in 0..MaxSessions /\ 0 \in 0..MaxScheduled /\ 0 \in 0..0
            BY DescribeAssumption
        <3> QED BY <3>2, <3>3, <3>4 DEF MCInit, DescribeInit, DescribeInv, DescribeTypeOK
    <2>4. ShellInv
        BY DEF MCInit, ShellInit, ShellInv, Booleans, AskedOnce, NotYetOpen, AttachedIsActive, CleanedIsEnded
    <2>5. ShellRest
        <3>1. 0 \in 0..MaxChunks /\ 0 \in 0..MaxTicks
            BY ShellAssumption
        <3>2. guards = Waiting(reader) + Waiting(writer)
            BY DEF MCInit, ShellInit, Waiting
        <3> QED BY <3>1, <3>2 DEF MCInit, ShellInit, ShellRest
    <2> QED BY <2>1, <2>2, <2>3, <2>4, <2>5 DEF SessionInv
<1>2. ASSUME SessionInv,
             [ /\ UNCHANGED part
               /\ \/ part = "logs" /\ LogNext /\ UNCHANGED <<describeVars, shellVars>>
                  \/ part = "describe" /\ DescribeNext /\ UNCHANGED <<logVars, shellVars>>
                  \/ part = "shell" /\ ShellNext /\ UNCHANGED <<logVars, describeVars>>
             ]_sessionVars
      PROVE  SessionInv'
    <2>1. CASE UNCHANGED sessionVars
        BY <1>2, <2>1, SessionInvStep DEF sessionVars
    <2> QED BY <1>2, <2>1, SessionInvStep
<1> QED BY <1>1, <1>2, PTL DEF MCSpec

(* The variables of the three sessions keep their types: every queue and   *)
(* timer within its bound, and as many guards of a shell as tasks that     *)
(* wait (log_session.rs, describe_session.rs, exec.rs, streaming.rs).      *)
THEOREM SessionTypesCorrect == MCSpec => []SessionTypeOK
<1>1. SessionInv => SessionTypeOK
    BY SessionInvTypes
<1> QED BY <1>1, SessionInvHolds, PTL
=============================================================================
