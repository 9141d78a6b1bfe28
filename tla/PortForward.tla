----------------------------- MODULE PortForward -----------------------------
(***************************************************************************)
(* Port forwards, kubectl-client/src/cmd/portforward.rs: PF_MAP, the       *)
(* accept task of each forward and the task of each connection.  They are  *)
(* started, listed and stopped from the main thread, which blocks while it *)
(* binds and while it waits for a task to end; the tasks run on meanwhile. *)
(***************************************************************************)
EXTENDS Integers, FiniteSets, Functions

CONSTANTS
    Binds,        \* the addresses a listener may be bound to
    PodTargets,   \* what may be forwarded to: pods,
    ServiceTargets,  \* and services
    NoForward,    \* an address that nobody listens on
    Peers,        \* the connections ever made to a forwarded port
    KeptConns,    \* as many connection tasks are kept before some are let go (8)
    MaxForwards   \* bound: starts that get an id

ASSUME PortForwardAssumption ==
    /\ PodTargets \cup ServiceTargets # {}
    /\ KeptConns \in Nat \ {0}
    /\ MaxForwards \in Nat
    /\ NoForward \notin 1..MaxForwards

VARIABLES
    hasClient,  \* CLIENT_INSTANCE holds a client
    pfCounter,  \* PF_COUNTER: the ids given are below it
    pfMap,      \* PF_MAP: the ids listed, with what they forward to
    listener,   \* which forward holds the listener of an address
    accepting,  \* the accept task of each forward, and whether it was cancelled
    conns,      \* each connection and its task
    connTasks,  \* the connections whose task the accept task still knows
    pfMain      \* what the main thread is doing

pfVars == <<hasClient, pfCounter, pfMap, listener, accepting, conns, connTasks, pfMain>>

Ids == 1..MaxForwards
Targets == PodTargets \cup ServiceTargets
Idle == [pc |-> "idle"]

\* The connections whose task has not ended.
Unfinished == {"resolve", "connect", "copy"}

PfTypeOK ==
    /\ hasClient \in BOOLEAN
    /\ pfCounter \in 1..(MaxForwards + 1)
    /\ DOMAIN pfMap \subseteq 1..(pfCounter - 1)
    /\ \A id \in DOMAIN pfMap : pfMap[id] \in [target : Targets, at : Binds]
    /\ listener \in [Binds -> Ids \cup {NoForward}]
    /\ accepting \in [Ids -> [pc : {"none", "select", "sleep", "abort", "done"}, cancelled : BOOLEAN,
                              target : Targets]]
    /\ conns \in [Peers -> [stage : {"none", "backlog", "closed"} \cup Unfinished, of : {NoForward} \cup Ids, aborted : BOOLEAN]]
    /\ connTasks \in [Ids -> SUBSET Peers]

PfInit ==
    /\ hasClient = FALSE
    /\ pfCounter = 1
    /\ pfMap = <<>>
    /\ listener = [a \in Binds |-> NoForward]
    /\ accepting = [id \in Ids |-> [pc |-> "none", cancelled |-> FALSE,
                        target |-> CHOOSE t \in Targets : TRUE]]
    /\ conns = [p \in Peers |-> [stage |-> "none", of |-> NoForward, aborted |-> FALSE]]
    /\ connTasks = [id \in Ids |-> {}]
    /\ pfMain = Idle

-----------------------------------------------------------------------------
(* The main thread.                                                        *)

(* The client is cloned and an id given before the address is bound; a     *)
(* start that cannot bind is reported and its id lost.                     *)
Bind(target, a) ==
    /\ pfMain = Idle
    /\ hasClient
    /\ pfCounter <= MaxForwards
    /\ pfCounter' = pfCounter + 1
    /\ IF listener[a] = NoForward
       THEN /\ listener' = [listener EXCEPT ![a] = pfCounter]
            /\ pfMain' = [pc |-> "spawn", id |-> pfCounter, target |-> target, at |-> a]
       ELSE UNCHANGED <<listener, pfMain>>
    /\ UNCHANGED <<hasClient, pfMap, accepting, conns, connTasks>>

Spawn ==
    /\ pfMain.pc = "spawn"
    /\ accepting' = [accepting EXCEPT ![pfMain.id] =
            [pc |-> "select", cancelled |-> FALSE, target |-> pfMain.target]]
    /\ pfMain' = [pfMain EXCEPT !.pc = "insert"]
    /\ UNCHANGED <<hasClient, pfCounter, pfMap, listener, conns, connTasks>>

Insert ==
    /\ pfMain.pc = "insert"
    /\ pfMap' = [id \in DOMAIN pfMap \cup {pfMain.id} |->
            IF id = pfMain.id THEN [target |-> pfMain.target, at |-> pfMain.at] ELSE pfMap[id]]
    /\ pfMain' = Idle
    /\ UNCHANGED <<hasClient, pfCounter, listener, accepting, conns, connTasks>>

(* The row of a forward is deleted.  The id of one that is gone raises. *)
Stop(id) ==
    /\ pfMain = Idle
    /\ id \in DOMAIN pfMap
    /\ pfMap' = Restrict(pfMap, DOMAIN pfMap \ {id})
    /\ accepting' = [accepting EXCEPT ![id].cancelled = TRUE]
    /\ pfMain' = [pc |-> "wait", id |-> id]
    /\ UNCHANGED <<hasClient, pfCounter, listener, conns, connTasks>>

Stopped ==
    /\ pfMain.pc = "wait"
    /\ accepting[pfMain.id].pc = "done"
    /\ pfMain' = Idle
    /\ UNCHANGED <<hasClient, pfCounter, pfMap, listener, accepting, conns, connTasks>>

-----------------------------------------------------------------------------
(* The accept task of a forward: select! takes any branch that is ready.   *)

Ended(p) == conns[p].stage = "closed"

(* Mutant: the tasks that have ended are kept. *)
RetainEnded(tasks) == IF Cardinality(tasks) >= KeptConns THEN {p \in tasks : Ended(p)} ELSE tasks

Retain(tasks) == IF Cardinality(tasks) >= KeptConns THEN {p \in tasks : ~ Ended(p)} ELSE tasks

Accept(id, p) ==
    /\ accepting[id].pc = "select"
    /\ conns[p].stage = "backlog" /\ conns[p].of = id
    /\ conns' = [conns EXCEPT ![p].stage =
            IF accepting[id].target \in ServiceTargets THEN "resolve" ELSE "connect"]
    /\ connTasks' = [connTasks EXCEPT ![id] = Retain(@ \cup {p})]
    /\ UNCHANGED <<hasClient, pfCounter, pfMap, listener, accepting, pfMain>>

(* An accept that fails is tried again after 200 ms, and the task looks at *)
(* nothing else meanwhile.                                                 *)
AcceptFails(id) ==
    /\ accepting[id].pc = "select"
    /\ accepting' = [accepting EXCEPT ![id].pc = "sleep"]
    /\ UNCHANGED <<hasClient, pfCounter, pfMap, listener, conns, connTasks, pfMain>>

Slept(id) ==
    /\ accepting[id].pc = "sleep"
    /\ accepting' = [accepting EXCEPT ![id].pc = "select"]
    /\ UNCHANGED <<hasClient, pfCounter, pfMap, listener, conns, connTasks, pfMain>>

(* Mutant: the connections are waited for and not aborted. *)
CancelledWithoutAbort(id) ==
    /\ accepting[id].pc = "select" /\ accepting[id].cancelled
    /\ accepting' = [accepting EXCEPT ![id].pc = "abort"]
    /\ UNCHANGED <<hasClient, pfCounter, pfMap, listener, conns, connTasks, pfMain>>

Cancelled(id) ==
    /\ accepting[id].pc = "select" /\ accepting[id].cancelled
    /\ accepting' = [accepting EXCEPT ![id].pc = "abort"]
    /\ conns' = [p \in Peers |-> IF p \in connTasks[id] THEN [conns[p] EXCEPT !.aborted = TRUE] ELSE conns[p]]
    /\ UNCHANGED <<hasClient, pfCounter, pfMap, listener, connTasks, pfMain>>

(* The listener goes with the task; who was not accepted is refused. *)
AcceptEnds(id) ==
    /\ accepting[id].pc = "abort"
    /\ \A p \in connTasks[id] : Ended(p)
    /\ accepting' = [accepting EXCEPT ![id].pc = "done"]
    /\ listener' = [a \in Binds |-> IF listener[a] = id THEN NoForward ELSE listener[a]]
    /\ conns' = [p \in Peers |-> IF conns[p].stage = "backlog" /\ conns[p].of = id
                                 THEN [conns[p] EXCEPT !.stage = "closed"] ELSE conns[p]]
    /\ UNCHANGED <<hasClient, pfCounter, pfMap, connTasks, pfMain>>

-----------------------------------------------------------------------------
(* The task of a connection.                                               *)

(* What an await of a connection's task may find: resolve_pod_for_service  *)
(* finds a ready pod or gives up; portforward() gets a stream in one of    *)
(* three attempts or does not; either side ends the copy.                  *)
NextStage(stage) ==
    CASE stage = "resolve" -> {"connect", "closed"}
      [] stage = "connect" -> {"copy", "closed"}
      [] stage = "copy" -> {"closed"}

Proceed(p) ==
    /\ conns[p].stage \in Unfinished
    /\ \E stage \in NextStage(conns[p].stage) : conns' = [conns EXCEPT ![p].stage = stage]
    /\ UNCHANGED <<hasClient, pfCounter, pfMap, listener, accepting, connTasks, pfMain>>

(* An aborted task is dropped at its await. *)
Dropped(p) ==
    /\ conns[p].stage \in Unfinished /\ conns[p].aborted
    /\ conns' = [conns EXCEPT ![p].stage = "closed"]
    /\ UNCHANGED <<hasClient, pfCounter, pfMap, listener, accepting, connTasks, pfMain>>

-----------------------------------------------------------------------------
(* The rest.                                                               *)

(* Someone connects: the listener's backlog has it from the bind on. *)
PeerConnects(p, a) ==
    /\ conns[p].stage = "none"
    /\ listener[a] # NoForward
    /\ conns' = [conns EXCEPT ![p] = [stage |-> "backlog", of |-> listener[a], aborted |-> FALSE]]
    /\ UNCHANGED <<hasClient, pfCounter, pfMap, listener, accepting, connTasks, pfMain>>

ClientChanges ==
    /\ hasClient' = ~ hasClient
    /\ UNCHANGED <<pfCounter, pfMap, listener, accepting, conns, connTasks, pfMain>>

PfMainStep == Spawn \/ Insert \/ Stopped
AcceptTask(id) == Slept(id) \/ Cancelled(id) \/ AcceptEnds(id)

PfNext ==
    \/ \E t \in Targets, a \in Binds : Bind(t, a)
    \/ PfMainStep
    \/ \E id \in Ids : Stop(id) \/ AcceptTask(id) \/ AcceptFails(id)
    \/ \E id \in Ids, p \in Peers : Accept(id, p)
    \/ \E p \in Peers : Proceed(p) \/ Dropped(p)
    \/ \E p \in Peers, a \in Binds : PeerConnects(p, a)
    \/ ClientChanges

PfSpec == PfInit /\ [][PfNext]_pfVars

(* tokio polls the tasks, and select! takes its branches at random: a task *)
(* that comes back to it again and again takes the cancellation some time. *)
(* Nothing makes a peer speak or hang up.                                  *)
PfFairness ==
    /\ WF_pfVars(PfMainStep)
    /\ \A id \in Ids : WF_pfVars(Slept(id)) /\ SF_pfVars(Cancelled(id)) /\ WF_pfVars(AcceptEnds(id))
    /\ \A p \in Peers : WF_pfVars(Dropped(p))

-----------------------------------------------------------------------------

(* A forward that was stopped has let go of everything by the time the     *)
(* call returns, also of connections that came while it was stopping, and  *)
(* one that could not be started holds nothing: its port can be forwarded  *)
(* again at once, and nobody reaches the cluster through a forward that is *)
(* not listed (portforward.rs, portforward_stop and run_forward).          *)
UnlistedIsReleased ==
    \A id \in Ids : id \notin DOMAIN pfMap /\ (pfMain = Idle \/ pfMain.id # id) =>
        /\ \A a \in Binds : listener[a] # id
        /\ \A p \in Peers : conns[p].of = id => conns[p].stage = "closed"

(* Stopping a forward gives the editor back, whatever its connections are  *)
(* doing, and also while accepting fails: the main thread is blocked until *)
(* then.                                                                   *)
StopReturns == (pfMain # Idle) ~> (pfMain = Idle)
=============================================================================
