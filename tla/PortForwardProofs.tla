------------------------- MODULE PortForwardProofs -------------------------
(***************************************************************************)
(* Port forwards, for any addresses, targets, connections and number of    *)
(* forwards: what is not listed holds nothing.  The tasks and the main     *)
(* thread share no step in which that could be seen directly; it follows   *)
(* from who answers for a port and for a connection at each moment.        *)
(***************************************************************************)
EXTENDS PortForward, TLAPS

Live(id) == accepting[id].pc \in {"select", "sleep", "abort"}

\* A port that is bound is of a task that accepts, or of one about to begin.
Held(id) == Live(id) \/ (pfMain.pc = "spawn" /\ pfMain.id = id)

Shapes ==
    /\ accepting \in [Ids -> [pc : {"none", "select", "sleep", "abort", "done"}, cancelled : BOOLEAN, target : Targets]]
    /\ conns \in [Peers -> [stage : {"none", "backlog", "closed"} \cup Unfinished, of : {NoForward} \cup Ids, aborted : BOOLEAN]]
    /\ connTasks \in [Ids -> SUBSET Peers]
    /\ pfCounter \in Nat \ {0}
    /\ \/ pfMain = Idle
       \/ pfMain \in [pc : {"spawn", "insert"}, id : Ids, target : Targets, at : Binds]
       \/ pfMain \in [pc : {"wait"}, id : Ids]

PortsAreHeld ==
    /\ listener \in [Binds -> Ids \cup {NoForward}]
    /\ \A a \in Binds : listener[a] # NoForward => Held(listener[a])

BacklogIsHeld ==
    \A p \in Peers : conns[p].stage = "backlog" => conns[p].of \in Ids /\ Held(conns[p].of)

ConnsAreKnown ==
    \A p \in Peers : conns[p].stage \in Unfinished =>
        conns[p].of \in Ids /\ Live(conns[p].of) /\ p \in connTasks[conns[p].of]

FreshConns == \A p \in Peers : conns[p].stage = "none" => conns[p].of = NoForward

\* A task that accepts is listed, or the main thread has it in hand.
LiveIsListed ==
    \A id \in Ids : Live(id) => id \in DOMAIN pfMap \/ (pfMain.pc \in {"insert", "wait"} /\ pfMain.id = id)

PfInv == Shapes /\ PortsAreHeld /\ BacklogIsHeld /\ ConnsAreKnown /\ FreshConns /\ LiveIsListed

(* The invariant is enough. *)
LEMMA PfInvReleases == PfInv => UnlistedIsReleased
<1> SUFFICES ASSUME PfInv, NEW id \in Ids, id \notin DOMAIN pfMap, pfMain = Idle \/ pfMain.id # id
             PROVE  /\ \A a \in Binds : listener[a] # id
                    /\ \A p \in Peers : conns[p].of = id => conns[p].stage = "closed"
    BY DEF UnlistedIsReleased
<1> USE PortForwardAssumption DEF PfInv, Idle, Ids
<1>1. ~ Live(id) /\ ~ Held(id)
    BY DEF LiveIsListed, Held
<1>2. \A a \in Binds : listener[a] # id
    BY <1>1 DEF PortsAreHeld
<1>3. ASSUME NEW p \in Peers, conns[p].of = id
      PROVE  conns[p].stage = "closed"
    BY <1>1, <1>3 DEF Shapes, BacklogIsHeld, ConnsAreKnown, FreshConns, Unfinished
<1> QED BY <1>2, <1>3

(* The main thread. *)
LEMMA MainKeeps ==
    ASSUME PfInv, (\E t \in Targets, a \in Binds : Bind(t, a)) \/ PfMainStep \/ (\E id \in Ids : Stop(id)) \/ ClientChanges
    PROVE  PfInv'
<1> USE PortForwardAssumption DEF PfInv, Idle, Ids
<1>1. ASSUME NEW t \in Targets, NEW a \in Binds, Bind(t, a)
      PROVE  PfInv'
    <2>1. pfCounter \in Ids
        BY <1>1 DEF Bind, Shapes
    <2>2. CASE listener[a] = NoForward
        <3>1. /\ listener' = [listener EXCEPT ![a] = pfCounter]
              /\ pfMain' = [pc |-> "spawn", id |-> pfCounter, target |-> t, at |-> a]
              /\ pfMain = Idle /\ pfCounter' = pfCounter + 1
              /\ UNCHANGED <<pfMap, accepting, conns, connTasks>>
            BY <1>1, <2>2 DEF Bind
        <3>2. Shapes'
            BY <2>1, <3>1 DEF Shapes
        <3>3. \A id \in Ids : (Live(id)' <=> Live(id)) /\ (Held(id) => Held(id)')
            BY <3>1 DEF Live, Held
        <3>4. PortsAreHeld'
            BY <2>1, <3>1, <3>3 DEF PortsAreHeld, Held
        <3>5. BacklogIsHeld' /\ ConnsAreKnown' /\ FreshConns' /\ LiveIsListed'
            BY <3>1, <3>3 DEF BacklogIsHeld, ConnsAreKnown, FreshConns, LiveIsListed
        <3> QED BY <3>2, <3>4, <3>5
    <2>3. CASE listener[a] # NoForward
        <3>1. UNCHANGED <<listener, pfMain, pfMap, accepting, conns, connTasks>> /\ pfCounter' = pfCounter + 1
            BY <1>1, <2>3 DEF Bind
        <3> QED BY <3>1 DEF Shapes, PortsAreHeld, BacklogIsHeld, ConnsAreKnown, FreshConns, LiveIsListed, Live, Held
    <2> QED BY <2>2, <2>3
<1>2. CASE Spawn
    <2>1. /\ pfMain \in [pc : {"spawn"}, id : Ids, target : Targets, at : Binds]
          /\ pfMain' \in [pc : {"insert"}, id : Ids, target : Targets, at : Binds] /\ pfMain'.id = pfMain.id
          /\ accepting' = [accepting EXCEPT ![pfMain.id] = [pc |-> "select", cancelled |-> FALSE, target |-> pfMain.target]]
          /\ UNCHANGED <<pfCounter, pfMap, listener, conns, connTasks>>
        <3>1. pfMain \in [pc : {"spawn"}, id : Ids, target : Targets, at : Binds]
            BY <1>2 DEF Spawn, Shapes
        <3>2. pfMain' = [pfMain EXCEPT !.pc = "insert"]
            BY <1>2 DEF Spawn
        <3>3. pfMain' \in [pc : {"insert"}, id : Ids, target : Targets, at : Binds] /\ pfMain'.id = pfMain.id
            BY <3>1, <3>2
        <3> QED BY <1>2, <3>1, <3>3 DEF Spawn
    <2>2. Shapes'
        BY <2>1 DEF Shapes
    <2>3. \A id \in Ids : /\ Held(id) => Live(id)' /\ Held(id)'
                          /\ Live(id)' => Live(id) \/ id = pfMain.id
                          /\ Live(id) => Live(id)'
        BY <2>1 DEF Live, Held, Shapes
    <2>4. PortsAreHeld' /\ BacklogIsHeld' /\ FreshConns'
        BY <2>1, <2>3 DEF PortsAreHeld, BacklogIsHeld, FreshConns
    <2>5. ConnsAreKnown'
        BY <2>1, <2>3 DEF ConnsAreKnown
    <2>6. LiveIsListed'
        BY <2>1, <2>3 DEF LiveIsListed
    <2> QED BY <2>2, <2>4, <2>5, <2>6
<1>3. CASE Insert
    <2>1. /\ pfMain.pc = "insert" /\ pfMain.id \in Ids /\ pfMain' = Idle
          /\ DOMAIN pfMap' = DOMAIN pfMap \cup {pfMain.id}
          /\ UNCHANGED <<pfCounter, listener, accepting, conns, connTasks>>
        BY <1>3 DEF Insert, Shapes
    <2>2. \A id \in Ids : (Live(id)' <=> Live(id)) /\ (Held(id) => Held(id)')
        BY <2>1 DEF Live, Held
    <2>3. Shapes'
        BY <2>1 DEF Shapes
    <2> QED BY <2>1, <2>2, <2>3 DEF PortsAreHeld, BacklogIsHeld, ConnsAreKnown, FreshConns, LiveIsListed
<1>4. ASSUME NEW id \in Ids, Stop(id)
      PROVE  PfInv'
    <2>1. /\ pfMain = Idle /\ pfMain' = [pc |-> "wait", id |-> id]
          /\ DOMAIN pfMap' = DOMAIN pfMap \ {id}
          /\ accepting' = [accepting EXCEPT ![id].cancelled = TRUE]
          /\ UNCHANGED <<pfCounter, listener, conns, connTasks>>
        BY <1>4 DEF Stop, Restrict
    <2>2. Shapes'
        BY <2>1 DEF Shapes
    <2>3. \A i \in Ids : (Live(i)' <=> Live(i)) /\ (Held(i) => Held(i)')
        BY <2>1 DEF Live, Held, Shapes
    <2> QED BY <2>1, <2>2, <2>3 DEF PortsAreHeld, BacklogIsHeld, ConnsAreKnown, FreshConns, LiveIsListed
<1>5. CASE Stopped
    <2>1. /\ pfMain.pc = "wait" /\ accepting[pfMain.id].pc = "done" /\ pfMain' = Idle
          /\ UNCHANGED <<pfCounter, pfMap, listener, accepting, conns, connTasks>>
        BY <1>5 DEF Stopped
    <2>2. \A id \in Ids : (Live(id)' <=> Live(id)) /\ (Held(id) => Held(id)')
        BY <2>1 DEF Live, Held
    <2>3. Shapes'
        BY <2>1 DEF Shapes
    <2>4. LiveIsListed'
        BY <2>1, <2>2 DEF LiveIsListed, Live
    <2> QED BY <2>1, <2>2, <2>3, <2>4 DEF PortsAreHeld, BacklogIsHeld, ConnsAreKnown, FreshConns
<1>6. CASE ClientChanges
    BY <1>6 DEF ClientChanges, Shapes, PortsAreHeld, BacklogIsHeld, ConnsAreKnown, FreshConns, LiveIsListed, Live, Held
<1> QED BY <1>1, <1>2, <1>3, <1>4, <1>5, <1>6 DEF PfMainStep

(* The accept task.  That it may end rests on its knowing every connection *)
(* that has not, and that it may forget one on Retain keeping those.       *)
LEMMA AcceptTaskKeeps ==
    ASSUME PfInv, NEW id \in Ids,
           AcceptTask(id) \/ AcceptFails(id) \/ (\E p \in Peers : Accept(id, p))
    PROVE  PfInv'
<1> USE PortForwardAssumption DEF PfInv, Idle, Ids
<1>1. CASE AcceptFails(id) \/ Slept(id)
    <2> PICK pc \in {"select", "sleep"} : accepting' = [accepting EXCEPT ![id].pc = pc]
        BY <1>1 DEF AcceptFails, Slept
    <2>1. Live(id) /\ UNCHANGED <<pfCounter, pfMap, listener, conns, connTasks, pfMain>>
        BY <1>1 DEF AcceptFails, Slept, Live
    <2>2. Shapes'
        <3>1. accepting \in [Ids -> [pc : {"none", "select", "sleep", "abort", "done"}, cancelled : BOOLEAN, target : Targets]]
            BY DEF Shapes
        <3>2. accepting' \in [Ids -> [pc : {"none", "select", "sleep", "abort", "done"}, cancelled : BOOLEAN, target : Targets]]
            BY <3>1
        <3> QED BY <2>1, <3>2 DEF Shapes
    <2>3. \A i \in Ids : (Live(i)' <=> Live(i)) /\ (Held(i) => Held(i)')
        BY <2>1 DEF Live, Held, Shapes
    <2> QED BY <2>1, <2>2, <2>3 DEF PortsAreHeld, BacklogIsHeld, ConnsAreKnown, FreshConns, LiveIsListed
<1>2. CASE Cancelled(id)
    <2>1. /\ accepting' = [accepting EXCEPT ![id].pc = "abort"]
          /\ Live(id)
          /\ UNCHANGED <<pfCounter, pfMap, listener, connTasks, pfMain>>
        BY <1>2 DEF Cancelled, Live
    <2>2. /\ conns' \in [Peers -> [stage : {"none", "backlog", "closed"} \cup Unfinished, of : {NoForward} \cup Ids, aborted : BOOLEAN]]
          /\ \A p \in Peers : conns'[p].stage = conns[p].stage /\ conns'[p].of = conns[p].of
        <3>1. ASSUME NEW p \in Peers
              PROVE  LET c == [conns[p] EXCEPT !.aborted = TRUE]
                     IN  /\ c \in [stage : {"none", "backlog", "closed"} \cup Unfinished, of : {NoForward} \cup Ids, aborted : BOOLEAN]
                         /\ c.stage = conns[p].stage /\ c.of = conns[p].of
            BY DEF Shapes
        <3> QED BY <1>2, <3>1 DEF Cancelled, Shapes
    <2>3. Shapes'
        <3>1. accepting \in [Ids -> [pc : {"none", "select", "sleep", "abort", "done"}, cancelled : BOOLEAN, target : Targets]]
            BY DEF Shapes
        <3>2. accepting' \in [Ids -> [pc : {"none", "select", "sleep", "abort", "done"}, cancelled : BOOLEAN, target : Targets]]
            BY <2>1, <3>1
        <3> QED BY <2>1, <2>2, <3>2 DEF Shapes
    <2>4. \A i \in Ids : (Live(i)' <=> Live(i)) /\ (Held(i) => Held(i)')
        BY <2>1 DEF Live, Held, Shapes
    <2> QED BY <2>1, <2>2, <2>3, <2>4 DEF PortsAreHeld, BacklogIsHeld, ConnsAreKnown, FreshConns, LiveIsListed
<1>3. CASE AcceptEnds(id)
    <2>1. /\ accepting' = [accepting EXCEPT ![id].pc = "done"]
          /\ accepting[id].pc = "abort"
          /\ \A p \in connTasks[id] : conns[p].stage = "closed"
          /\ listener' = [a \in Binds |-> IF listener[a] = id THEN NoForward ELSE listener[a]]
          /\ UNCHANGED <<pfCounter, pfMap, connTasks, pfMain>>
        BY <1>3 DEF AcceptEnds, Ended
    <2>2. /\ conns' \in [Peers -> [stage : {"none", "backlog", "closed"} \cup Unfinished, of : {NoForward} \cup Ids, aborted : BOOLEAN]]
          /\ \A p \in Peers : /\ conns'[p].of = conns[p].of
                              /\ \/ conns'[p].stage = conns[p].stage /\ ~ (conns[p].stage = "backlog" /\ conns[p].of = id)
                                 \/ conns'[p].stage = "closed"
        <3>1. ASSUME NEW p \in Peers
              PROVE  LET c == [conns[p] EXCEPT !.stage = "closed"]
                     IN  /\ c \in [stage : {"none", "backlog", "closed"} \cup Unfinished, of : {NoForward} \cup Ids, aborted : BOOLEAN]
                         /\ c.stage = "closed" /\ c.of = conns[p].of
            BY DEF Shapes
        <3> QED BY <1>3, <3>1 DEF AcceptEnds, Shapes
    <2>3. Shapes'
        <3>1. accepting \in [Ids -> [pc : {"none", "select", "sleep", "abort", "done"}, cancelled : BOOLEAN, target : Targets]]
            BY DEF Shapes
        <3>2. accepting' \in [Ids -> [pc : {"none", "select", "sleep", "abort", "done"}, cancelled : BOOLEAN, target : Targets]]
            BY <2>1, <3>1
        <3> QED BY <2>1, <2>2, <3>2 DEF Shapes
    <2>4. \A i \in Ids \ {id} : (Live(i)' <=> Live(i)) /\ (Held(i) => Held(i)')
        BY <2>1 DEF Live, Held, Shapes
    <2>5. ~ Live(id)'
        BY <2>1 DEF Live, Shapes
    <2>6. PortsAreHeld'
        BY <2>1, <2>4 DEF PortsAreHeld
    <2>7. BacklogIsHeld' /\ FreshConns'
        BY <2>2, <2>4 DEF BacklogIsHeld, FreshConns
    <2>8. ConnsAreKnown'
        BY <2>1, <2>2, <2>4 DEF ConnsAreKnown, Unfinished
    <2>9. LiveIsListed'
        BY <2>1, <2>4, <2>5 DEF LiveIsListed
    <2> QED BY <2>3, <2>6, <2>7, <2>8, <2>9
<1>4. ASSUME NEW p \in Peers, Accept(id, p)
      PROVE  PfInv'
    <2>1. /\ accepting[id].pc = "select" /\ Live(id)
          /\ conns[p].stage = "backlog" /\ conns[p].of = id
          /\ connTasks' = [connTasks EXCEPT ![id] = Retain(connTasks[id] \cup {p})]
          /\ UNCHANGED <<pfCounter, pfMap, listener, accepting, pfMain>>
        BY <1>4 DEF Accept, Live
    <2>2. PICK stage \in {"resolve", "connect"} : conns' = [conns EXCEPT ![p].stage = stage]
        BY <1>4 DEF Accept
    <2>3. /\ conns' \in [Peers -> [stage : {"none", "backlog", "closed"} \cup Unfinished, of : {NoForward} \cup Ids, aborted : BOOLEAN]]
          /\ \A q \in Peers \ {p} : conns'[q] = conns[q]
          /\ conns'[p].of = id /\ conns'[p].stage \in {"resolve", "connect"}
        BY <2>1, <2>2 DEF Shapes, Unfinished
    <2>4. /\ Retain(connTasks[id] \cup {p}) \in SUBSET Peers
          /\ \A q \in connTasks[id] \cup {p} : conns[q].stage # "closed" => q \in Retain(connTasks[id] \cup {p})
        BY DEF Retain, Ended, Shapes
    <2>5. /\ connTasks' \in [Ids -> SUBSET Peers]
          /\ \A i \in Ids \ {id} : connTasks'[i] = connTasks[i]
          /\ connTasks'[id] = Retain(connTasks[id] \cup {p})
        BY <2>1, <2>4 DEF Shapes
    <2>6. Shapes'
        BY <2>1, <2>3, <2>5 DEF Shapes
    <2>7. \A i \in Ids : (Live(i)' <=> Live(i)) /\ (Held(i) => Held(i)')
        BY <2>1 DEF Live, Held
    <2>8. ConnsAreKnown'
        <3>1. ASSUME NEW q \in Peers \ {p}, conns'[q].stage \in Unfinished
              PROVE  (conns[q].of \in Ids /\ Live(conns[q].of) /\ q \in connTasks[conns[q].of])'
            <4>1. conns[q].of \in Ids /\ Live(conns[q].of) /\ q \in connTasks[conns[q].of] /\ conns[q].stage # "closed"
                BY <2>3, <3>1 DEF ConnsAreKnown, Unfinished
            <4> QED BY <2>3, <2>4, <2>5, <2>7, <4>1
        <3>2. (conns[p].of \in Ids /\ Live(conns[p].of) /\ p \in connTasks[conns[p].of])'
            BY <2>1, <2>3, <2>4, <2>5, <2>7
        <3> QED BY <3>1, <3>2 DEF ConnsAreKnown
    <2>9. PortsAreHeld' /\ BacklogIsHeld' /\ FreshConns' /\ LiveIsListed'
        BY <2>1, <2>3, <2>7 DEF PortsAreHeld, BacklogIsHeld, FreshConns, LiveIsListed
    <2> QED BY <2>6, <2>8, <2>9
<1> QED BY <1>1, <1>2, <1>3, <1>4 DEF AcceptTask

(* The connections. *)
LEMMA ConnKeeps ==
    ASSUME PfInv, NEW p \in Peers, Proceed(p) \/ Dropped(p) \/ (\E a \in Binds : PeerConnects(p, a))
    PROVE  PfInv'
<1> USE PortForwardAssumption DEF PfInv, Idle, Ids
<1>1. CASE Proceed(p) \/ Dropped(p)
    <2>1. /\ conns[p].stage \in Unfinished
          /\ \E stage \in {"connect", "copy", "closed"} : conns' = [conns EXCEPT ![p].stage = stage]
          /\ UNCHANGED <<pfCounter, pfMap, listener, accepting, connTasks, pfMain>>
        BY <1>1 DEF Proceed, Dropped, NextStage, Unfinished
    <2>2. Shapes'
        <3>1. conns \in [Peers -> [stage : {"none", "backlog", "closed"} \cup Unfinished, of : {NoForward} \cup Ids, aborted : BOOLEAN]]
            BY DEF Shapes
        <3>2. conns' \in [Peers -> [stage : {"none", "backlog", "closed"} \cup Unfinished, of : {NoForward} \cup Ids, aborted : BOOLEAN]]
            BY <2>1, <3>1 DEF Unfinished
        <3> QED BY <2>1, <3>2 DEF Shapes
    <2>3. \A i \in Ids : (Live(i)' <=> Live(i)) /\ (Held(i) => Held(i)')
        BY <2>1 DEF Live, Held
    <2>4. /\ \A q \in Peers \ {p} : conns'[q] = conns[q]
          /\ conns'[p].of = conns[p].of /\ conns'[p].stage \in {"connect", "copy", "closed"}
        BY <2>1 DEF Shapes
    <2> QED BY <2>1, <2>2, <2>3, <2>4 DEF PortsAreHeld, BacklogIsHeld, ConnsAreKnown, FreshConns, LiveIsListed, Unfinished
<1>2. ASSUME NEW a \in Binds, PeerConnects(p, a)
      PROVE  PfInv'
    <2>1. /\ listener[a] \in Ids /\ Held(listener[a])
          /\ conns' = [conns EXCEPT ![p] = [stage |-> "backlog", of |-> listener[a], aborted |-> FALSE]]
          /\ UNCHANGED <<pfCounter, pfMap, listener, accepting, connTasks, pfMain>>
        BY <1>2 DEF PeerConnects, PortsAreHeld
    <2>2. Shapes'
        BY <2>1 DEF Shapes
    <2>3. \A i \in Ids : (Live(i)' <=> Live(i)) /\ (Held(i) => Held(i)')
        BY <2>1 DEF Live, Held
    <2>4. /\ \A q \in Peers \ {p} : conns'[q] = conns[q]
          /\ conns'[p].of = listener[a] /\ conns'[p].stage = "backlog"
        BY <2>1 DEF Shapes
    <2> QED BY <2>1, <2>2, <2>3, <2>4 DEF PortsAreHeld, BacklogIsHeld, ConnsAreKnown, FreshConns, LiveIsListed, Unfinished
<1> QED BY <1>1, <1>2

LEMMA PfInit_Inv ==
    ASSUME PfInit PROVE PfInv
<1> USE PortForwardAssumption DEF PfInit, Idle, Ids
<1>1. Shapes
    <2>1. (CHOOSE t \in Targets : TRUE) \in Targets
        BY DEF Targets
    <2> QED BY <2>1 DEF Shapes
<1>2. PortsAreHeld /\ BacklogIsHeld /\ ConnsAreKnown /\ FreshConns /\ LiveIsListed
    BY DEF PortsAreHeld, BacklogIsHeld, ConnsAreKnown, FreshConns, LiveIsListed, Live, Unfinished
<1> QED BY <1>1, <1>2 DEF PfInv

LEMMA PfStep_Inv ==
    ASSUME PfInv, [PfNext]_pfVars PROVE PfInv'
<1>1. CASE UNCHANGED pfVars
    BY <1>1 DEF pfVars, PfInv, Shapes, PortsAreHeld, BacklogIsHeld, ConnsAreKnown, FreshConns, LiveIsListed, Live, Held
<1>2. CASE PfNext
    BY <1>2, MainKeeps, AcceptTaskKeeps, ConnKeeps DEF PfNext
<1> QED BY <1>1, <1>2

(* A forward that is not listed holds neither its port nor a connection,   *)
(* whatever connections arrive while it starts or stops and whichever      *)
(* accepts fail (portforward.rs).                                          *)
THEOREM UnlistedHoldsNothing == PfSpec => []UnlistedIsReleased
<1> QED BY PfInit_Inv, PfStep_Inv, PfInvReleases, PTL DEF PfSpec
=============================================================================
