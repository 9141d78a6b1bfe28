----------------------------- MODULE ViewProofs -----------------------------
(***************************************************************************)
(* What a view shows, for any objects, any number of draws, windows and    *)
(* addresses: a row is that of the object it was read for (RowReads), the  *)
(* padded keys of numbers sort as the numbers do and the sort is stable    *)
(* (Processors), so that tables are in the order of their numbers, and a   *)
(* pod that is shown in the colour of health hides no failure (RowReads).  *)
(***************************************************************************)
EXTENDS ViewLoop, RowReads, FiniteSetTheorems, SequenceTheorems, NaturalsInduction, WellFoundedInduction, TLAPS

(* The sequence of a finite set holds its elements. *)
LEMMA SetToSeqHolds ==
    ASSUME NEW S, IsFiniteSet(S)
    PROVE  /\ DOMAIN SetToSeq(S) = 1..Cardinality(S)
           /\ \A i \in DOMAIN SetToSeq(S) : SetToSeq(S)[i] \in S
<1>1. PICK f \in [1..Cardinality(S) -> S] : IsInjective(f)
    <2>1. ExistsBijection(1..Cardinality(S), S)
        BY FS_CardinalityType
    <2> QED BY <2>1 DEF ExistsBijection, Bijection, Injection, IsInjective
<1>2. SetToSeq(S) \in [1..Cardinality(S) -> S]
    BY <1>1 DEF SetToSeq
<1> QED BY <1>2

-----------------------------------------------------------------------------
(* The rows of a read.                                                     *)

Versions == [rv : Nat, o : Pool[kind]]

\* The versions that somebody has: the cluster, the store with its readers, the
\* cache.
Known ==
    live \cup {memory[a] : a \in DOMAIN memory} \cup {cache[a] : a \in DOMAIN cache}

\* What lies in memory is what the store or the reader holds.
Kept ==
    /\ kind \in DOMAIN Pool
    /\ version \in Nat
    /\ Known \subseteq Versions
    /\ IsFiniteSet(arcs)
    /\ arcs \cup Held \subseteq DOMAIN memory
    /\ reader # NoRead =>
          /\ reader = [params |-> reader.params, items |-> reader.items, parsed |-> reader.parsed]
          /\ reader.parsed = [i \in DOMAIN reader.items |-> reader.parsed[i]]

\* A resource version stands for one object, while all that is known is of one
\* cluster.
OneCluster ==
    ~ mixed =>
        /\ \A v \in Known : v.rv <= version
        /\ \A v, w \in Known : v.rv = w.rv => v = w

\* So the parsed form of an object is that of the object.
ParsedIsHeld ==
    ~ mixed /\ reader # NoRead =>
        \A i \in DOMAIN reader.items : reader.parsed[i] \in {Unset, memory[reader.items[i]]}

RowInv == Kept /\ OneCluster /\ ParsedIsHeld /\ RowIsOfObject

(* A step that brings no new version, and leaves what the reader holds in   *)
(* its place, keeps the invariant.                                          *)
LEMMA NothingNew ==
    ASSUME RowInv, Known' \subseteq Known,
           UNCHANGED <<kind, version, reader, shown, mixed>>,
           IsFiniteSet(arcs'), arcs' \cup Held \subseteq DOMAIN memory',
           \A a \in Held : memory'[a] = memory[a]
    PROVE  RowInv'
<1>1. Held' = Held
    BY DEF Held
<1>2. Kept'
    BY <1>1 DEF RowInv, Kept, Versions
<1>3. OneCluster'
    BY DEF RowInv, OneCluster
<1>4. reader # NoRead => \A i \in DOMAIN reader.items : reader.items[i] \in Held
    BY DEF Held, ToSet
<1>5. ParsedIsHeld'
    BY <1>4 DEF RowInv, ParsedIsHeld
<1>6. RowIsOfObject'
    BY DEF RowInv, RowIsOfObject
<1> QED BY <1>2, <1>3, <1>5, <1>6 DEF RowInv

(* The cluster gives an object the next resource version. *)
LEMMA ChangeKeeps ==
    ASSUME RowInv, Change
    PROVE  RowInv'
<1>1. PICK o \in Pool[kind] :
        live' = {v \in live : v.o.name # o.name} \cup {[rv |-> version', o |-> o]}
    BY DEF Change
<1> DEFINE new == [rv |-> version', o |-> o]
<1>2. version' \in Nat /\ version' > version /\ new \in Versions /\ new.rv = version'
    BY DEF Change, RowInv, Kept, Versions
<1>3. Known' \subseteq Known \cup {new}
    BY <1>1 DEF Change, Known
<1>4. UNCHANGED <<kind, memory, arcs, reader, shown, mixed>> /\ Held' = Held
    BY DEF Change, Held
<1>5. Kept'
    BY <1>2, <1>3, <1>4 DEF RowInv, Kept, Versions
<1>6. OneCluster'
    <2> SUFFICES ASSUME ~ mixed PROVE (\A v \in Known' : v.rv <= version')
                                      /\ \A v, w \in Known' : v.rv = w.rv => v = w
        BY <1>4 DEF OneCluster
    <2>1. \A v \in Known : v.rv <= version /\ v.rv \in Nat
        BY DEF RowInv, OneCluster, Kept, Versions
    <2>2. \A v \in Known : v.rv < version' /\ v.rv \in Nat
        BY <1>2, <2>1 DEF RowInv, Kept
    <2>3. \A v, w \in Known : v.rv = w.rv => v = w
        BY DEF RowInv, OneCluster
    <2> HIDE DEF new
    <2>4. \A v \in Known' : v.rv <= version'
        BY <1>2, <1>3, <2>2
    <2>5. \A v, w \in Known' : v.rv = w.rv => v = w
        BY <1>2, <1>3, <2>2, <2>3
    <2> QED BY <2>4, <2>5
<1>7. ParsedIsHeld' /\ RowIsOfObject'
    BY <1>4 DEF RowInv, ParsedIsHeld, RowIsOfObject
<1> QED BY <1>5, <1>6, <1>7 DEF RowInv

(* An object comes to an address nobody uses. *)
LEMMA ReceiveKeeps ==
    ASSUME RowInv, Receive
    PROVE  RowInv'
<1>1. PICK v \in live, a \in Addresses \ DOMAIN memory :
        LET old == {b \in arcs : memory[b].o.name = v.o.name}
        IN  /\ arcs' = (arcs \ old) \cup {a}
            /\ memory' = Put(Restrict(memory, DOMAIN memory \ (old \ Held)), a, v)
    BY DEF Receive
<1> DEFINE old == {b \in arcs : memory[b].o.name = v.o.name}
           left == DOMAIN memory \ (old \ Held)
<1>2. /\ arcs' = (arcs \ old) \cup {a}
      /\ DOMAIN memory' = left \cup {a}
      /\ memory'[a] = v
      /\ \A b \in left : memory'[b] = memory[b]
    BY <1>1 DEF Put, Restrict
<1>3. UNCHANGED <<kind, live, version, cache, reader, shown, mixed>>
    BY DEF Receive
<1>4. Known' \subseteq Known
    BY <1>1, <1>2, <1>3 DEF Known
<1>5. IsFiniteSet(arcs')
    <2>1. IsFiniteSet(arcs) /\ arcs \ old \subseteq arcs
        BY DEF RowInv, Kept
    <2>2. IsFiniteSet(arcs \ old)
        BY <2>1, FS_Subset
    <2> QED BY <1>2, <2>2, FS_AddElement
<1>6. arcs' \cup Held \subseteq DOMAIN memory' /\ \A b \in Held : memory'[b] = memory[b]
    BY <1>2 DEF RowInv, Kept
<1> QED BY <1>3, <1>4, <1>5, <1>6, NothingNew

(* An object goes, from the store at least. *)
LEMMA DropKeeps ==
    ASSUME RowInv, NEW a \in Addresses, Drop(a)
    PROVE  RowInv'
<1>1. /\ arcs' = arcs \ {a}
      /\ DOMAIN memory' = DOMAIN memory \ ({a} \ Held)
      /\ \A b \in DOMAIN memory' : memory'[b] = memory[b]
    BY DEF Drop, Restrict
<1>2. UNCHANGED <<kind, live, version, cache, reader, shown, mixed>>
    BY DEF Drop
<1>3. Known' \subseteq Known
    BY <1>1, <1>2 DEF Known
<1>4. IsFiniteSet(arcs')
    BY <1>1, FS_Subset DEF RowInv, Kept
<1>5. arcs' \cup Held \subseteq DOMAIN memory' /\ \A b \in Held : memory'[b] = memory[b]
    BY <1>1 DEF RowInv, Kept
<1> QED BY <1>2, <1>3, <1>4, <1>5, NothingNew

(* Another cluster counts its versions anew, when nothing is known of the   *)
(* one before, or a read still is.                                          *)
LEMMA SwitchKeeps ==
    ASSUME RowInv, Switch
    PROVE  RowInv'
<1>1. /\ live' = {} /\ version' = 0 /\ arcs' = {} /\ cache' = <<>>
      /\ memory' = Restrict(memory, Held)
      /\ mixed' = (mixed \/ reader # NoRead)
      /\ UNCHANGED <<kind, reader, shown>>
    BY DEF Switch
<1>2. DOMAIN memory' = Held /\ \A a \in Held : memory'[a] = memory[a]
    BY <1>1 DEF Restrict
<1>3. Held' = Held
    BY <1>1 DEF Held
<1>4. Known' = {memory[a] : a \in Held}
    BY <1>1, <1>2 DEF Known
<1>5. Kept'
    BY <1>1, <1>2, <1>3, <1>4, FS_EmptySet DEF RowInv, Kept, Known, Versions
<1>6. ~ mixed' => ~ mixed /\ reader = NoRead /\ Known' = {}
    BY <1>1, <1>4 DEF Held
<1>7. OneCluster' /\ ParsedIsHeld' /\ RowIsOfObject'
    BY <1>1, <1>6 DEF RowInv, OneCluster, ParsedIsHeld, RowIsOfObject
<1> QED BY <1>5, <1>7 DEF RowInv

(* A read begins: nothing is parsed yet. *)
LEMMA GetKeeps ==
    ASSUME RowInv, Get
    PROVE  RowInv'
<1>1. PICK params \in Params[kind] :
        LET items == SetToSeq({a \in arcs : Matches(memory[a].o, params)})
        IN  reader' = [params |-> params, items |-> items, parsed |-> [i \in DOMAIN items |-> Unset]]
    BY DEF Get
<1> DEFINE wanted == {a \in arcs : Matches(memory[a].o, params)}
           items == SetToSeq(wanted)
<1>2. reader' = [params |-> params, items |-> items, parsed |-> [i \in DOMAIN items |-> Unset]]
    BY <1>1
<1>3. UNCHANGED <<kind, live, version, memory, arcs, cache, shown, mixed>>
    BY DEF Get
<1>4. \A i \in DOMAIN items : items[i] \in arcs
    <2>1. IsFiniteSet(wanted)
        BY FS_Subset DEF RowInv, Kept
    <2>2. \A i \in DOMAIN items : items[i] \in wanted
        <3> HIDE DEF wanted
        <3> QED BY <2>1, SetToSeqHolds
    <2> QED BY <2>2
<1> HIDE DEF items
<1>5. reader'.items = items /\ reader'.parsed = [i \in DOMAIN items |-> Unset]
      /\ reader' = [params |-> reader'.params, items |-> reader'.items, parsed |-> reader'.parsed]
    BY <1>2
<1>6. Held' \subseteq arcs
    BY <1>4, <1>5 DEF Held, ToSet
<1>7. Known' = Known
    BY <1>3 DEF Known
<1>8. Kept'
    BY <1>3, <1>5, <1>6, <1>7 DEF RowInv, Kept, Versions
<1>9. OneCluster' /\ ParsedIsHeld' /\ RowIsOfObject'
    BY <1>3, <1>5, <1>7 DEF RowInv, OneCluster, ParsedIsHeld, RowIsOfObject
<1> QED BY <1>8, <1>9 DEF RowInv

(* The parsed form that is found under an address is of the version that    *)
(* lies there.                                                              *)
LEMMA CacheIsRight ==
    ASSUME RowInv, NEW a \in DOMAIN memory
    PROVE  /\ deserialize_cached(a) \in Known
           /\ ~ mixed => deserialize_cached(a) = memory[a]
BY DEF RowInv, OneCluster, Known, deserialize_cached

(* An object is parsed, or found parsed. *)
LEMMA ParseKeeps ==
    ASSUME RowInv, NEW i \in 1..Cardinality(Addresses), Parse(i)
    PROVE  RowInv'
<1> DEFINE a == reader.items[i]
           parsed == deserialize_cached(a)
<1>1. /\ reader # NoRead /\ i \in DOMAIN reader.items
      /\ cache' = Put(cache, a, parsed)
      /\ reader' = [reader EXCEPT !.parsed[i] = parsed]
      /\ UNCHANGED <<kind, live, version, memory, arcs, shown, mixed>>
    BY DEF Parse
<1>2. a \in Held /\ a \in DOMAIN memory
    BY <1>1 DEF RowInv, Kept, Held, ToSet
<1>3. parsed \in Known /\ (~ mixed => parsed = memory[a])
    BY <1>2, CacheIsRight
<1> HIDE DEF parsed
<1>4. /\ reader'.items = reader.items
      /\ reader' = [params |-> reader'.params, items |-> reader'.items, parsed |-> reader'.parsed]
      /\ reader'.parsed = [reader.parsed EXCEPT ![i] = parsed]
    BY <1>1 DEF RowInv, Kept
<1>5. /\ reader'.parsed = [j \in DOMAIN reader'.items |-> reader'.parsed[j]]
      /\ \A j \in DOMAIN reader.items : reader'.parsed[j] = IF j = i THEN parsed ELSE reader.parsed[j]
    BY <1>1, <1>4 DEF RowInv, Kept
<1>6. Held' \subseteq Held
    BY <1>1, <1>4 DEF Held
<1>7. Known' \subseteq Known
    BY <1>1, <1>3 DEF Known, Put
<1>8. Kept'
    BY <1>1, <1>4, <1>5, <1>6, <1>7 DEF RowInv, Kept, Versions
<1>9. ParsedIsHeld'
    BY <1>1, <1>3, <1>4, <1>5 DEF RowInv, ParsedIsHeld
<1>10. OneCluster' /\ RowIsOfObject'
    BY <1>1, <1>7 DEF RowInv, OneCluster, RowIsOfObject
<1> QED BY <1>8, <1>9, <1>10 DEF RowInv

(* The rows are those of what was read, with the age of the object itself. *)
LEMMA ReturnKeeps ==
    ASSUME RowInv, Return
    PROVE  RowInv'
<1> DEFINE Object(i) == memory[reader.items[i]].o
           built == [i \in DOMAIN reader.items |->
                        Row(kind, [reader.parsed[i].o EXCEPT !.created = Object(i).created])]
           read == [i \in DOMAIN reader.items |-> [of |-> Object(i), row |-> built[i]]]
<1>1. /\ reader # NoRead
      /\ \A i \in DOMAIN reader.items : reader.parsed[i] # Unset
      /\ shown' = [params |-> reader.params, read |-> read, rows |-> process(kind, built, reader.params)]
      /\ reader' = NoRead
      /\ memory' = Restrict(memory, arcs)
      /\ UNCHANGED <<kind, live, version, cluster, arcs, cache, mixed>>
    BY DEF Return
<1>2. DOMAIN memory' = arcs /\ \A a \in arcs : memory'[a] = memory[a]
    BY <1>1 DEF Restrict
<1>3. Held' = {}
    BY <1>1 DEF Held
<1>4. Known' \subseteq Known
    BY <1>1, <1>2 DEF Known, RowInv, Kept
<1>5. Kept'
    BY <1>1, <1>2, <1>3, <1>4 DEF RowInv, Kept, Versions
<1>6. OneCluster' /\ ParsedIsHeld'
    BY <1>1, <1>4 DEF RowInv, OneCluster, ParsedIsHeld
<1>7. ASSUME ~ mixed, NEW i \in DOMAIN reader.items
      PROVE  built[i] = Row(kind, Object(i))
    <2>1. reader.items[i] \in DOMAIN memory
        BY <1>1 DEF RowInv, Kept, Held, ToSet
    <2>2. reader.parsed[i] = memory[reader.items[i]]
        BY <1>1, <1>7 DEF RowInv, ParsedIsHeld
    <2>3. Object(i) \in Pool[kind] /\ kind \in DOMAIN Pool
        BY <2>1 DEF RowInv, Kept, Known, Versions
    <2>4. [Object(i) EXCEPT !.created = Object(i).created] = Object(i)
        BY <2>3, RowReadsAssumption
    <2>5. built[i] = Row(kind, [Object(i) EXCEPT !.created = Object(i).created])
        BY <1>7, <2>2
    <2> QED BY <2>4, <2>5
<1>8. RowIsOfObject'
    <2>1. shown'.read = read
        BY <1>1
    <2>2. ~ mixed => \A i \in DOMAIN read : read[i].row = Row(kind, read[i].of)
        BY <1>7
    <2> HIDE DEF read
    <2> QED BY <1>1, <2>1, <2>2 DEF RowIsOfObject
<1> QED BY <1>5, <1>6, <1>8 DEF RowInv

(* It holds at first, and every step keeps it. *)
LEMMA RowInvHolds ==
    /\ RowInit => RowInv
    /\ RowInv /\ [RowNext]_rowVars => RowInv'
<1>1. RowInit => RowInv
    <2> SUFFICES ASSUME RowInit PROVE RowInv
        OBVIOUS
    <2>1. Known = {} /\ Held = {} /\ arcs = {}
        BY DEF RowInit, Known, Held
    <2> QED BY <2>1, FS_EmptySet
            DEF RowInit, RowInv, Kept, OneCluster, ParsedIsHeld, RowIsOfObject
<1>2. RowInv /\ [RowNext]_rowVars => RowInv'
    <2> SUFFICES ASSUME RowInv, [RowNext]_rowVars PROVE RowInv'
        OBVIOUS
    <2>1. CASE UNCHANGED rowVars
        <3>1. Known' = Known /\ Held' = Held
            BY <2>1 DEF rowVars, Known, Held
        <3> QED BY <2>1, <3>1 DEF rowVars, RowInv, Kept, OneCluster, ParsedIsHeld, RowIsOfObject, Versions
    <2> QED BY <2>1, ChangeKeeps, ReceiveKeeps, DropKeeps, SwitchKeeps, GetKeeps, ParseKeeps,
               ReturnKeeps DEF RowNext
<1> QED BY <1>1, <1>2

(* A row is that of the object it was read for, although the cache knows    *)
(* objects by addresses that others have had before, as long as no read was *)
(* under way when the cluster was switched (processor.rs).                  *)
THEOREM RowsAreOfTheirObjects == RowSpec => []RowIsOfObject
<1>1. RowInv => RowIsOfObject
    BY DEF RowInv
<1> QED BY <1>1, RowInvHolds, PTL DEF RowSpec

-----------------------------------------------------------------------------
(* The draws of a view.                                                     *)

DrawRecord == [token : Tokens, query : Queries, rows : Rows \cup {Nothing}]

(* What is left of a sequence without one of its elements. *)
LEMMA RemoveAtType ==
    ASSUME NEW S, NEW s \in Seq(S), NEW i \in DOMAIN s
    PROVE  RemoveAt(s, i) \in Seq(S)
<1>1. Len(s) \in Nat /\ i \in 1..Len(s)
    OBVIOUS
<1>2. SubSeq(s, 1, i - 1) \in Seq(S) /\ SubSeq(s, i + 1, Len(s)) \in Seq(S)
    BY <1>1, SubSeqProperties
<1> QED BY <1>2 DEF RemoveAt

(* What the main loop takes from its queue was put there by someone. *)
LEMMA NextType ==
    ASSUME ViewTypeOK, NEW do, IsNext(do)
    PROVE  /\ Head(scheduled) \in Callbacks
           /\ Head(scheduled).token \in Tokens
           /\ Tail(scheduled) \in Seq(Callbacks)
<1>1. scheduled \in Seq(Callbacks) /\ scheduled # <<>>
    BY DEF ViewTypeOK, IsNext
<1>2. Head(scheduled) \in Callbacks /\ Tail(scheduled) \in Seq(Callbacks)
    <2> HIDE DEF Callbacks
    <2> QED BY <1>1
<1> QED BY <1>2 DEF Callbacks

(* A draw that is put behind the others, and a callback. *)
LEMMA DrawType ==
    ASSUME ViewTypeOK, NEW token \in Tokens, NEW q \in Queries
    PROVE  Append(draws, [token |-> token, query |-> q, rows |-> Nothing])
               \in Seq([token : Tokens, query : Queries, rows : Rows \cup {Nothing}])
<1>1. draws \in Seq(DrawRecord)
    BY DEF ViewTypeOK, DrawRecord
<1>2. [token |-> token, query |-> q, rows |-> Nothing] \in DrawRecord
    BY DEF DrawRecord
<1>3. Append(draws, [token |-> token, query |-> q, rows |-> Nothing]) \in Seq(DrawRecord)
    BY <1>1, <1>2
<1> QED BY <1>3 DEF DrawRecord

LEMMA ScheduleType ==
    ASSUME ViewTypeOK, NEW do \in {"filetype", "tick", "draw", "show", "clear"},
           NEW token \in Tokens
    PROVE  Append(scheduled, [do |-> do, token |-> token]) \in Seq(Callbacks)
<1>1. [do |-> do, token |-> token] \in Callbacks
    BY DEF Callbacks
<1> QED BY <1>1 DEF ViewTypeOK

(* The draw under way at a place, and the queue without it. *)
LEMMA DrawAt ==
    ASSUME ViewTypeOK, NEW i \in DOMAIN draws
    PROVE  /\ draws[i] \in DrawRecord
           /\ RemoveAt(draws, i) \in Seq(DrawRecord)
<1>1. draws \in Seq(DrawRecord)
    BY DEF ViewTypeOK, DrawRecord
<1>2. draws[i] \in DrawRecord
    BY <1>1
<1> QED BY <1>1, <1>2, RemoveAtType

(* The steps of the main loop and of the timer. *)
LEMMA LoopTypes ==
    ASSUME ViewTypeOK, MainLoop \/ TimerFires
    PROVE  ViewTypeOK'
<1> USE DEF userVars, bufferVars
<1>1. ASSUME NEW inFloat \in BOOLEAN, FileType(inFloat)
      PROVE  ViewTypeOK'
    BY <1>1, NextType DEF FileType, ViewTypeOK, StartLoop, Dequeue
<1>2. CASE Tick
    <2>1. Head(scheduled).token \in Tokens /\ scheduled' \in Seq(Callbacks)
        BY <1>2, NextType DEF Tick, Dequeue
    <2>2. draws' \in Seq([token : Tokens, query : Queries, rows : Rows \cup {Nothing}])
        <3>1. query \in Queries
            BY DEF ViewTypeOK
        <3>2. CASE UNCHANGED draws
            BY <3>2 DEF ViewTypeOK
        <3>3. CASE Draw(Head(scheduled).token)
            BY <2>1, <3>1, <3>3, DrawType DEF Draw
        <3> QED BY <1>2, <3>2, <3>3 DEF Tick
    <2> QED BY <1>2, <2>1, <2>2 DEF Tick, ViewTypeOK, Ended
<1>3. CASE FirstDraw
    <2>1. scheduled' \in Seq(Callbacks)
        BY <1>3, NextType DEF FirstDraw, Dequeue
    <2>2. draws' \in Seq([token : Tokens, query : Queries, rows : Rows \cup {Nothing}])
        <3>1. query \in Queries /\ NoToken \in Tokens
            BY ViewAssumption DEF ViewTypeOK, NoToken, Tokens
        <3>2. CASE UNCHANGED draws
            BY <3>2 DEF ViewTypeOK
        <3>3. CASE Draw(NoToken)
            BY <3>1, <3>3, DrawType DEF Draw
        <3> QED BY <1>3, <3>2, <3>3 DEF FirstDraw
    <2> QED BY <1>3, <2>1, <2>2 DEF FirstDraw, ViewTypeOK
<1>4. CASE Show
    BY <1>4, NextType DEF Show, ViewTypeOK, Dequeue, Ended
<1>5. CASE Clear
    BY <1>5, NextType DEF Clear, ViewTypeOK, Dequeue
<1>6. CASE TimerFires
    <2>1. buffer \in Tokens
        BY DEF ViewTypeOK, Tokens, NoToken
    <2>2. scheduled' \in Seq(Callbacks)
        BY <1>6, <2>1, ScheduleType DEF TimerFires
    <2> QED BY <1>6, <2>2 DEF TimerFires, ViewTypeOK
<1> QED BY <1>1, <1>2, <1>3, <1>4, <1>5, <1>6 DEF MainLoop

(* The steps of a draw. *)
LEMMA DrawTypes ==
    ASSUME ViewTypeOK, NEW i \in 1..MaxDraws, DrawStep(i)
    PROVE  ViewTypeOK'
<1> USE DEF userVars, bufferVars
<1>1. i \in DOMAIN draws /\ draws[i] \in DrawRecord /\ RemoveAt(draws, i) \in Seq(DrawRecord)
    BY DrawAt DEF DrawStep, GetTable, TableRead, TableFailed
<1>2. CASE GetTable(i)
    <2>1. [draws[i] EXCEPT !.rows = store] \in DrawRecord
        BY <1>1 DEF DrawRecord, ViewTypeOK
    <2>2. draws \in Seq(DrawRecord) /\ draws' = [draws EXCEPT ![i] = [draws[i] EXCEPT !.rows = store]]
        BY <1>2 DEF GetTable, ViewTypeOK, DrawRecord
    <2>3. draws' \in Seq(DrawRecord)
        BY <1>1, <2>1, <2>2
    <2> QED BY <1>2, <2>3 DEF GetTable, ViewTypeOK, DrawRecord
<1>3. CASE TableRead(i)
    <2>1. draws[i].token \in Tokens /\ draws[i].query \in Queries
        BY <1>1 DEF DrawRecord
    <2>2. scheduled' \in Seq(Callbacks)
        BY <1>3, <2>1, ScheduleType DEF TableRead
    <2>3. data' \in Tables
        BY <1>3, <2>1 DEF TableRead, Tables
    <2> QED BY <1>1, <1>3, <2>2, <2>3 DEF TableRead, ViewTypeOK, DrawRecord
<1>4. CASE TableFailed(i)
    BY <1>1, <1>4 DEF TableFailed, ViewTypeOK, DrawRecord
<1> QED BY <1>2, <1>3, <1>4 DEF DrawStep

(* The bounds let each thing happen once. *)
LEMMA BoundsArePositive ==
    /\ MaxBuffers \in Nat /\ MaxBuffers >= 1
    /\ MaxWindows \in Nat /\ MaxWindows >= 1
    /\ MaxDraws \in Nat /\ MaxDraws >= 1
<1>1. MaxBuffers \in Nat \ {0} /\ MaxWindows \in Nat \ {0} /\ MaxDraws \in Nat \ {0}
    BY ViewAssumption
<1> QED BY <1>1

(* What the user does. *)
LEMMA UserTypes ==
    ASSUME ViewTypeOK,
           \/ View \/ ReflectorReady \/ ReflectorFailed \/ DrawNow \/ SetQuery \/ Enter
           \/ \E how \in {"quits", "closes", "hides"} : Leave(how)
           \/ Wipe \/ ToggleFloat
    PROVE  ViewTypeOK'
<1> USE ViewAssumption DEF userVars, bufferVars, Entered, StartLoop, DeleteBuffer
<1>1. CASE View
    <2>1. opening' \in 0..MaxDraws
        BY <1>1, BoundsArePositive DEF View, ViewTypeOK
    <2>2. windows' \in 0..MaxWindows
        BY <1>1, BoundsArePositive DEF View, ViewTypeOK
    <2>3. hooked' \in BOOLEAN /\ valid' \in BOOLEAN /\ filetype' \in {"awaited", "set", "lost"}
        BY <1>1 DEF View, ViewTypeOK
    <2>4. /\ loop' \in {"off", "idle", "running"} /\ screen' \in Tables \cup {Nothing}
        BY <1>1 DEF View, ViewTypeOK
    <2>5. CASE buffer < MaxBuffers /\ buffer' = buffer + 1
               /\ scheduled' = Append(scheduled, [do |-> "filetype", token |-> buffer'])
        <3>1. buffer' \in 0..MaxBuffers /\ buffer' \in Tokens
            BY <2>5 DEF ViewTypeOK, Tokens, NoToken
        <3>2. scheduled' \in Seq(Callbacks)
            BY <2>5, <3>1, ScheduleType
        <3> QED BY <1>1, <2>1, <2>4, <2>2, <2>3, <3>1, <3>2 DEF View, ViewTypeOK
    <2>6. CASE UNCHANGED <<buffer, scheduled>>
        BY <1>1, <2>1, <2>6, <2>4, <2>2, <2>3 DEF View, ViewTypeOK
    <2> QED BY <1>1, <2>5, <2>6 DEF View
<1>2. CASE ReflectorReady
    <2>1. NoToken \in Tokens
        BY DEF NoToken, Tokens
    <2>2. scheduled' \in Seq(Callbacks)
        BY <1>2, <2>1, ScheduleType DEF ReflectorReady
    <2> QED BY <1>2, <2>2 DEF ReflectorReady, ViewTypeOK
<1>3. CASE ReflectorFailed
    BY <1>3 DEF ReflectorFailed, ViewTypeOK
<1>4. CASE DrawNow
    <2>1. NoToken \in Tokens /\ query' \in Queries
        BY <1>4 DEF NoToken, Tokens, DrawNow
    <2>2. draws' \in Seq([token : Tokens, query : Queries, rows : Rows \cup {Nothing}])
        BY <1>4, <2>1, DrawType DEF DrawNow
    <2> QED BY <1>4, <2>1, <2>2 DEF DrawNow, ViewTypeOK
<1>5. CASE SetQuery
    BY <1>5 DEF SetQuery, ViewTypeOK
<1>6. CASE Enter
    <2>1. windows' \in 0..MaxWindows
        BY <1>6, BoundsArePositive DEF Enter, ViewTypeOK
    <2> QED BY <1>6, <2>1 DEF Enter, ViewTypeOK
<1>7. ASSUME NEW how \in {"quits", "closes", "hides"}, Leave(how)
      PROVE  ViewTypeOK'
    <2>1. filetype' \in {"awaited", "set", "lost"}
        BY <1>7 DEF Leave, FileTypeLeft, ViewTypeOK
    <2> QED BY <1>7, <2>1 DEF Leave, ViewTypeOK
<1>8. CASE Wipe
    <2>1. 0 \in 0..MaxWindows
        BY BoundsArePositive
    <2> QED BY <1>8, <2>1 DEF Wipe, ViewTypeOK
<1>9. CASE ToggleFloat
    BY <1>9 DEF ToggleFloat, ViewTypeOK
<1> QED BY <1>1, <1>2, <1>3, <1>4, <1>5, <1>6, <1>7, <1>8, <1>9

(* A change of context, and the watchers. *)
LEMMA ContextTypes ==
    ASSUME ViewTypeOK, StopAll \/ ContextChanged \/ ContextFailed \/ StoreChanges
    PROVE  ViewTypeOK'
<1> USE DEF userVars, bufferVars, Entered, StartLoop, DeleteBuffer
<1>1. CASE StopAll
    <2>1. buffer \in Tokens
        BY DEF ViewTypeOK, Tokens, NoToken
    <2>2. scheduled' \in Seq(Callbacks)
        <3>1. scheduled \in Seq(Callbacks)
            BY DEF ViewTypeOK
        <3> QED BY <1>1, <2>1, <3>1, ScheduleType DEF StopAll
    <2>3. /\ valid' \in BOOLEAN /\ filetype' \in {"awaited", "set", "lost"}
          /\ windows' \in 0..MaxWindows /\ hooked' \in BOOLEAN
        <3>1. CASE DeleteBuffer
            <4>1. 0 \in 0..MaxWindows
                BY BoundsArePositive
            <4> QED BY <3>1, <4>1
        <3>2. CASE UNCHANGED <<valid, filetype, windows, hooked>>
            BY <3>2 DEF ViewTypeOK
        <3> QED BY <1>1, <3>1, <3>2 DEF StopAll
    <2> QED BY <1>1, <2>2, <2>3 DEF StopAll, ViewTypeOK
<1>2. CASE ContextChanged
    BY <1>2 DEF ContextChanged, ViewTypeOK
<1>3. CASE ContextFailed
    BY <1>3 DEF ContextFailed, ViewTypeOK
<1>4. CASE StoreChanges
    BY <1>4 DEF StoreChanges, ViewTypeOK
<1> QED BY <1>1, <1>2, <1>3, <1>4

(* Every variable of ViewLoop keeps its type: no more draws, windows and    *)
(* buffers than there are, and what is drawn could be processed.            *)
THEOREM ViewTypesCorrect == ViewSpec => []ViewTypeOK
<1>1. ViewInit => ViewTypeOK
    <2> SUFFICES ASSUME ViewInit PROVE ViewTypeOK
        OBVIOUS
    <2>1. draws \in Seq(DrawRecord) /\ scheduled \in Seq(Callbacks)
        BY EmptySeq DEF ViewInit
    <2>2. 0 \in 0..MaxBuffers /\ 0 \in 0..MaxWindows /\ 0 \in 0..MaxDraws
        BY BoundsArePositive
    <2> QED BY <2>1, <2>2 DEF ViewInit, ViewTypeOK, DrawRecord
<1>2. ViewTypeOK /\ [ViewNext]_viewVars => ViewTypeOK'
    <2>1. ASSUME ViewTypeOK, UNCHANGED viewVars PROVE ViewTypeOK'
        BY <2>1 DEF viewVars, ViewTypeOK
    <2> QED BY <2>1, LoopTypes, DrawTypes, UserTypes, ContextTypes DEF ViewNext
<1> QED BY <1>1, <1>2, PTL DEF ViewSpec

-----------------------------------------------------------------------------
(* The keys of a column of padded numbers.                                  *)

(* Every set of numbers has a least one: what stands for induction here,   *)
(* the induction rules having an operator as a parameter.                  *)
LEMMA LeastNumber ==
    ASSUME NEW T \in SUBSET Nat, T # {}
    PROVE  \E m \in T : \A n \in T : m <= n
<1>1. PICK m \in T : \A n \in T : <<n, m>> \notin OpToRel(<, Nat)
    <2> DEFINE R == OpToRel(<, Nat)
    <2>1. IsWellFoundedOn(R, Nat)
        BY NatLessThanWellFounded
    <2> HIDE DEF R
    <2>2. \E x \in T : \A y \in T : ~ (<<y, x>> \in R)
        BY <2>1, WFMin
    <2> QED BY <2>2 DEF R
<1>2. \A n \in T : ~ (n < m)
    BY <1>1 DEF OpToRel
<1> QED BY <1>2

(* A number is its tens and its last digit. *)
LEMMA Tens ==
    ASSUME NEW n \in Nat
    PROVE  /\ n \div 10 \in Nat /\ n % 10 \in 0..9
           /\ n = 10 * (n \div 10) + (n % 10)
           /\ n >= 10 => n \div 10 < n
           /\ n < 10 => n \div 10 = 0 /\ n % 10 = n
<1> DEFINE q == n \div 10
           r == n % 10
<1>1. q \in Int /\ r \in 0..9
    OBVIOUS
<1>2. n = 10 * q + r
    OBVIOUS
<1> HIDE DEF q, r
<1>3. q \in Nat /\ (n >= 10 => q < n) /\ (n < 10 => q = 0 /\ r = n)
    BY <1>1, <1>2
<1>4. n \div 10 \in Nat /\ n % 10 \in 0..9 /\ n = 10 * (n \div 10) + (n % 10)
    <2>1. n % 10 \in 0..9
        OBVIOUS
    <2>2. n = 10 * (n \div 10) + (n % 10)
        OBVIOUS
    <2>3. n \div 10 \in Nat
        BY <1>3 DEF q
    <2> QED BY <2>1, <2>2, <2>3
<1>5. n >= 10 => n \div 10 < n
    BY <1>3 DEF q
<1>6. n < 10 => n \div 10 = 0
    BY <1>3 DEF q
<1>7. n < 10 => n % 10 = n
    BY <1>3 DEF r
<1> QED BY <1>4, <1>5, <1>6, <1>7

\* The function by which Digits spells the numbers up to n.
IsSpelling(f, n) ==
    f = [m \in 0..n |-> IF m < 10 THEN <<m>> ELSE Append(f[m \div 10], m % 10)]

(* Such a function exists, and two of them agree where both are defined:   *)
(* the spelling of a number does not depend on the bound it is taken under. *)
LEMMA SpellingAt ==
    ASSUME NEW n \in Nat, NEW f, IsSpelling(f, n), NEW m \in 0..n
    PROVE  f[m] = IF m < 10 THEN <<m>> ELSE Append(f[m \div 10], m % 10)
BY DEF IsSpelling

LEMMA SpellingExists ==
    ASSUME NEW n \in Nat PROVE \E f : IsSpelling(f, n)
<1> DEFINE Bad == {k \in Nat : ~ \E f : IsSpelling(f, k)}
<1>1. ASSUME Bad # {} PROVE FALSE
    <2>1. PICK k \in Bad : \A j \in Bad : k <= j
        <3>1. Bad \in SUBSET Nat
            OBVIOUS
        <3> HIDE DEF Bad
        <3> QED BY <1>1, <3>1, LeastNumber
    <2>2. k # 0
        <3> DEFINE f == [m \in 0..0 |-> <<m>>]
        <3>1. IsSpelling(f, 0)
            BY DEF IsSpelling
        <3> QED BY <2>1, <3>1
    <2>3. k - 1 \in Nat /\ k - 1 \notin Bad
        BY <2>1, <2>2
    <2>4. PICK f : IsSpelling(f, k - 1)
        BY <2>3
    <2> DEFINE g == [m \in 0..k |-> IF m < 10 THEN <<m>> ELSE Append(f[m \div 10], m % 10)]
    <2>5. \A m \in 0..(k - 1) : g[m] = f[m]
        <3> SUFFICES ASSUME NEW m \in 0..(k - 1) PROVE g[m] = f[m]
            OBVIOUS
        <3>1. f[m] = IF m < 10 THEN <<m>> ELSE Append(f[m \div 10], m % 10)
            BY <2>3, <2>4, SpellingAt
        <3>2. m \in 0..k
            BY <2>1
        <3> QED BY <3>1, <3>2
    <2>6. \A m \in 0..k : m >= 10 => m \div 10 \in 0..(k - 1)
        BY <2>3, Tens
    <2>7. \A m \in 0..k : g[m] = IF m < 10 THEN <<m>> ELSE Append(g[m \div 10], m % 10)
        <3> TAKE m \in 0..k
        <3>1. CASE m < 10
            BY <3>1
        <3>2. CASE ~ (m < 10)
            <4> HIDE DEF g
            <4>0. m >= 10
                BY <2>1, <3>2
            <4>1. g[m \div 10] = f[m \div 10]
                BY <2>5, <2>6, <4>0
            <4>2. g[m] = Append(f[m \div 10], m % 10)
                BY <3>2 DEF g
            <4> QED BY <3>2, <4>1, <4>2
        <3> QED BY <3>1, <3>2
    <2>8. g = [m \in 0..k |-> g[m]]
        OBVIOUS
    <2>9. IsSpelling(g, k)
        <3> HIDE DEF g
        <3> QED BY <2>7, <2>8 DEF IsSpelling
    <2> QED BY <2>1, <2>9
<1> QED BY <1>1

LEMMA SpellingsAgree ==
    ASSUME NEW n \in Nat, NEW k \in Nat, k <= n, NEW f, NEW g, IsSpelling(f, n), IsSpelling(g, k)
    PROVE  \A m \in 0..k : f[m] = g[m]
<1> DEFINE Bad == {m \in 0..k : f[m] # g[m]}
<1>1. ASSUME Bad # {} PROVE FALSE
    <2>1. PICK m \in Bad : \A j \in Bad : m <= j
        <3>1. Bad \in SUBSET Nat
            OBVIOUS
        <3> HIDE DEF Bad
        <3> QED BY <1>1, <3>1, LeastNumber
    <2>2. /\ f[m] = IF m < 10 THEN <<m>> ELSE Append(f[m \div 10], m % 10)
          /\ g[m] = IF m < 10 THEN <<m>> ELSE Append(g[m \div 10], m % 10)
        BY SpellingAt
    <2>3. ~ (m < 10)
        BY <2>1, <2>2
    <2>4. m \div 10 \in 0..k /\ m \div 10 < m
        BY <2>3, Tens
    <2>5. f[m \div 10] = g[m \div 10]
        BY <2>1, <2>4
    <2> QED BY <2>1, <2>2, <2>3, <2>5
<1> QED BY <1>1

(* The digits of a number, from those of its tens (utils.rs, pad_key). *)
LEMMA DigitsOf ==
    ASSUME NEW n \in Nat
    PROVE  Digits(n) = IF n < 10 THEN <<n>> ELSE Append(Digits(n \div 10), n % 10)
<1> DEFINE spell(k) == CHOOSE f : IsSpelling(f, k)
<1>1. \A k \in Nat : IsSpelling(spell(k), k)
    BY SpellingExists
<1>2. \A k \in Nat : Digits(k) = spell(k)[k]
    BY DEF Digits, IsSpelling
<1> HIDE DEF spell
<1>3. CASE n < 10
    <2>1. spell(n)[n] = <<n>>
        <3>1. n \in 0..n /\ IsSpelling(spell(n), n)
            BY <1>1
        <3> QED BY <1>3, <3>1, SpellingAt
    <2> QED BY <1>2, <1>3, <2>1
<1>4. CASE ~ (n < 10)
    <2>1. n \div 10 \in Nat /\ n \div 10 <= n
        BY <1>4, Tens
    <2>2. spell(n)[n] = Append(spell(n)[n \div 10], n % 10)
        <3>1. n \in 0..n /\ IsSpelling(spell(n), n)
            BY <1>1
        <3> QED BY <1>4, <3>1, SpellingAt
    <2>3. spell(n)[n \div 10] = spell(n \div 10)[n \div 10]
        BY <1>1, <2>1, SpellingsAgree
    <2> QED BY <1>2, <1>4, <2>1, <2>2, <2>3
<1> QED BY <1>3, <1>4

(* A number has digits, and one at least. *)
LEMMA DigitsType ==
    ASSUME NEW n \in Nat PROVE Digits(n) \in Seq(0..9) /\ Len(Digits(n)) >= 1
<1> DEFINE Good(k) == Digits(k) \in Seq(0..9) /\ Len(Digits(k)) >= 1
           Bad == {k \in Nat : ~ Good(k)}
<1>1. ASSUME Bad # {} PROVE FALSE
    <2>1. PICK k \in Bad : \A j \in Bad : k <= j
        <3>1. Bad \in SUBSET Nat
            OBVIOUS
        <3> HIDE DEF Bad
        <3> QED BY <1>1, <3>1, LeastNumber
    <2>2. CASE k < 10
        <3>1. Digits(k) = <<k>> /\ k \in 0..9
            BY <2>2, DigitsOf
        <3>2. <<k>> \in Seq(0..9) /\ Len(<<k>>) >= 1
            BY <3>1
        <3> QED BY <2>1, <3>1, <3>2
    <2>3. CASE ~ (k < 10)
        <3>1. k \div 10 \in Nat /\ k \div 10 < k /\ k % 10 \in 0..9
            BY <2>3, Tens
        <3>2. Good(k \div 10)
            BY <2>1, <3>1
        <3>3. Digits(k) = Append(Digits(k \div 10), k % 10)
            BY <2>3, DigitsOf
        <3>4. Good(k)
            <4> DEFINE d == Digits(k \div 10)
            <4>1. d \in Seq(0..9) /\ Len(d) >= 1
                BY <3>2
            <4> HIDE DEF d
            <4>2. Append(d, k % 10) \in Seq(0..9) /\ Len(Append(d, k % 10)) = Len(d) + 1
                BY <3>1, <4>1, AppendProperties
            <4>3. Len(d) \in Nat
                BY <4>1
            <4> QED BY <3>3, <4>1, <4>2, <4>3 DEF d
        <3> QED BY <2>1, <3>4
    <2> QED BY <2>2, <2>3
<1>2. Good(n)
    BY <1>1
<1> QED BY <1>2

\* A number with zeros before it, w characters wide.
Padded(n, w) == [i \in 1..(w - Len(Digits(n))) |-> 0] \o Digits(n)

(* It is as wide as that, with zeros first and the digits after them. *)
LEMMA PaddedAt ==
    ASSUME NEW n \in Nat, NEW w \in Nat, Len(Digits(n)) <= w
    PROVE  /\ Padded(n, w) \in Seq(0..9)
           /\ Len(Padded(n, w)) = w
           /\ \A i \in 1..w : Padded(n, w)[i] =
                IF i <= w - Len(Digits(n)) THEN 0 ELSE Digits(n)[i - (w - Len(Digits(n)))]
<1> DEFINE d == Digits(n)
           k == w - Len(d)
           z == [i \in 1..k |-> 0]
<1>1. d \in Seq(0..9) /\ k \in Nat /\ Len(d) \in Nat
    BY DigitsType
<1> HIDE DEF d
<1>2. z \in Seq(0..9) /\ Len(z) = k
    <2> HIDE DEF k
    <2>1. z \in [1..k -> 0..9] /\ k \in Nat
        BY <1>1
    <2> HIDE DEF z
    <2> QED BY <2>1
<1>3. Padded(n, w) = z \o d
    BY DEF Padded, d
<1> HIDE DEF z, k
<1>4. z \o d \in Seq(0..9) /\ Len(z \o d) = Len(z) + Len(d)
    BY <1>1, <1>2, ConcatProperties
<1>5. \A i \in 1..w : (z \o d)[i] = IF i <= k THEN z[i] ELSE d[i - k]
    <2>1. Len(z) + Len(d) = w /\ Len(z) = k
        BY <1>1, <1>2 DEF k
    <2>2. \A i \in 1..(Len(z) + Len(d)) : (z \o d)[i] = IF i <= Len(z) THEN z[i] ELSE d[i - Len(z)]
        BY <1>1, <1>2, ConcatProperties
    <2> QED BY <2>1, <2>2
<1>6. \A i \in 1..w : i <= k => z[i] = 0
    BY <1>1 DEF z
<1>7. Padded(n, w) \in Seq(0..9) /\ Len(Padded(n, w)) = w
    <2>1. Len(z) + Len(d) = w
        BY <1>1, <1>2 DEF k
    <2> QED BY <1>3, <1>4, <2>1
<1>8. \A i \in 1..w : Padded(n, w)[i] = IF i <= k THEN 0 ELSE d[i - k]
    BY <1>3, <1>5, <1>6
<1> QED BY <1>7, <1>8 DEF k, d

(* What is before the last digit is the tens, padded.                      *)
LEMMA PaddedTens ==
    ASSUME NEW n \in Nat, NEW w \in Nat, w > 0, Len(Digits(n)) <= w + 1
    PROVE  /\ Len(Digits(n \div 10)) <= w
           /\ Padded(n, w + 1)[w + 1] = n % 10
           /\ \A i \in 1..w : Padded(n, w + 1)[i] = Padded(n \div 10, w)[i]
<1>1. n \div 10 \in Nat /\ Digits(n \div 10) \in Seq(0..9) /\ Len(Digits(n \div 10)) >= 1
    BY Tens, DigitsType
<1>2. CASE n < 10
    <2>1. n \div 10 = 0 /\ n % 10 = n /\ Digits(n) = <<n>> /\ Digits(0) = <<0>>
        BY <1>2, Tens, DigitsOf
    <2>2. Len(Digits(n)) = 1 /\ Len(Digits(0)) = 1 /\ Digits(n)[1] = n /\ Digits(0)[1] = 0
        BY <2>1
    <2>3. Padded(n, w + 1)[w + 1] = n /\ \A i \in 1..w : Padded(n, w + 1)[i] = 0
        <3>1. w + 1 \in Nat /\ Len(Digits(n)) <= w + 1
            OBVIOUS
        <3>2. \A i \in 1..(w + 1) : Padded(n, w + 1)[i] =
                IF i <= (w + 1) - Len(Digits(n)) THEN 0 ELSE Digits(n)[i - ((w + 1) - Len(Digits(n)))]
            BY <3>1, PaddedAt
        <3>3. \A i \in 1..(w + 1) : Padded(n, w + 1)[i] =
                IF i <= w THEN 0 ELSE Digits(n)[i - w]
            BY <2>2, <3>2
        <3> HIDE DEF Padded
        <3> QED BY <2>2, <3>3
    <2>4. \A i \in 1..w : Padded(0, w)[i] = 0
        <3>1. 0 \in Nat /\ Len(Digits(0)) <= w
            <4>1. Len(Digits(0)) = 1
                BY <2>2
            <4>2. w >= 1
                OBVIOUS
            <4>3. Len(Digits(0)) <= w
                BY <4>1, <4>2
            <4> QED BY <4>3
        <3>2. \A i \in 1..w : Padded(0, w)[i] =
                IF i <= w - Len(Digits(0)) THEN 0 ELSE Digits(0)[i - (w - Len(Digits(0)))]
            BY <3>1, PaddedAt
        <3> QED BY <2>2, <3>2
    <2> QED BY <2>1, <2>2, <2>3, <2>4
<1>3. CASE ~ (n < 10)
    <2> DEFINE d == Digits(n \div 10)
    <2>1. Digits(n) = Append(d, n % 10)
        BY <1>3, DigitsOf
    <2>2. d \in Seq(0..9) /\ n % 10 \in 0..9 /\ Len(d) \in Nat
        BY <1>1, Tens
    <2>3. /\ Len(Digits(n)) = Len(d) + 1
          /\ Digits(n)[Len(d) + 1] = n % 10
          /\ \A i \in 1..Len(d) : Digits(n)[i] = d[i]
        <3> HIDE DEF d
        <3> QED BY <2>1, <2>2, AppendProperties
    <2>4. Len(d) <= w
        <3> HIDE DEF d
        <3> QED BY <2>2, <2>3
    <2>5. \A i \in 1..(w + 1) : Padded(n, w + 1)[i] =
                IF i <= w - Len(d) THEN 0 ELSE Digits(n)[i - (w - Len(d))]
        <3>1. (w + 1) - Len(Digits(n)) = w - Len(d)
            <4> HIDE DEF d
            <4> QED BY <2>2, <2>3
        <3>2. w + 1 \in Nat /\ Len(Digits(n)) <= w + 1
            OBVIOUS
        <3>3. \A i \in 1..(w + 1) : Padded(n, w + 1)[i] =
                IF i <= (w + 1) - Len(Digits(n)) THEN 0 ELSE Digits(n)[i - ((w + 1) - Len(Digits(n)))]
            BY <3>2, PaddedAt
        <3> HIDE DEF d
        <3> QED BY <3>1, <3>3
    <2>6. \A i \in 1..w : Padded(n \div 10, w)[i] = IF i <= w - Len(d) THEN 0 ELSE d[i - (w - Len(d))]
        BY <1>1, <2>4, PaddedAt
    <2> HIDE DEF d
    <2>7. Padded(n, w + 1)[w + 1] = n % 10
        BY <2>2, <2>3, <2>4, <2>5
    <2>8. ASSUME NEW i \in 1..w PROVE Padded(n, w + 1)[i] = Padded(n \div 10, w)[i]
        <3>1. CASE i <= w - Len(d)
            BY <2>5, <2>6, <3>1
        <3>2. CASE ~ (i <= w - Len(d))
            <4>1. i - (w - Len(d)) \in 1..Len(d)
                BY <2>2, <2>4, <3>2
            <4>2. i \in 1..(w + 1)
                OBVIOUS
            <4>3. Padded(n, w + 1)[i] = Digits(n)[i - (w - Len(d))]
                BY <2>5, <3>2, <4>2
            <4>4. Padded(n \div 10, w)[i] = d[i - (w - Len(d))]
                BY <2>6, <3>2
            <4> QED BY <2>3, <4>1, <4>3, <4>4
        <3> QED BY <3>1, <3>2
    <2> QED BY <2>4, <2>7, <2>8 DEF d
<1> QED BY <1>2, <1>3

\* The first character in which they differ is lower in a.
Lower(a, b, w) == \E i \in 1..w : a[i] < b[i] /\ \A j \in 1..(i - 1) : a[j] = b[j]

(* Of two numbers of one width the lower has the lower digit where they    *)
(* first differ: by the width, from the tens.                              *)
LEMMA PaddedLower ==
    ASSUME NEW w \in Nat
    PROVE  \A n, m \in Nat : n < m /\ Len(Digits(n)) <= w /\ Len(Digits(m)) <= w => Lower(Padded(n, w), Padded(m, w), w)
<1> DEFINE Good(k) == \A n, m \in Nat :
                n < m /\ Len(Digits(n)) <= k /\ Len(Digits(m)) <= k => Lower(Padded(n, k), Padded(m, k), k)
           Bad == {k \in Nat : ~ Good(k)}
<1>1. ASSUME Bad # {} PROVE FALSE
    <2>1. PICK k \in Bad : \A j \in Bad : k <= j
        <3>1. Bad \in SUBSET Nat
            OBVIOUS
        <3> HIDE DEF Bad
        <3> QED BY <1>1, <3>1, LeastNumber
    <2>2. PICK n \in Nat, m \in Nat : /\ n < m /\ Len(Digits(n)) <= k /\ Len(Digits(m)) <= k
                                      /\ ~ Lower(Padded(n, k), Padded(m, k), k)
        BY <2>1
    <2>3. k # 0
        BY <2>2, DigitsType
    <2>4. CASE k = 1
        <3>1. \A x \in Nat : Len(Digits(x)) <= 1 => x < 10 /\ Digits(x) = <<x>>
            <4> SUFFICES ASSUME NEW x \in Nat, Len(Digits(x)) <= 1 PROVE x < 10 /\ Digits(x) = <<x>>
                OBVIOUS
            <4>1. ASSUME ~ (x < 10) PROVE FALSE
                <5>1. Digits(x) = Append(Digits(x \div 10), x % 10)
                    BY <4>1, DigitsOf
                <5>2. Digits(x \div 10) \in Seq(0..9) /\ Len(Digits(x \div 10)) >= 1 /\ x % 10 \in 0..9
                    BY Tens, DigitsType
                <5>3. Len(Digits(x)) = Len(Digits(x \div 10)) + 1
                    BY <5>1, <5>2, AppendProperties
                <5> QED BY <5>2, <5>3
            <4> QED BY <4>1, DigitsOf
        <3>2. Padded(n, 1)[1] = n /\ Padded(m, 1)[1] = m
            <4>1. ASSUME NEW x \in Nat, Len(Digits(x)) <= 1 PROVE Padded(x, 1)[1] = x
                <5>1. Digits(x) = <<x>>
                    BY <3>1, <4>1
                <5>2. Len(Digits(x)) = 1 /\ Digits(x)[1] = x
                    BY <5>1
                <5>3. Padded(x, 1)[1] = Digits(x)[1 - (1 - Len(Digits(x)))]
                    <6>1. 1 \in Nat /\ 1 \in 1..1 /\ ~ (1 <= 1 - Len(Digits(x)))
                        BY <5>2
                    <6> QED BY <4>1, <6>1, PaddedAt
                <5>4. 1 - (1 - Len(Digits(x))) = 1
                    BY <5>2
                <5> QED BY <5>2, <5>3, <5>4
            <4> QED BY <2>2, <2>4, <4>1
        <3> QED BY <2>2, <2>4, <3>2 DEF Lower
    <2>5. CASE k > 1
        <3> DEFINE w1 == k - 1
        <3>1. w1 \in Nat /\ w1 > 0 /\ k = w1 + 1
            BY <2>5
        <3> HIDE DEF w1
        <3>2. Good(w1)
            BY <2>1, <3>1
        <3>3. /\ n \div 10 \in Nat /\ m \div 10 \in Nat
              /\ n = 10 * (n \div 10) + (n % 10) /\ m = 10 * (m \div 10) + (m % 10)
              /\ n % 10 \in 0..9 /\ m % 10 \in 0..9
            BY Tens
        <3>4. /\ Len(Digits(n \div 10)) <= w1 /\ Len(Digits(m \div 10)) <= w1
              /\ Padded(n, k)[k] = n % 10 /\ Padded(m, k)[k] = m % 10
              /\ \A i \in 1..w1 : Padded(n, k)[i] = Padded(n \div 10, w1)[i] /\ Padded(m, k)[i] = Padded(m \div 10, w1)[i]
            <4>1. ASSUME NEW x \in Nat, Len(Digits(x)) <= k
                  PROVE  /\ Len(Digits(x \div 10)) <= w1
                         /\ Padded(x, k)[k] = x % 10
                         /\ \A i \in 1..w1 : Padded(x, k)[i] = Padded(x \div 10, w1)[i]
                BY <3>1, <4>1, PaddedTens
            <4> HIDE DEF Padded
            <4> QED BY <2>2, <4>1
        <3>5. CASE n \div 10 < m \div 10
            <4>1. PICK i \in 1..w1 : /\ Padded(n \div 10, w1)[i] < Padded(m \div 10, w1)[i]
                                     /\ \A j \in 1..(i - 1) : Padded(n \div 10, w1)[j] = Padded(m \div 10, w1)[j]
                <5>1. Lower(Padded(n \div 10, w1), Padded(m \div 10, w1), w1)
                    BY <3>2, <3>3, <3>4, <3>5
                <5> QED BY <5>1 DEF Lower
            <4>2. i \in 1..k /\ \A j \in 1..(i - 1) : j \in 1..w1
                BY <3>1
            <4>3. Padded(n, k)[i] < Padded(m, k)[i] /\ \A j \in 1..(i - 1) : Padded(n, k)[j] = Padded(m, k)[j]
                BY <3>4, <4>1, <4>2
            <4> QED BY <2>2, <4>2, <4>3 DEF Lower
        <3>6. CASE ~ (n \div 10 < m \div 10)
            <4>1. n \div 10 = m \div 10 /\ n % 10 < m % 10
                BY <2>2, <3>3, <3>6
            <4>2. k \in 1..k /\ \A j \in 1..(k - 1) : j \in 1..w1
                BY <3>1
            <4>3. Padded(n, k)[k] < Padded(m, k)[k] /\ \A j \in 1..(k - 1) : Padded(n, k)[j] = Padded(m, k)[j]
                BY <3>4, <4>1, <4>2
            <4> QED BY <2>2, <4>2, <4>3 DEF Lower
        <3> QED BY <3>5, <3>6
    <2> QED BY <2>3, <2>4, <2>5
<1>2. Good(w)
    BY <1>1
<1> QED BY <1>2

(* Between texts of one width that is the order of the table. *)
LEMMA BelowLower ==
    ASSUME NEW a \in Seq(Int), NEW b \in Seq(Int), NEW w \in Nat, Len(a) = w, Len(b) = w
    PROVE  Below(a, b) <=> Lower(a, b, w)
<1>1. ASSUME Lower(a, b, w) PROVE Below(a, b)
    <2>1. PICK i \in 1..w : a[i] < b[i] /\ \A j \in 1..(i - 1) : a[j] = b[j]
        BY <1>1 DEF Lower
    <2>2. SubSeq(a, 1, i - 1) = SubSeq(b, 1, i - 1)
        BY <2>1
    <2>3. i - 1 \in 0..Len(a) /\ i - 1 < Len(b) /\ (i - 1) + 1 = i
        OBVIOUS
    <2> QED BY <2>1, <2>2, <2>3 DEF Below
<1>2. ASSUME Below(a, b) PROVE Lower(a, b, w)
    <2>1. PICK n \in 0..w : /\ n < w /\ SubSeq(a, 1, n) = SubSeq(b, 1, n) /\ a[n + 1] < b[n + 1]
        BY <1>2 DEF Below
    <2>2. \A j \in 1..n : SubSeq(a, 1, n)[j] = a[j] /\ SubSeq(b, 1, n)[j] = b[j]
        BY <2>1
    <2>3. n + 1 \in 1..w /\ (n + 1) - 1 = n
        BY <2>1
    <2> QED BY <2>1, <2>2, <2>3 DEF Lower
<1> QED BY <1>1, <1>2

(* It goes one way only. *)
LEMMA LowerOneWay ==
    ASSUME NEW a \in Seq(Int), NEW b \in Seq(Int), NEW w \in Nat, Len(a) = w, Len(b) = w, Lower(a, b, w)
    PROVE  ~ Lower(b, a, w)
<1> SUFFICES ASSUME Lower(b, a, w) PROVE FALSE
    OBVIOUS
<1>1. PICK i \in 1..w : a[i] < b[i] /\ \A j \in 1..(i - 1) : a[j] = b[j]
    BY DEF Lower
<1>2. PICK k \in 1..w : b[k] < a[k] /\ \A j \in 1..(k - 1) : b[j] = a[j]
    BY DEF Lower
<1>3. a[i] \in Int /\ b[i] \in Int /\ a[k] \in Int /\ b[k] \in Int
    OBVIOUS
<1>4. CASE i < k
    <2>1. i \in 1..(k - 1)
        BY <1>4
    <2> QED BY <1>1, <1>2, <1>3, <2>1
<1>5. CASE k < i
    <2>1. k \in 1..(i - 1)
        BY <1>5
    <2> QED BY <1>1, <1>2, <1>3, <2>1
<1>6. CASE i = k
    BY <1>1, <1>2, <1>3, <1>6
<1> QED BY <1>4, <1>5, <1>6

(* The padded keys of two numbers are in the order of the text exactly when *)
(* the numbers are in order, for numbers of any size that the width holds   *)
(* (20 digits, as many as a usize of 64 bits has: utils.rs, pad_key, whose  *)
(* keys sort.rs compares as text).                                          *)
THEOREM PaddedKeysInOrder ==
    ASSUME NEW n \in Nat, NEW m \in Nat, Len(Digits(n)) <= 20, Len(Digits(m)) <= 20
    PROVE  Below(pad_key(n), pad_key(m)) <=> n < m
<1>1. \A x \in Nat : pad_key(x) = Padded(x, 20)
    BY DEF pad_key, Padded
<1>2. \A x \in {n, m} : pad_key(x) \in Seq(Int) /\ Len(pad_key(x)) = 20
    <2>1. ASSUME NEW x \in {n, m} PROVE Padded(x, 20) \in Seq(0..9) /\ Len(Padded(x, 20)) = 20
        <3>1. x \in Nat /\ Len(Digits(x)) <= 20 /\ 20 \in Nat
            OBVIOUS
        <3> QED BY <3>1, PaddedAt
    <2>2. \A s \in Seq(0..9) : s \in Seq(Int)
        OBVIOUS
    <2> HIDE DEF Padded
    <2> QED BY <1>1, <2>1, <2>2
<1>3. \A x, y \in {n, m} : Below(pad_key(x), pad_key(y)) <=> Lower(pad_key(x), pad_key(y), 20)
    BY <1>2, BelowLower
<1>4. \A x, y \in {n, m} : x < y => Lower(pad_key(x), pad_key(y), 20)
    BY <1>1, PaddedLower
<1>5. \A x, y \in {n, m} : Lower(pad_key(x), pad_key(y), 20) => ~ Lower(pad_key(y), pad_key(x), 20)
    <2> SUFFICES ASSUME NEW x \in {n, m}, NEW y \in {n, m},
                        Lower(pad_key(x), pad_key(y), 20), Lower(pad_key(y), pad_key(x), 20)
                 PROVE  FALSE
        OBVIOUS
    <2>1. pad_key(x) \in Seq(Int) /\ pad_key(y) \in Seq(Int) /\ Len(pad_key(x)) = 20 /\ Len(pad_key(y)) = 20
        BY <1>2
    <2> QED BY <2>1, LowerOneWay
<1>6. CASE n < m
    BY <1>3, <1>4, <1>6
<1>7. CASE m < n
    BY <1>3, <1>4, <1>5, <1>7
<1>8. CASE n = m
    BY <1>3, <1>5, <1>8
<1> QED BY <1>6, <1>7, <1>8

\* One of two members always goes before the other.
StrictOrder(S, before) ==
    /\ \A i \in S : <<i, i>> \notin before
    /\ \A i, j \in S : i # j => <<i, j>> \in before \/ <<j, i>> \in before
    /\ \A i, j, k \in S : <<i, j>> \in before /\ <<j, k>> \in before => <<i, k>> \in before

Ahead(S, before, i) == {j \in S : <<j, i>> \in before}

(* The more are ahead of a member the further back it is. *)
LEMMA AheadGrows ==
    ASSUME NEW S, IsFiniteSet(S), NEW before, StrictOrder(S, before), NEW i \in S
    PROVE  /\ Cardinality(Ahead(S, before, i)) \in 0..(Cardinality(S) - 1)
           /\ \A j \in S : <<i, j>> \in before =>
                Cardinality(Ahead(S, before, i)) < Cardinality(Ahead(S, before, j))
<1>1. \A T \in SUBSET S : IsFiniteSet(T) /\ Cardinality(T) \in Nat /\ Cardinality(S) \in Nat
    BY FS_Subset, FS_CardinalityType
<1>2. ASSUME NEW T \in SUBSET S, Ahead(S, before, i) \subseteq T, i \in T
      PROVE  Cardinality(Ahead(S, before, i)) < Cardinality(T)
    <2>1. Ahead(S, before, i) \in SUBSET S /\ i \notin Ahead(S, before, i)
        BY DEF Ahead, StrictOrder
    <2>2. /\ Cardinality(Ahead(S, before, i)) <= Cardinality(T)
          /\ Cardinality(T) = Cardinality(Ahead(S, before, i)) => T = Ahead(S, before, i)
        BY <1>1, <1>2, FS_Subset
    <2> QED BY <1>1, <1>2, <2>1, <2>2
<1>3. Cardinality(Ahead(S, before, i)) < Cardinality(S)
    BY <1>2 DEF Ahead
<1>4. ASSUME NEW j \in S, <<i, j>> \in before
      PROVE  Cardinality(Ahead(S, before, i)) < Cardinality(Ahead(S, before, j))
    BY <1>2, <1>4 DEF Ahead, StrictOrder
<1> QED
    <2>1. Ahead(S, before, i) \in SUBSET S
        BY DEF Ahead
    <2> QED BY <1>1, <1>3, <1>4, <2>1

(* So each place has one member, and each member a place. *)
LEMMA InOrderIsOrder ==
    ASSUME NEW S, IsFiniteSet(S), NEW before, StrictOrder(S, before)
    PROVE  LET order == InOrder(S, before)
           IN  /\ DOMAIN order = 1..Cardinality(S)
               /\ \A k \in DOMAIN order : order[k] \in S
               /\ \A i \in S : \E k \in DOMAIN order : order[k] = i
               /\ \A k, l \in DOMAIN order : k < l => <<order[k], order[l]>> \in before
<1> DEFINE n == Cardinality(S)
           order == InOrder(S, before)
           Rank(i) == Cardinality(Ahead(S, before, i))
           place == [i \in S |-> Rank(i) + 1]
<1>1. n \in Nat
    BY FS_CardinalityType
<1>2. \A i \in S : Rank(i) \in 0..(n - 1)
    BY AheadGrows
<1>3. \A i, j \in S : <<i, j>> \in before => Rank(i) < Rank(j)
    BY AheadGrows
<1> HIDE DEF n, Rank
<1>4. \A i, j \in S : Rank(i) = Rank(j) => i = j
    <2> SUFFICES ASSUME NEW i \in S, NEW j \in S, i # j PROVE Rank(i) # Rank(j)
        OBVIOUS
    <2>1. <<i, j>> \in before \/ <<j, i>> \in before
        BY DEF StrictOrder
    <2>2. Rank(i) \in Int /\ Rank(j) \in Int /\ (Rank(i) < Rank(j) \/ Rank(j) < Rank(i))
        BY <1>1, <1>2, <1>3, <2>1
    <2> QED BY <2>2
<1>5. place \in Injection(S, 1..n)
    <2>1. place \in [S -> 1..n]
        BY <1>1, <1>2
    <2>2. \A i, j \in S : place[i] = place[j] => i = j
        BY <1>2, <1>4
    <2> QED BY <2>1, <2>2 DEF Injection, IsInjective
<1>6. place \in Surjection(S, 1..n)
    <2>1. IsFiniteSet(1..n) /\ Cardinality(1..n) = n
        BY <1>1, FS_Interval
    <2> HIDE DEF place
    <2> QED BY <1>5, <2>1, FS_Injection DEF n
<1>7. \A k \in 1..n : \E i \in S : Rank(i) = k - 1
    <2> SUFFICES ASSUME NEW k \in 1..n PROVE \E i \in S : Rank(i) = k - 1
        OBVIOUS
    <2>1. PICK i \in S : place[i] = k
        BY <1>6 DEF Surjection
    <2> QED BY <1>2, <2>1
<1>8. DOMAIN order = 1..n /\ \A k \in 1..n : order[k] = CHOOSE i \in S : Rank(i) = k - 1
    BY DEF InOrder, n, Rank, Ahead
<1> HIDE DEF order
<1>9. \A k \in 1..n : order[k] \in S /\ Rank(order[k]) = k - 1
    BY <1>7, <1>8
<1>10. \A i \in S : \E k \in 1..n : order[k] = i
    <2> SUFFICES ASSUME NEW i \in S PROVE \E k \in 1..n : order[k] = i
        OBVIOUS
    <2>1. Rank(i) + 1 \in 1..n /\ Rank(i) \in Int
        BY <1>1, <1>2
    <2>2. Rank(order[Rank(i) + 1]) = Rank(i) /\ order[Rank(i) + 1] \in S
        BY <1>9, <2>1
    <2> QED BY <1>4, <2>1, <2>2
<1>11. \A k, l \in 1..n : k < l => <<order[k], order[l]>> \in before
    <2> SUFFICES ASSUME NEW k \in 1..n, NEW l \in 1..n, k < l PROVE <<order[k], order[l]>> \in before
        OBVIOUS
    <2>1. order[k] \in S /\ order[l] \in S /\ Rank(order[k]) < Rank(order[l])
        BY <1>9
    <2>2. order[k] # order[l]
        BY <2>1, <1>2
    <2>3. <<order[l], order[k]>> \notin before
        BY <1>2, <1>3, <2>1
    <2> QED BY <2>1, <2>2, <2>3 DEF StrictOrder
<1> QED BY <1>8, <1>9, <1>10, <1>11 DEF n, order

(* Some places of a sequence, in their order. *)
LEMMA SelectedPlaces ==
    ASSUME NEW n \in Nat, NEW places \in SUBSET (1..n)
    PROVE  LET order == InOrder(places, {p \in places \X places : p[1] < p[2]})
           IN  /\ IsFiniteSet(places)
               /\ DOMAIN order = 1..Cardinality(places)
               /\ \A k \in DOMAIN order : order[k] \in places
               /\ \A i \in places : \E k \in DOMAIN order : order[k] = i
               /\ \A k, l \in DOMAIN order : k < l => order[k] < order[l]
<1> DEFINE before == {p \in places \X places : p[1] < p[2]}
<1>1. IsFiniteSet(places)
    <2>1. IsFiniteSet(1..n)
        BY FS_Interval
    <2> QED BY <2>1, FS_Subset
<1>2. \A i, j \in places : <<i, j>> \in before <=> i < j
    OBVIOUS
<1> HIDE DEF before
<1>3. StrictOrder(places, before)
    BY <1>2 DEF StrictOrder
<1>4. LET order == InOrder(places, before)
      IN  /\ DOMAIN order = 1..Cardinality(places)
          /\ \A k \in DOMAIN order : order[k] \in places
          /\ \A i \in places : \E k \in DOMAIN order : order[k] = i
          /\ \A k, l \in DOMAIN order : k < l => <<order[k], order[l]>> \in before
    BY <1>1, <1>3, InOrderIsOrder
<1> QED BY <1>1, <1>2, <1>4 DEF before

(* All places of a sequence are the sequence. *)
LEMMA SelectedAll ==
    ASSUME NEW n \in Nat, NEW s, s = [i \in 1..n |-> s[i]]
    PROVE  Selected(s, DOMAIN s) = s
<1> DEFINE places == 1..n
           before == {p \in places \X places : p[1] < p[2]}
           order == InOrder(places, before)
<1>1. DOMAIN s = places /\ Cardinality(places) = n
    BY FS_Interval
<1>2. \A i \in places : {j \in places : <<j, i>> \in before} = 1..(i - 1)
    OBVIOUS
<1>3. \A i \in places : Cardinality({j \in places : <<j, i>> \in before}) = i - 1
    <2> SUFFICES ASSUME NEW i \in places PROVE Cardinality(1..(i - 1)) = i - 1
        BY <1>2
    <2>1. i \in 1..n
        OBVIOUS
    <2> DEFINE m == i - 1
    <2>2. m \in Nat
        BY <2>1
    <2> HIDE DEF m
    <2>3. Cardinality(1..m) = m
        BY <2>2, FS_Interval
    <2> QED BY <2>3 DEF m
<1> HIDE DEF before
<1>4. DOMAIN order = 1..n /\ \A k \in places :
        order[k] = CHOOSE i \in places : Cardinality({j \in places : <<j, i>> \in before}) = k - 1
    BY <1>1 DEF InOrder
<1>5. \A k \in places : order[k] = k
    <2> SUFFICES ASSUME NEW k \in places PROVE order[k] = k
        OBVIOUS
    <2>1. \E i \in places : Cardinality({j \in places : <<j, i>> \in before}) = k - 1
        BY <1>3
    <2>2. order[k] \in places /\ Cardinality({j \in places : <<j, order[k]>> \in before}) = k - 1
        BY <1>4, <2>1
    <2>3. order[k] - 1 = k - 1
        BY <1>3, <2>2
    <2> QED BY <2>2, <2>3
<1> HIDE DEF order
<1>6. [k \in DOMAIN order |-> s[order[k]]] = [k \in 1..n |-> s[k]]
    BY <1>4, <1>5
<1>7. Selected(s, DOMAIN s) = [k \in DOMAIN order |-> s[order[k]]]
    BY <1>1 DEF Selected, order, before
<1> QED BY <1>6, <1>7

(* A text is below another when it goes on as the other up to its end, or   *)
(* to a lower character.                                                    *)
LEMMA BelowAt ==
    ASSUME NEW a \in Seq(Int), NEW b \in Seq(Int)
    PROVE  Below(a, b) <=> \E n \in 0..Len(a) : /\ n < Len(b)
                                                /\ \A j \in 1..n : a[j] = b[j]
                                                /\ n = Len(a) \/ a[n + 1] < b[n + 1]
<1> SUFFICES ASSUME NEW n \in 0..Len(a), n < Len(b)
             PROVE  SubSeq(a, 1, n) = SubSeq(b, 1, n) <=> \A j \in 1..n : a[j] = b[j]
    BY DEF Below
<1>1. SubSeq(a, 1, n) = [j \in 1..n |-> a[j]] /\ SubSeq(b, 1, n) = [j \in 1..n |-> b[j]]
    OBVIOUS
<1>2. ASSUME SubSeq(a, 1, n) = SubSeq(b, 1, n), NEW j \in 1..n PROVE a[j] = b[j]
    <2>1. SubSeq(a, 1, n)[j] = a[j] /\ SubSeq(b, 1, n)[j] = b[j]
        BY <1>1
    <2> QED BY <1>2, <2>1
<1> QED BY <1>1, <1>2

(* No text is below itself, and what is below a text is below those above  *)
(* it.                                                                      *)
LEMMA BelowGoesOn ==
    ASSUME NEW a \in Seq(Int), NEW b \in Seq(Int), NEW c \in Seq(Int)
    PROVE  /\ ~ Below(a, a)
           /\ Below(a, b) /\ Below(b, c) => Below(a, c)
<1>1. Len(a) \in Nat /\ Len(b) \in Nat /\ Len(c) \in Nat
      /\ (\A i \in 1..Len(a) : a[i] \in Int) /\ (\A i \in 1..Len(b) : b[i] \in Int) /\ (\A i \in 1..Len(c) : c[i] \in Int)
    OBVIOUS
<1>2. ~ Below(a, a)
    <2>1. ~ \E n \in 0..Len(a) : n < Len(a) /\ (n = Len(a) \/ a[n + 1] < a[n + 1])
        BY <1>1
    <2> QED BY <2>1, BelowAt
<1>3. ASSUME Below(a, b), Below(b, c) PROVE Below(a, c)
    <2>1. PICK n \in 0..Len(a) : n < Len(b) /\ (\A j \in 1..n : a[j] = b[j]) /\ (n = Len(a) \/ a[n + 1] < b[n + 1])
        BY <1>3, BelowAt
    <2>2. PICK m \in 0..Len(b) : m < Len(c) /\ (\A j \in 1..m : b[j] = c[j]) /\ (m = Len(b) \/ b[m + 1] < c[m + 1])
        BY <1>3, BelowAt
    <2> DEFINE l == IF n < m THEN n ELSE m
    <2>3. l \in 0..Len(a) /\ l < Len(c) /\ \A j \in 1..l : a[j] = c[j]
        BY <1>1, <2>1, <2>2
    <2>4. l = Len(a) \/ a[l + 1] < c[l + 1]
        <3>1. CASE n < m
            <4>1. n = Len(a) \/ (a[n + 1] < b[n + 1] /\ b[n + 1] = c[n + 1])
                <5>1. n + 1 \in 1..m
                    BY <1>1, <2>1, <2>2, <3>1
                <5> QED BY <2>1, <2>2, <5>1
            <4> QED BY <3>1, <4>1
        <3>2. CASE m < n
            <4>1. m + 1 \in 1..n /\ m # Len(b)
                BY <1>1, <2>1, <2>2, <3>2
            <4>2. a[m + 1] = b[m + 1] /\ b[m + 1] < c[m + 1]
                BY <2>1, <2>2, <4>1
            <4> QED BY <3>2, <4>2
        <3>3. CASE n = m
            <4>1. b[n + 1] < c[n + 1]
                BY <2>1, <2>2, <3>3
            <4>2. n + 1 \in 1..Len(b) /\ n + 1 \in 1..Len(c) /\ (n # Len(a) => n + 1 \in 1..Len(a))
                BY <1>1, <2>1, <2>2, <3>3
            <4>3. b[n + 1] \in Int /\ c[n + 1] \in Int /\ (n # Len(a) => a[n + 1] \in Int)
                BY <1>1, <4>2
            <4>4. l = n
                BY <3>3
            <4>5. n # Len(a) => a[n + 1] < c[n + 1]
                <5>1. n # Len(a) => a[n + 1] < b[n + 1]
                    BY <2>1
                <5>2. \A x, y, z \in Int : x < y /\ y < z => x < z
                    OBVIOUS
                <5> QED BY <4>1, <4>3, <5>1, <5>2
            <4> HIDE DEF l
            <4> QED BY <4>4, <4>5
        <3> QED BY <1>1, <2>1, <2>2, <3>1, <3>2, <3>3
    <2> HIDE DEF l
    <2> QED BY <2>3, <2>4, BelowAt
<1> QED BY <1>2, <1>3

(* Of two texts one is below the other. *)
LEMMA BelowDecides ==
    ASSUME NEW a \in Seq(Int), NEW b \in Seq(Int), a # b
    PROVE  Below(a, b) \/ Below(b, a)
<1>1. Len(a) \in Nat /\ Len(b) \in Nat
      /\ (\A i \in 1..Len(a) : a[i] \in Int) /\ (\A i \in 1..Len(b) : b[i] \in Int)
    OBVIOUS
<1> DEFINE apart == {n \in Nat : n = Len(a) \/ n = Len(b) \/ (n < Len(a) /\ n < Len(b) /\ a[n + 1] # b[n + 1])}
<1>2. PICK n \in apart : \A m \in apart : n <= m
    <2>1. apart \in SUBSET Nat /\ apart # {}
        BY <1>1
    <2> HIDE DEF apart
    <2> QED BY <2>1, LeastNumber
<1>3. n <= Len(a) /\ n <= Len(b) /\ n \in Nat
    <2>1. Len(a) \in apart /\ Len(b) \in apart /\ n \in Nat
        BY <1>1
    <2> HIDE DEF apart
    <2> QED BY <1>2, <2>1
<1>4. \A j \in 1..n : a[j] = b[j]
    <2> SUFFICES ASSUME NEW j \in 1..n, a[j] # b[j] PROVE FALSE
        OBVIOUS
    <2>1. j - 1 \in apart
        BY <1>1, <1>3
    <2> QED BY <1>2, <1>3, <2>1
<1>5. CASE n = Len(a) /\ n = Len(b)
    <2>1. a = b
        BY <1>4, <1>5, SeqEqual
    <2> QED BY <2>1
<1>6. CASE n = Len(a) /\ n < Len(b)
    <2>1. n \in 0..Len(a) /\ n < Len(b) /\ (\A j \in 1..n : a[j] = b[j]) /\ n = Len(a)
        BY <1>1, <1>3, <1>4, <1>6
    <2> QED BY <2>1, BelowAt
<1>7. CASE n = Len(b) /\ n < Len(a)
    <2>1. n \in 0..Len(b) /\ n < Len(a) /\ (\A j \in 1..n : b[j] = a[j]) /\ n = Len(b)
        BY <1>1, <1>3, <1>4, <1>7
    <2> QED BY <2>1, BelowAt
<1>8. CASE n < Len(a) /\ n < Len(b)
    <2>1. a[n + 1] # b[n + 1] /\ n + 1 \in 1..Len(a) /\ n + 1 \in 1..Len(b)
        BY <1>1, <1>2, <1>3, <1>8
    <2>2. a[n + 1] < b[n + 1] \/ b[n + 1] < a[n + 1]
        BY <1>1, <2>1
    <2>3. n \in 0..Len(a) /\ n \in 0..Len(b)
        BY <1>1, <1>3
    <2>4. CASE a[n + 1] < b[n + 1]
        BY <1>4, <1>8, <2>3, <2>4, BelowAt
    <2>5. CASE b[n + 1] < a[n + 1]
        BY <1>4, <1>8, <2>3, <2>5, BelowAt
    <2> QED BY <2>2, <2>4, <2>5
<1> QED BY <1>1, <1>3, <1>5, <1>6, <1>7, <1>8

(* Texts in their order or against it.                                     *)
LEMMA WayGoesOn ==
    ASSUME NEW descending \in BOOLEAN, NEW T, \A t \in T : t \in Seq(Int)
    PROVE  LET Less(a, b) == IF descending THEN Below(b, a) ELSE Below(a, b)
           IN  /\ \A a \in T : ~ Less(a, a)
               /\ \A a, b \in T : a # b => Less(a, b) \/ Less(b, a)
               /\ \A a, b, c \in T : Less(a, b) /\ Less(b, c) => Less(a, c)
<1>1. /\ \A a \in T : ~ Below(a, a)
      /\ \A a, b, c \in T : Below(a, b) /\ Below(b, c) => Below(a, c)
    BY BelowGoesOn
<1>2. \A a, b \in T : a # b => Below(a, b) \/ Below(b, a)
    BY BelowDecides
<1> QED BY <1>1, <1>2

(* The order of the table never leaves two rows undecided, and has no       *)
(* circles.                                                                 *)
LEMMA RowOrderIsOrder ==
    ASSUME NEW n \in Nat, NEW rows, DOMAIN rows = 1..n, NEW columns, NEW by, NEW descending \in BOOLEAN,
           \A i \in 1..n : /\ SortKey(columns, rows[i], by) \in Seq(Int)
                           /\ by = "namespace" => SortKey(columns, rows[i], "name") \in Seq(Int)
    PROVE  StrictOrder(1..n, RowOrder(columns, rows, by, descending))
<1> DEFINE Key(i) == SortKey(columns, rows[i], by)
           Name(i) == SortKey(columns, rows[i], "name")
           Less(i, j) == IF descending THEN Below(Key(j), Key(i)) ELSE Below(Key(i), Key(j))
           ByName(i, j) == by = "namespace" /\ Name(i) # Name(j)
           Tie(i, j) == IF ByName(i, j) THEN Below(Name(i), Name(j)) ELSE i < j
           Before(i, j) == Less(i, j) \/ (Key(i) = Key(j) /\ Tie(i, j))
<1>1. \A i, j \in 1..n : <<i, j>> \in RowOrder(columns, rows, by, descending) <=> Before(i, j)
    BY DEF RowOrder
<1> DEFINE Keys == {Key(i) : i \in 1..n}
           Names == IF by = "namespace" THEN {Name(i) : i \in 1..n} ELSE {}
<1>2. \A i \in 1..n : Key(i) \in Keys /\ (by = "namespace" => Name(i) \in Names)
    OBVIOUS
<1>3. \A t \in Keys \cup Names : t \in Seq(Int)
    OBVIOUS
<1> HIDE DEF Keys, Names, Key, Name
<1>4. /\ \A i \in 1..n : ~ Less(i, i)
      /\ \A i, j \in 1..n : Key(i) # Key(j) => Less(i, j) \/ Less(j, i)
      /\ \A i, j, k \in 1..n : Less(i, j) /\ Less(j, k) => Less(i, k)
      /\ \A i, j, k \in 1..n : Key(i) = Key(j) => (Less(i, k) <=> Less(j, k)) /\ (Less(k, i) <=> Less(k, j))
    <2>1. LET L(a, b) == IF descending THEN Below(b, a) ELSE Below(a, b)
          IN  /\ \A a \in Keys : ~ L(a, a)
              /\ \A a, b \in Keys : a # b => L(a, b) \/ L(b, a)
              /\ \A a, b, c \in Keys : L(a, b) /\ L(b, c) => L(a, c)
        BY <1>3, WayGoesOn
    <2> QED BY <1>2, <2>1
<1>5. /\ \A i \in 1..n : ~ Tie(i, i)
      /\ \A i, j \in 1..n : i # j => Tie(i, j) \/ Tie(j, i)
      /\ \A i, j, k \in 1..n : Tie(i, j) /\ Tie(j, k) => Tie(i, k)
    <2>1. LET L(a, b) == IF FALSE THEN Below(b, a) ELSE Below(a, b)
          IN  /\ \A a \in Names : ~ L(a, a)
              /\ \A a, b \in Names : a # b => L(a, b) \/ L(b, a)
              /\ \A a, b, c \in Names : L(a, b) /\ L(b, c) => L(a, c)
        BY <1>3, WayGoesOn
    <2>2. by = "namespace" =>
            /\ \A i \in 1..n : ~ Below(Name(i), Name(i))
            /\ \A i, j \in 1..n : Name(i) # Name(j) => Below(Name(i), Name(j)) \/ Below(Name(j), Name(i))
            /\ \A i, j, k \in 1..n : Below(Name(i), Name(j)) /\ Below(Name(j), Name(k)) => Below(Name(i), Name(k))
        BY <1>2, <2>1
    <2>3. \A i, j, k \in 1..n : Tie(i, j) /\ Tie(j, k) => Tie(i, k)
        <3> SUFFICES ASSUME NEW i \in 1..n, NEW j \in 1..n, NEW k \in 1..n, Tie(i, j), Tie(j, k)
                     PROVE  Tie(i, k)
            OBVIOUS
        <3>1. CASE by # "namespace"
            BY <3>1
        <3>2. CASE by = "namespace"
            <4>1. CASE Name(i) = Name(j) \/ Name(j) = Name(k)
                BY <3>2, <4>1
            <4>2. CASE Name(i) # Name(j) /\ Name(j) # Name(k)
                <5>1. Below(Name(i), Name(k))
                    BY <2>2, <3>2, <4>2
                <5>2. Name(i) # Name(k)
                    BY <2>2, <3>2, <5>1
                <5> QED BY <3>2, <5>1, <5>2
            <4> QED BY <4>1, <4>2
        <3> QED BY <3>1, <3>2
    <2>4. \A i, j \in 1..n : i # j => Tie(i, j) \/ Tie(j, i)
        BY <2>2
    <2> QED BY <2>2, <2>3, <2>4
<1> HIDE DEF Less, Tie
<1>6. \A i, j, k \in 1..n : Before(i, j) /\ Before(j, k) => Before(i, k)
    BY <1>4, <1>5
<1>7. \A i, j \in 1..n : ~ Before(i, i) /\ (i # j => Before(i, j) \/ Before(j, i))
    BY <1>4, <1>5
<1> HIDE DEF Before
<1> QED BY <1>1, <1>6, <1>7 DEF StrictOrder

(* A sorted table has every row once, in the order of the table. *)
LEMMA SortedPlaces ==
    ASSUME NEW n \in Nat, NEW rows, DOMAIN rows = 1..n, NEW columns, NEW by, NEW descending \in BOOLEAN,
           \A i \in 1..n : /\ SortKey(columns, rows[i], by) \in Seq(Int)
                           /\ by = "namespace" => SortKey(columns, rows[i], "name") \in Seq(Int)
    PROVE  \E place \in Bijection(1..n, 1..n) :
              /\ sort_dynamic(columns, rows, by, descending) = [k \in 1..n |-> rows[place[k]]]
              /\ \A k, l \in 1..n : k < l => <<place[k], place[l]>> \in RowOrder(columns, rows, by, descending)
<1> DEFINE before == RowOrder(columns, rows, by, descending)
           order == InOrder(1..n, before)
<1>1. StrictOrder(1..n, before)
    BY RowOrderIsOrder
<1>2. IsFiniteSet(1..n) /\ Cardinality(1..n) = n
    BY FS_Interval
<1>3. sort_dynamic(columns, rows, by, descending) = [k \in DOMAIN order |-> rows[order[k]]]
    BY DEF sort_dynamic
<1> HIDE DEF before
<1>4. /\ DOMAIN order = 1..n
      /\ \A k \in 1..n : order[k] \in 1..n
      /\ \A i \in 1..n : \E k \in 1..n : order[k] = i
      /\ \A k, l \in 1..n : k < l => <<order[k], order[l]>> \in before
    <2>1. LET o == InOrder(1..n, before)
          IN  /\ DOMAIN o = 1..Cardinality(1..n)
              /\ \A k \in DOMAIN o : o[k] \in 1..n
              /\ \A i \in 1..n : \E k \in DOMAIN o : o[k] = i
              /\ \A k, l \in DOMAIN o : k < l => <<o[k], o[l]>> \in before
        BY <1>1, <1>2, InOrderIsOrder
    <2> QED BY <1>2, <2>1
<1> HIDE DEF order
<1> DEFINE place == [k \in 1..n |-> order[k]]
<1>5. \A k, l \in 1..n : k # l => order[k] # order[l]
    <2> SUFFICES ASSUME NEW k \in 1..n, NEW l \in 1..n, k < l PROVE order[k] # order[l]
        OBVIOUS
    <2> QED BY <1>1, <1>4 DEF StrictOrder
<1>6. place \in Bijection(1..n, 1..n)
    <2>1. place \in [1..n -> 1..n]
        BY <1>4
    <2> QED BY <1>4, <1>5, <2>1 DEF Bijection, Injection, Surjection, IsInjective
<1>7. /\ sort_dynamic(columns, rows, by, descending) = [k \in 1..n |-> rows[place[k]]]
      /\ \A k, l \in 1..n : k < l => <<place[k], place[l]>> \in before
    BY <1>3, <1>4
<1> HIDE DEF place
<1> QED BY <1>6, <1>7 DEF before

(* Sorting a table is stable: every row is in it once, none behind one of a *)
(* greater key (before it when it descends); rows of one key stay in the    *)
(* order they came in, but those of one namespace, which go by their names  *)
(* first (sort.rs, sort_dynamic).                                           *)
THEOREM SortIsStable ==
    ASSUME NEW n \in Nat, NEW rows, DOMAIN rows = 1..n, NEW columns, NEW by, NEW descending \in BOOLEAN,
           \A i \in 1..n : /\ SortKey(columns, rows[i], by) \in Seq(Int)
                           /\ by = "namespace" => SortKey(columns, rows[i], "name") \in Seq(Int)
    PROVE  LET Key(i, field) == SortKey(columns, rows[i], field)
           IN  \E place \in Bijection(1..n, 1..n) :
                  /\ sort_dynamic(columns, rows, by, descending) = [k \in 1..n |-> rows[place[k]]]
                  /\ \A k, l \in 1..n : k < l =>
                        /\ ~ IF descending THEN Below(Key(place[k], by), Key(place[l], by))
                             ELSE Below(Key(place[l], by), Key(place[k], by))
                        /\ Key(place[k], by) = Key(place[l], by) =>
                              IF by = "namespace" /\ Key(place[k], "name") # Key(place[l], "name")
                              THEN Below(Key(place[k], "name"), Key(place[l], "name"))
                              ELSE place[k] < place[l]
<1> DEFINE Key(i, field) == SortKey(columns, rows[i], field)
<1>1. PICK place \in Bijection(1..n, 1..n) :
              /\ sort_dynamic(columns, rows, by, descending) = [k \in 1..n |-> rows[place[k]]]
              /\ \A k, l \in 1..n : k < l => <<place[k], place[l]>> \in RowOrder(columns, rows, by, descending)
    BY SortedPlaces
<1>2. ASSUME NEW i \in 1..n, NEW j \in 1..n, <<i, j>> \in RowOrder(columns, rows, by, descending)
      PROVE  /\ ~ IF descending THEN Below(Key(i, by), Key(j, by)) ELSE Below(Key(j, by), Key(i, by))
             /\ Key(i, by) = Key(j, by) =>
                   IF by = "namespace" /\ Key(i, "name") # Key(j, "name") THEN Below(Key(i, "name"), Key(j, "name"))
                   ELSE i < j
    <2>1. \/ IF descending THEN Below(Key(j, by), Key(i, by)) ELSE Below(Key(i, by), Key(j, by))
          \/ /\ Key(i, by) = Key(j, by)
             /\ IF by = "namespace" /\ Key(i, "name") # Key(j, "name") THEN Below(Key(i, "name"), Key(j, "name"))
                ELSE i < j
        BY <1>2 DEF RowOrder
    <2>2. Key(i, by) \in Seq(Int) /\ Key(j, by) \in Seq(Int)
        OBVIOUS
    <2> HIDE DEF Key
    <2>3. /\ ~ Below(Key(i, by), Key(i, by)) /\ ~ Below(Key(j, by), Key(j, by))
          /\ ~ (Below(Key(i, by), Key(j, by)) /\ Below(Key(j, by), Key(i, by)))
        BY <2>2, BelowGoesOn
    <2> QED BY <2>1, <2>3
<1>3. \A k \in 1..n : place[k] \in 1..n
    BY DEF Bijection, Injection
<1> HIDE DEF Key
<1>4. \A k, l \in 1..n : k < l =>
                        /\ ~ IF descending THEN Below(Key(place[k], by), Key(place[l], by))
                             ELSE Below(Key(place[l], by), Key(place[k], by))
                        /\ Key(place[k], by) = Key(place[l], by) =>
                              IF by = "namespace" /\ Key(place[k], "name") # Key(place[l], "name")
                              THEN Below(Key(place[k], "name"), Key(place[l], "name"))
                              ELSE place[k] < place[l]
    BY <1>1, <1>2, <1>3
<1> QED BY <1>1, <1>4 DEF Key

-----------------------------------------------------------------------------
(* The table of a read.                                                    *)

\* The rows that objects of the kind have, with the age of any of them.
RowAtAge(k, o, age) == Row(k, [o EXCEPT !.created = age])
Built == {RowAtAge(kind, o, age) : o \in Pool[kind], age \in {other.created : other \in Pool[kind]}}

\* What a read is for, and what it has parsed.
ReadKnown ==
    reader # NoRead =>
        /\ reader.params \in Params[kind]
        /\ \E n \in Nat : DOMAIN reader.items = 1..n
        /\ \A i \in DOMAIN reader.items : reader.parsed[i] = Unset \/ reader.parsed[i].o \in Pool[kind]

\* The table is that of the rows that were built for objects of the kind.
TableOfRead ==
    shown # NoRead =>
        /\ shown.params \in Params[kind]
        /\ \E n \in Nat : DOMAIN shown.read = 1..n
        /\ \A i \in DOMAIN shown.read : shown.read[i].of \in Pool[kind] /\ shown.read[i].row \in Built
        /\ shown.rows = process(kind, [i \in DOMAIN shown.read |-> shown.read[i].row], shown.params)

TableInv == ReadKnown /\ TableOfRead

(* Only the reader's own steps are about it. *)
LEMMA ReaderKeepsTable ==
    ASSUME RowInv, TableInv, [RowNext]_rowVars, ~ Get, ~ Return, \A i \in 1..Cardinality(Addresses) : ~ Parse(i)
    PROVE  TableInv'
<1>1. UNCHANGED <<kind, reader, shown>>
    <2>1. CASE UNCHANGED rowVars
        BY <2>1 DEF rowVars
    <2>2. CASE RowNext
        BY <2>2 DEF RowNext, Change, Receive, Drop, Switch
    <2> QED BY <2>1, <2>2
<1>2. ReadKnown'
    BY <1>1 DEF TableInv, ReadKnown
<1>3. Built' = Built
    BY <1>1 DEF Built
<1>4. TableOfRead'
    BY <1>1, <1>3 DEF TableInv, TableOfRead
<1> QED BY <1>2, <1>4 DEF TableInv

LEMMA GetKeepsTable ==
    ASSUME RowInv, TableInv, Get
    PROVE  TableInv'
<1>1. PICK params \in Params[kind] :
        LET items == SetToSeq({a \in arcs : Matches(memory[a].o, params)})
        IN  reader' = [params |-> params, items |-> items, parsed |-> [i \in DOMAIN items |-> Unset]]
    BY DEF Get
<1> DEFINE wanted == {a \in arcs : Matches(memory[a].o, params)}
           items == SetToSeq(wanted)
<1>2. \E n \in Nat : DOMAIN items = 1..n
    <2>1. IsFiniteSet(wanted)
        BY FS_Subset DEF RowInv, Kept
    <2> HIDE DEF wanted
    <2>2. Cardinality(wanted) \in Nat /\ DOMAIN items = 1..Cardinality(wanted)
        BY <2>1, SetToSeqHolds, FS_CardinalityType
    <2> QED BY <2>2
<1>3. reader' = [params |-> params, items |-> items, parsed |-> [i \in DOMAIN items |-> Unset]]
    BY <1>1
<1> HIDE DEF items
<1>4. ReadKnown'
    BY <1>2, <1>3 DEF Get, ReadKnown
<1>5. TableOfRead'
    <2>1. UNCHANGED <<kind, shown>>
        BY DEF Get
    <2>2. Built' = Built
        BY <2>1 DEF Built
    <2> QED BY <2>1, <2>2 DEF TableInv, TableOfRead
<1> QED BY <1>4, <1>5 DEF TableInv

LEMMA ParseKeepsTable ==
    ASSUME RowInv, TableInv, NEW i \in 1..Cardinality(Addresses), Parse(i)
    PROVE  TableInv'
<1> DEFINE a == reader.items[i]
           parsed == deserialize_cached(a)
<1>1. /\ reader # NoRead /\ i \in DOMAIN reader.items
      /\ reader' = [reader EXCEPT !.parsed[i] = parsed]
      /\ UNCHANGED <<kind, shown>>
    BY DEF Parse
<1>2. a \in DOMAIN memory
    BY <1>1 DEF RowInv, Kept, Held, ToSet
<1>3. parsed.o \in Pool[kind]
    BY <1>2, CacheIsRight DEF RowInv, Kept, Versions
<1> HIDE DEF parsed
<1>4. /\ reader'.params = reader.params /\ reader'.items = reader.items
      /\ reader'.parsed = [reader.parsed EXCEPT ![i] = parsed]
      /\ reader.parsed = [j \in DOMAIN reader.items |-> reader.parsed[j]]
    BY <1>1 DEF RowInv, Kept
<1>5. \A j \in DOMAIN reader.items : reader'.parsed[j] = IF j = i THEN parsed ELSE reader.parsed[j]
    BY <1>1, <1>4
<1>6. ReadKnown'
    BY <1>1, <1>3, <1>4, <1>5 DEF TableInv, ReadKnown
<1>7. TableOfRead'
    <2>1. Built' = Built
        BY <1>1 DEF Built
    <2> QED BY <1>1, <2>1 DEF TableInv, TableOfRead
<1> QED BY <1>6, <1>7 DEF TableInv

LEMMA ReturnKeepsTable ==
    ASSUME RowInv, TableInv, Return
    PROVE  TableInv'
<1> DEFINE Object(i) == memory[reader.items[i]].o
           built == [i \in DOMAIN reader.items |->
                        Row(kind, [reader.parsed[i].o EXCEPT !.created = Object(i).created])]
           read == [i \in DOMAIN reader.items |-> [of |-> Object(i), row |-> built[i]]]
<1>1. /\ reader # NoRead
      /\ \A i \in DOMAIN reader.items : reader.parsed[i] # Unset
      /\ shown' = [params |-> reader.params, read |-> read, rows |-> process(kind, built, reader.params)]
      /\ reader' = NoRead
      /\ UNCHANGED kind
    BY DEF Return
<1>2. ASSUME NEW i \in DOMAIN reader.items
      PROVE  Object(i) \in Pool[kind] /\ reader.parsed[i].o \in Pool[kind]
    <2>1. reader.items[i] \in DOMAIN memory
        BY <1>1 DEF RowInv, Kept, Held, ToSet
    <2>2. Object(i) \in Pool[kind]
        BY <2>1 DEF RowInv, Kept, Known, Versions
    <2> QED BY <1>1, <2>2 DEF TableInv, ReadKnown
<1>3. ASSUME NEW i \in DOMAIN read PROVE read[i].of \in Pool[kind] /\ read[i].row \in Built
    <2> DEFINE o == reader.parsed[i].o
               age == Object(i).created
    <2>1. o \in Pool[kind] /\ age \in {other.created : other \in Pool[kind]} /\ Object(i) \in Pool[kind]
        BY <1>2
    <2>2. read[i].row = RowAtAge(kind, o, age) /\ read[i].of = Object(i)
        BY DEF RowAtAge
    <2> HIDE DEF o, age
    <2>3. RowAtAge(kind, o, age) \in Built
        BY <2>1 DEF Built
    <2> QED BY <2>1, <2>2, <2>3
<1>4. [i \in DOMAIN read |-> read[i].row] = built
    OBVIOUS
<1>5. DOMAIN read = DOMAIN reader.items
    OBVIOUS
<1> HIDE DEF built, read
<1>6. shown'.params = reader.params /\ shown'.read = read /\ shown'.rows = process(kind, built, reader.params)
    BY <1>1
<1>7. Built' = Built
    BY <1>1 DEF Built
<1>8. TableOfRead'
    BY <1>1, <1>3, <1>4, <1>5, <1>6, <1>7 DEF TableOfRead, TableInv, ReadKnown
<1>9. ReadKnown'
    BY <1>1 DEF ReadKnown
<1> QED BY <1>8, <1>9 DEF TableInv

(* The table is always that of the rows that were read. *)
LEMMA TableInvHolds ==
    /\ RowInit => RowInv /\ TableInv
    /\ RowInv /\ TableInv /\ [RowNext]_rowVars => RowInv' /\ TableInv'
<1>1. RowInit => RowInv
    BY RowInvHolds
<1>2. RowInit => TableInv
    BY DEF RowInit, TableInv, ReadKnown, TableOfRead
<1>3. ASSUME RowInv, TableInv, [RowNext]_rowVars PROVE RowInv'
    BY <1>3, RowInvHolds
<1>4. ASSUME RowInv, TableInv, [RowNext]_rowVars PROVE TableInv'
    BY <1>4, ReaderKeepsTable, GetKeepsTable, ParseKeepsTable, ReturnKeepsTable
<1> QED BY <1>1, <1>2, <1>3, <1>4

(* What a kind is sorted by as padded numbers does not hang on its rows; no *)
(* such column is sorted as text too, nor is it that of the namespaces.     *)
LEMMA PaddedColumns ==
    ASSUME NEW k, NEW rows, NEW f \in ColumnsOf(k, rows).padded
    PROVE  /\ \A r : f \in ColumnsOf(k, r).padded
           /\ f \notin ColumnsOf(k, rows).text \cup ColumnsOf(k, rows).plain
           /\ f \notin {"", "namespace"}
<1>1. \A r : /\ k = "Pod" => ColumnsOf(k, r) = PodColumns
             /\ k = "Deployment" => ColumnsOf(k, r) = DeploymentColumns
             /\ k = "StatefulSet" => ColumnsOf(k, r) = StatefulSetColumns
             /\ k = "DaemonSet" => ColumnsOf(k, r) = DaemonSetColumns
             /\ k = "Event" => ColumnsOf(k, r) = EventColumns
             /\ k = "ConfigMap" => ColumnsOf(k, r) = ConfigMapColumns
    BY DEF ColumnsOf
<1>2. k \in {"Pod", "Deployment", "StatefulSet", "DaemonSet", "Event", "ConfigMap"}
    <2>1. k \notin {"Pod", "Deployment", "StatefulSet", "DaemonSet", "Event", "ConfigMap"} =>
            ColumnsOf(k, rows).padded = {}
        BY DEF ColumnsOf, Columns, ContainerColumns, ReplicaSetColumns, JobColumns, CronJobColumns, NodeColumns,
               NamespaceColumns, PersistentVolumeColumns, PersistentVolumeClaimColumns, ServiceColumns, IngressColumns,
               HorizontalPodAutoscalerColumns, ClusterRoleColumns, ClusterRoleBindingColumns,
               CustomResourceDefinitionColumns, SecretColumns, ServiceAccountColumns, StorageClassColumns,
               FallbackColumns, DefaultColumns
    <2> QED BY <2>1
<1> DEFINE Apart(c) == \A g \in c.padded : g \notin c.text \cup c.plain /\ g \notin {"", "namespace"}
<1>3. Apart(PodColumns)
    BY DEF PodColumns, Columns
<1>4. Apart(DeploymentColumns)
    BY DEF DeploymentColumns, Columns
<1>5. Apart(StatefulSetColumns)
    BY DEF StatefulSetColumns, Columns
<1>6. Apart(DaemonSetColumns)
    BY DEF DaemonSetColumns, Columns
<1>7. Apart(EventColumns)
    BY DEF EventColumns, Columns
<1>8. Apart(ConfigMapColumns)
    BY DEF ConfigMapColumns, Columns
<1> HIDE DEF Apart
<1>9. Apart(ColumnsOf(k, rows)) /\ \A r : ColumnsOf(k, rows) = ColumnsOf(k, r)
    BY <1>1, <1>2, <1>3, <1>4, <1>5, <1>6, <1>7, <1>8
<1> QED BY <1>9 DEF Apart

\* What a usize can be, and what a field has to be sorted by.
Usize == {n \in Nat : Len(Digits(n)) <= 20}
KeyOf(n) == IF n = Unset THEN <<>> ELSE pad_key(n)
NumberOf(n) == IF n = Unset THEN -1 ELSE n

(* The keys of fields are as their numbers, those of fields without one     *)
(* below all others.                                                        *)
LEMMA KeysAsNumbers ==
    ASSUME NEW x \in Usize \cup {Unset}, NEW y \in Usize \cup {Unset}
    PROVE  /\ KeyOf(x) \in Seq(Int) /\ NumberOf(x) \in Int
           /\ Below(KeyOf(x), KeyOf(y)) <=> NumberOf(x) < NumberOf(y)
           /\ KeyOf(x) = KeyOf(y) <=> NumberOf(x) = NumberOf(y)
<1>1. Unset \notin Nat /\ Unset \notin Usize
    BY TableAssumption DEF Usize
<1>2. ASSUME NEW z \in Usize \cup {Unset}
      PROVE  /\ KeyOf(z) \in Seq(Int) /\ NumberOf(z) \in Int
             /\ z # Unset => z \in Nat /\ Len(KeyOf(z)) = 20
    <2>1. CASE z = Unset
        BY <2>1 DEF KeyOf, NumberOf
    <2>2. CASE z # Unset
        <3>1. z \in Nat /\ Len(Digits(z)) <= 20 /\ 20 \in Nat
            BY <2>2 DEF Usize
        <3>2. Padded(z, 20) \in Seq(0..9) /\ Len(Padded(z, 20)) = 20
            BY <3>1, PaddedAt
        <3>3. KeyOf(z) = Padded(z, 20) /\ NumberOf(z) = z
            BY <2>2 DEF KeyOf, NumberOf, pad_key, Padded
        <3>4. \A s \in Seq(0..9) : s \in Seq(Int)
            OBVIOUS
        <3> QED BY <3>1, <3>2, <3>3, <3>4
    <2> QED BY <2>1, <2>2
<1>3. ASSUME NEW z \in Usize \cup {Unset}, NEW w \in Usize \cup {Unset}
      PROVE  Below(KeyOf(z), KeyOf(w)) <=> NumberOf(z) < NumberOf(w)
    <2>1. CASE w = Unset
        <3>1. KeyOf(w) = <<>> /\ NumberOf(w) = -1
            BY <2>1 DEF KeyOf, NumberOf
        <3>2. ~ Below(KeyOf(z), <<>>)
            BY DEF Below
        <3>3. NumberOf(z) \in Nat \cup {-1}
            BY <1>2 DEF NumberOf
        <3> QED BY <3>1, <3>2, <3>3
    <2>2. CASE z = Unset /\ w # Unset
        <3>1. KeyOf(z) = <<>> /\ NumberOf(z) = -1
            BY <2>2 DEF KeyOf, NumberOf
        <3>2. KeyOf(z) \in Seq(Int) /\ Len(KeyOf(z)) = 0 /\ KeyOf(w) \in Seq(Int) /\ Len(KeyOf(w)) = 20
            BY <1>2, <2>2, <3>1
        <3>3. Below(KeyOf(z), KeyOf(w))
            <4>1. 0 \in 0..Len(KeyOf(z)) /\ 0 < Len(KeyOf(w)) /\ 0 = Len(KeyOf(z))
                BY <3>2
            <4>2. \A j \in 1..0 : KeyOf(z)[j] = KeyOf(w)[j]
                OBVIOUS
            <4> HIDE DEF KeyOf
            <4>3. \E n \in 0..Len(KeyOf(z)) : /\ n < Len(KeyOf(w))
                                              /\ \A j \in 1..n : KeyOf(z)[j] = KeyOf(w)[j]
                                              /\ n = Len(KeyOf(z)) \/ KeyOf(z)[n + 1] < KeyOf(w)[n + 1]
                BY <4>1, <4>2
            <4> QED BY <3>2, <4>3, BelowAt
        <3>4. NumberOf(w) >= 0
            BY <1>2, <2>2 DEF NumberOf
        <3> QED BY <1>2, <3>1, <3>3, <3>4
    <2>3. CASE z # Unset /\ w # Unset
        <3>1. z \in Nat /\ w \in Nat /\ Len(Digits(z)) <= 20 /\ Len(Digits(w)) <= 20
            BY <2>3 DEF Usize
        <3> QED BY <2>3, <3>1, PaddedKeysInOrder DEF KeyOf, NumberOf
    <2> QED BY <2>1, <2>2, <2>3
<1>4. KeyOf(x) = KeyOf(y) <=> NumberOf(x) = NumberOf(y)
    <2>1. ~ Below(KeyOf(x), KeyOf(x)) /\ ~ Below(KeyOf(y), KeyOf(y))
        BY <1>2, BelowGoesOn
    <2>2. CASE NumberOf(x) < NumberOf(y) \/ NumberOf(y) < NumberOf(x)
        BY <1>2, <1>3, <2>1, <2>2
    <2>3. CASE NumberOf(x) = NumberOf(y)
        <3>1. x = y
            BY <1>1, <2>3 DEF NumberOf, Usize
        <3> QED BY <2>3, <3>1
    <2> QED BY <1>2, <2>2, <2>3
<1> QED BY <1>2, <1>3, <1>4

(* Such are the keys of the rows of a table sorted by padded numbers.       *)
LEMMA KeysOfRows ==
    ASSUME kind \in DOMAIN Pool, NEW rows, NEW f \in ColumnsOf(kind, rows).padded, NEW row \in Built
    PROVE  /\ row[f].sort_by \in Usize \cup {Unset}
           /\ SortKey(ColumnsOf(kind, rows), row, f) = KeyOf(row[f].sort_by)
<1> DEFINE columns == ColumnsOf(kind, rows)
           n == row[f].sort_by
<1>1. f \in ColumnsOf(kind, <<>>).padded /\ f \notin columns.text \cup columns.plain
    BY PaddedColumns
<1>2. PICK o \in Pool[kind], age \in {other.created : other \in Pool[kind]} : row = RowAtAge(kind, o, age)
    BY DEF Built
<1>3. n # Unset => n \in Nat /\ Len(Digits(n)) <= 20
    BY <1>1, <1>2, TableAssumption DEF RowAtAge
<1> HIDE DEF columns
<1>4. f \in columns.padded
    BY DEF columns
<1>5. SortKey(columns, row, f) = IF n # Unset THEN pad_key(n) ELSE <<>>
    <2>1. f \notin columns.text \cap DOMAIN row /\ f \notin columns.plain
        BY <1>1
    <2>2. CASE n # Unset
        BY <1>4, <2>1, <2>2 DEF SortKey
    <2>3. CASE n = Unset
        BY <1>4, <2>1, <2>3 DEF SortKey
    <2> QED BY <2>2, <2>3
<1>6. n \in Usize \cup {Unset}
    BY <1>3 DEF Usize
<1> QED BY <1>5, <1>6 DEF KeyOf, columns

\* A table before it is filtered.
Sorted(k, rows, params) ==
    sort_dynamic(ColumnsOf(k, rows), rows, IF params.sort_by = "" THEN "namespace" ELSE params.sort_by,
                 params.sort_order = "desc")

(* A table is filtered after it was sorted, and sorting does not look at    *)
(* the patterns.                                                            *)
LEMMA SortedThenFiltered ==
    ASSUME NEW k, NEW rows, NEW p,
           p = [sort_by |-> p.sort_by, sort_order |-> p.sort_order, filter |-> p.filter,
                filter_label |-> p.filter_label, filter_key |-> p.filter_key]
    PROVE  /\ process(k, rows, p) = filter_dynamic(ColumnsOf(k, rows), Sorted(k, rows, p), p.filter)
           /\ \A patterns : process(k, rows, [p EXCEPT !.filter = patterns]) =
                    filter_dynamic(ColumnsOf(k, rows), Sorted(k, rows, p), patterns)
<1>1. process(k, rows, p) = filter_dynamic(ColumnsOf(k, rows), Sorted(k, rows, p), p.filter)
    BY DEF process, Sorted
<1>2. ASSUME NEW patterns
      PROVE  process(k, rows, [p EXCEPT !.filter = patterns]) =
                filter_dynamic(ColumnsOf(k, rows), Sorted(k, rows, p), patterns)
    <2> DEFINE q == [p EXCEPT !.filter = patterns]
    <2>1. q.sort_by = p.sort_by /\ q.sort_order = p.sort_order /\ q.filter = patterns
        OBVIOUS
    <2> HIDE DEF q
    <2>2. process(k, rows, q) = filter_dynamic(ColumnsOf(k, rows), Sorted(k, rows, p), patterns)
        BY <2>1 DEF process, Sorted
    <2> QED BY <2>2 DEF q
<1> QED BY <1>1, <1>2

(* It has as many rows as were read. *)
LEMMA SortedIsSequence ==
    ASSUME NEW n \in Nat, NEW k, NEW rows, DOMAIN rows = 1..n, NEW p
    PROVE  Sorted(k, rows, p) = [i \in 1..n |-> Sorted(k, rows, p)[i]]
<1> DEFINE by == IF p.sort_by = "" THEN "namespace" ELSE p.sort_by
           order == InOrder(1..n, RowOrder(ColumnsOf(k, rows), rows, by, p.sort_order = "desc"))
<1>1. DOMAIN order = 1..n
    BY FS_Interval DEF InOrder
<1>2. Sorted(k, rows, p) = [i \in DOMAIN order |-> rows[order[i]]]
    BY DEF Sorted, sort_dynamic
<1> HIDE DEF order
<1> QED BY <1>1, <1>2

(* What some places have and what the others have make up a table, if equal *)
(* rows are at places of one kind.                                          *)
LEMMA SelectedShare ==
    ASSUME NEW n \in Nat, NEW s, s = [i \in 1..n |-> s[i]], NEW places \in SUBSET (1..n),
           \A i, j \in 1..n : s[i] = s[j] => (i \in places <=> j \in places)
    PROVE  /\ ToSet(Selected(s, places)) \cap ToSet(Selected(s, (1..n) \ places)) = {}
           /\ Len(Selected(s, places)) + Len(Selected(s, (1..n) \ places)) = n
           /\ \A i \in 1..n : s[i] \in ToSet(Selected(s, places)) <=> i \in places
<1>1. ASSUME NEW P \in SUBSET (1..n)
      PROVE  /\ Len(Selected(s, P)) = Cardinality(P)
             /\ ToSet(Selected(s, P)) = {s[i] : i \in P}
    <2> DEFINE order == InOrder(P, {p \in P \X P : p[1] < p[2]})
               t == Selected(s, P)
    <2>1. /\ IsFiniteSet(P) /\ DOMAIN order = 1..Cardinality(P)
          /\ \A k \in DOMAIN order : order[k] \in P
          /\ \A i \in P : \E k \in DOMAIN order : order[k] = i
        BY SelectedPlaces
    <2>2. t = [k \in DOMAIN order |-> s[order[k]]]
        BY DEF Selected
    <2> HIDE DEF order, t
    <2>3. Cardinality(P) \in Nat
        BY <2>1, FS_CardinalityType
    <2>4. t \in Seq({s[i] : i \in P}) /\ Len(t) = Cardinality(P)
        <3> DEFINE T == {s[i] : i \in P}
        <3>1. \A k \in DOMAIN order : s[order[k]] \in T
            BY <2>1
        <3> HIDE DEF T
        <3>2. t \in [1..Cardinality(P) -> T]
            BY <2>1, <2>2, <3>1
        <3> QED BY <2>3, <3>2 DEF T
    <2>5. ToSet(t) = {s[i] : i \in P}
        <3>1. ToSet(t) = {t[k] : k \in DOMAIN order}
            BY <2>2 DEF ToSet
        <3>2. \A k \in DOMAIN order : t[k] = s[order[k]]
            BY <2>2
        <3>3. \A x : x \in ToSet(t) <=> \E k \in DOMAIN order : x = t[k]
            BY <3>1
        <3>4. ASSUME NEW x \in ToSet(t) PROVE \E i \in P : x = s[i]
            <4>1. PICK k \in DOMAIN order : x = t[k]
                BY <3>3
            <4> QED BY <2>1, <3>2, <4>1
        <3>5. ASSUME NEW i \in P PROVE s[i] \in ToSet(t)
            <4>1. PICK k \in DOMAIN order : order[k] = i
                BY <2>1
            <4>2. s[i] = t[k]
                BY <3>2, <4>1
            <4> QED BY <3>3, <4>2
        <3> QED BY <3>4, <3>5
    <2> QED BY <2>4, <2>5 DEF t
<1>2. Cardinality(places) + Cardinality((1..n) \ places) = n
    <2>1. IsFiniteSet(1..n) /\ Cardinality(1..n) = n
        BY FS_Interval
    <2>2. (1..n) \cap places = places /\ IsFiniteSet(places)
        BY <2>1, FS_Subset
    <2>3. Cardinality((1..n) \ places) = Cardinality(1..n) - Cardinality((1..n) \cap places)
        BY <2>1, FS_Difference
    <2>4. Cardinality(places) \in Nat
        BY <2>2, FS_CardinalityType
    <2>5. Cardinality((1..n) \ places) = n - Cardinality(places)
        BY <2>1, <2>2, <2>3
    <2> QED BY <2>4, <2>5
<1>3. (1..n) \ places \in SUBSET (1..n)
    OBVIOUS
<1> QED BY <1>1, <1>2, <1>3

\* A table of n rows; the places of those of them that another has.
IsTable(s, n) == s = [i \in 1..n |-> s[i]]
PlacesIn(s, n, kept) == {i \in 1..n : s[i] \in ToSet(kept)}

\* A pattern against another; what is left of a table with a pattern.
Negates(other, pattern) ==
    /\ other.text = pattern.text
    /\ {other.negative, pattern.negative} \subseteq BOOLEAN /\ other.negative # pattern.negative
HasOnly(table, columns, s, pattern) == table = filter_dynamic(columns, s, {pattern})

(* Without patterns a table is left as it is. *)
LEMMA UnfilteredTable ==
    ASSUME NEW n \in Nat, NEW s, IsTable(s, n), NEW columns
    PROVE  filter_dynamic(columns, s, {}) = s
<1>1. s = [i \in 1..n |-> s[i]]
    BY DEF IsTable
<1>2. {i \in DOMAIN s : \A q \in {} : Found(columns, s[i], q) # q.negative} = DOMAIN s
    OBVIOUS
<1>3. filter_dynamic(columns, s, {}) = Selected(s, DOMAIN s)
    BY <1>2 DEF filter_dynamic
<1> QED BY <1>1, <1>3, SelectedAll

(* A pattern and its negation share the rows of a table between them.       *)
LEMMA PatternShares ==
    ASSUME NEW n \in Nat, NEW s, IsTable(s, n), NEW columns,
           NEW pattern, NEW other, Negates(other, pattern),
           NEW kept, NEW left, HasOnly(kept, columns, s, pattern), HasOnly(left, columns, s, other)
    PROVE  /\ \A row \in ToSet(kept) : row \notin ToSet(left)
           /\ Len(kept) + Len(left) = n
           /\ kept = Selected(s, PlacesIn(s, n, kept))
<1> DEFINE has(i) == Found(columns, s[i], pattern)
           places == {i \in 1..n : has(i) # pattern.negative}
<1>0. kept = filter_dynamic(columns, s, {pattern}) /\ left = filter_dynamic(columns, s, {other})
    BY DEF HasOnly
<1>1. /\ other.text = pattern.text /\ other.negative \in BOOLEAN /\ pattern.negative \in BOOLEAN
      /\ other.negative # pattern.negative
    BY DEF Negates
<1>2. \A i \in 1..n : Found(columns, s[i], other) = has(i)
    BY <1>1 DEF Found
<1>3. \A i \in 1..n : has(i) \in BOOLEAN
    BY DEF Found
<1>4. DOMAIN s = 1..n /\ s = [i \in 1..n |-> s[i]]
    BY DEF IsTable
<1>5. filter_dynamic(columns, s, {pattern}) = Selected(s, places)
    BY <1>4 DEF filter_dynamic
<1> HIDE DEF has
<1>6. {i \in DOMAIN s : \A q \in {other} : Found(columns, s[i], q) # q.negative} = (1..n) \ places
    BY <1>1, <1>2, <1>3, <1>4
<1>7. filter_dynamic(columns, s, {other}) = Selected(s, (1..n) \ places)
    BY <1>6 DEF filter_dynamic
<1>8. \A i, j \in 1..n : s[i] = s[j] => (i \in places <=> j \in places)
    BY DEF has
<1> HIDE DEF places
<1>9. places \in SUBSET (1..n)
    BY DEF places
<1>10. /\ ToSet(Selected(s, places)) \cap ToSet(Selected(s, (1..n) \ places)) = {}
       /\ Len(Selected(s, places)) + Len(Selected(s, (1..n) \ places)) = n
       /\ \A i \in 1..n : s[i] \in ToSet(Selected(s, places)) <=> i \in places
    BY <1>4, <1>8, <1>9, SelectedShare
<1>11. {i \in 1..n : s[i] \in ToSet(Selected(s, places))} = places
    BY <1>9, <1>10
<1>12. PlacesIn(s, n, kept) = places
    BY <1>0, <1>5, <1>11 DEF PlacesIn
<1> QED BY <1>0, <1>5, <1>7, <1>10, <1>12

(* A table sorted by padded numbers has them in their order.                *)
LEMMA PaddedTableSorted ==
    ASSUME kind \in DOMAIN Pool, NEW n \in Nat, NEW rows, DOMAIN rows = 1..n, \A i \in 1..n : rows[i] \in Built,
           NEW p, p.sort_by \in ColumnsOf(kind, rows).padded, NEW patterns
    PROVE  LET table == filter_dynamic(ColumnsOf(kind, rows), Sorted(kind, rows, p), patterns)
               Number(i) == NumberOf(table[i][p.sort_by].sort_by)
           IN  \A i, j \in DOMAIN table : i < j =>
                  IF p.sort_order = "desc" THEN Number(i) >= Number(j) ELSE Number(i) <= Number(j)
<1> DEFINE columns == ColumnsOf(kind, rows)
           by == p.sort_by
           descending == p.sort_order = "desc"
           before == RowOrder(columns, rows, by, descending)
           s == Sorted(kind, rows, p)
           table == filter_dynamic(columns, s, patterns)
           Key(i) == SortKey(columns, rows[i], by)
           N(i) == NumberOf(rows[i][by].sort_by)
<1>1. by \notin {"", "namespace"}
    BY PaddedColumns
<1>2. \A i \in 1..n : rows[i][by].sort_by \in Usize \cup {Unset} /\ Key(i) = KeyOf(rows[i][by].sort_by)
    BY KeysOfRows
<1>3. \A i, j \in 1..n : /\ Key(i) \in Seq(Int) /\ N(i) \in Int
                         /\ Below(Key(i), Key(j)) <=> N(i) < N(j)
                         /\ Key(i) = Key(j) <=> N(i) = N(j)
    BY <1>2, KeysAsNumbers
<1>4. s = sort_dynamic(columns, rows, by, descending)
    BY <1>1 DEF Sorted
<1>5. PICK place \in Bijection(1..n, 1..n) :
          /\ s = [k \in 1..n |-> rows[place[k]]]
          /\ \A k, l \in 1..n : k < l => <<place[k], place[l]>> \in before
    <2>1. \A i \in 1..n : SortKey(columns, rows[i], by) \in Seq(Int) /\ by # "namespace"
        BY <1>1, <1>3
    <2>2. descending \in BOOLEAN
        OBVIOUS
    <2> HIDE DEF columns, by, descending, s
    <2>3. \E place \in Bijection(1..n, 1..n) :
              /\ sort_dynamic(columns, rows, by, descending) = [k \in 1..n |-> rows[place[k]]]
              /\ \A k, l \in 1..n : k < l => <<place[k], place[l]>> \in RowOrder(columns, rows, by, descending)
        BY <2>1, <2>2, SortedPlaces
    <2> QED BY <1>4, <2>3
<1>6. \A i, j \in 1..n : <<i, j>> \in before => IF descending THEN N(i) >= N(j) ELSE N(i) <= N(j)
    <2> SUFFICES ASSUME NEW i \in 1..n, NEW j \in 1..n, <<i, j>> \in before
                 PROVE  IF descending THEN N(i) >= N(j) ELSE N(i) <= N(j)
        OBVIOUS
    <2>1. \/ IF descending THEN Below(Key(j), Key(i)) ELSE Below(Key(i), Key(j))
          \/ Key(i) = Key(j)
        BY DEF RowOrder
    <2> HIDE DEF Key, N
    <2> QED BY <1>3, <2>1
<1>7. \A k \in 1..n : place[k] \in 1..n
    BY DEF Bijection, Injection
<1> DEFINE places == {i \in DOMAIN s : \A pattern \in patterns : Found(columns, s[i], pattern) # pattern.negative}
           order == InOrder(places, {q \in places \X places : q[1] < q[2]})
<1>8. table = [k \in DOMAIN order |-> s[order[k]]]
    BY DEF filter_dynamic, Selected
<1>9. places \in SUBSET (1..n)
    BY <1>5
<1> HIDE DEF s, places, before, N, columns
<1>10. /\ \A k \in DOMAIN order : order[k] \in 1..n
       /\ \A k, l \in DOMAIN order : k < l => order[k] < order[l]
    BY <1>9, SelectedPlaces
<1> HIDE DEF order, table
<1>11. \A i \in DOMAIN table : table[i] = rows[place[order[i]]] /\ place[order[i]] \in 1..n /\ order[i] \in 1..n
    BY <1>5, <1>7, <1>8, <1>10
<1>12. \A i \in DOMAIN table : NumberOf(table[i][by].sort_by) = N(place[order[i]])
    BY <1>11 DEF N
<1>13. \A i, j \in DOMAIN table : i < j => IF descending THEN N(place[order[i]]) >= N(place[order[j]])
                                           ELSE N(place[order[i]]) <= N(place[order[j]])
    <2>1. \A i, j \in DOMAIN table : i < j => order[i] < order[j]
        BY <1>8, <1>10
    <2> QED BY <1>5, <1>6, <1>11, <2>1
<1> QED BY <1>12, <1>13 DEF table, s, columns

(* A table sorted by a column of padded numbers is in the order of the      *)
(* numbers, whatever their lengths and with what has none below all others; *)
(* and a pattern and its negation share the rows between them without       *)
(* changing their order: for any objects whose numbers are usizes, any      *)
(* patterns and any table (sort.rs, filter.rs, utils.rs).                   *)
THEOREM TablesAreInOrder == RowSpec => []TableInOrder
<1>1. ASSUME RowInv, TableInv PROVE TableInOrder
    <2> SUFFICES ASSUME shown # NoRead PROVE TableInOrder
        BY DEF TableInOrder
    <2> DEFINE p == shown.params
               rows == [i \in DOMAIN shown.read |-> shown.read[i].row]
               s == Sorted(kind, rows, p)
               columns == ColumnsOf(kind, rows)
               With(patterns) == process(kind, rows, [p EXCEPT !.filter = patterns])
               Number(row) == IF row[p.sort_by].sort_by = Unset THEN -1 ELSE row[p.sort_by].sort_by
    <2>1. PICK n \in Nat : DOMAIN shown.read = 1..n
        BY <1>1 DEF TableInv, TableOfRead
    <2>2. kind \in DOMAIN Pool /\ p \in Params[kind] /\ kind \in DOMAIN Params
        BY <1>1, RowReadsAssumption DEF RowInv, Kept, TableInv, TableOfRead
    <2>3. /\ p = [sort_by |-> p.sort_by, sort_order |-> p.sort_order, filter |-> p.filter,
                  filter_label |-> p.filter_label, filter_key |-> p.filter_key]
          /\ \A pattern \in p.filter :
                pattern = [negative |-> pattern.negative, text |-> pattern.text] /\ pattern.negative \in BOOLEAN
        BY <2>2, TableAssumption
    <2>4. DOMAIN rows = 1..n /\ \A i \in 1..n : rows[i] \in Built
        BY <1>1, <2>1 DEF TableInv, TableOfRead
    <2>5. shown.rows = filter_dynamic(columns, s, p.filter)
        <3>1. shown.rows = process(kind, rows, p)
            BY <1>1 DEF TableInv, TableOfRead
        <3> HIDE DEF rows, p
        <3> QED BY <2>3, <3>1, SortedThenFiltered
    <2>6. \A patterns : With(patterns) = filter_dynamic(columns, s, patterns)
        <3> HIDE DEF rows, p
        <3> QED BY <2>3, SortedThenFiltered
    <2>7. s = [i \in 1..n |-> s[i]]
        <3> HIDE DEF rows, p
        <3> QED BY <2>4, SortedIsSequence
    <2> HIDE DEF rows, p, s, columns, With, Number
    <2>8. ASSUME p.sort_by \in ColumnsOf(kind, shown.rows).padded
          PROVE  \A i, j \in DOMAIN shown.rows : i < j =>
                    IF p.sort_order = "desc" THEN Number(shown.rows[i]) >= Number(shown.rows[j])
                    ELSE Number(shown.rows[i]) <= Number(shown.rows[j])
        <3>1. p.sort_by \in columns.padded
            BY <2>8, PaddedColumns DEF columns
        <3>2. \A row : Number(row) = NumberOf(row[p.sort_by].sort_by)
            BY DEF Number, NumberOf
        <3>3. \A i, j \in DOMAIN shown.rows : i < j =>
                IF p.sort_order = "desc"
                THEN NumberOf(shown.rows[i][p.sort_by].sort_by) >= NumberOf(shown.rows[j][p.sort_by].sort_by)
                ELSE NumberOf(shown.rows[i][p.sort_by].sort_by) <= NumberOf(shown.rows[j][p.sort_by].sort_by)
            BY <2>2, <2>4, <2>5, <3>1, PaddedTableSorted DEF columns, s
        <3> QED BY <3>2, <3>3
    <2>9. ASSUME NEW pattern \in p.filter
          PROVE  LET kept == With({pattern})
                     left == With({[pattern EXCEPT !.negative = ~ pattern.negative]})
                 IN  /\ ToSet(kept) \cap ToSet(left) = {}
                     /\ Len(kept) + Len(left) = Len(With({}))
                     /\ kept = Selected(With({}), {i \in DOMAIN With({}) : With({})[i] \in ToSet(kept)})
        <3>1. pattern = [negative |-> pattern.negative, text |-> pattern.text] /\ pattern.negative \in BOOLEAN
            BY <2>3
        <3> DEFINE other == [pattern EXCEPT !.negative = ~ pattern.negative]
                   kept == filter_dynamic(columns, s, {pattern})
                   left == filter_dynamic(columns, s, {other})
        <3>2. other.text = pattern.text /\ other.negative \in BOOLEAN /\ other.negative # pattern.negative
            BY <3>1
        <3> HIDE DEF other, kept, left
        <3>4. /\ filter_dynamic(columns, s, {}) = s
              /\ ToSet(kept) \cap ToSet(left) = {}
              /\ Len(kept) + Len(left) = n
              /\ kept = Selected(s, PlacesIn(s, n, kept))
            <4>1. IsTable(s, n)
                BY <2>7 DEF IsTable
            <4>2. HasOnly(kept, columns, s, pattern) /\ HasOnly(left, columns, s, other)
                BY DEF HasOnly, kept, left
            <4>3. Negates(other, pattern)
                BY <3>1, <3>2 DEF Negates
            <4>4. filter_dynamic(columns, s, {}) = s
                BY <4>1, UnfilteredTable
            <4>5. /\ \A row \in ToSet(kept) : row \notin ToSet(left)
                  /\ Len(kept) + Len(left) = n
                  /\ kept = Selected(s, PlacesIn(s, n, kept))
                BY <4>1, <4>2, <4>3, PatternShares
            <4> QED BY <4>4, <4>5
        <3>3. DOMAIN s = 1..n /\ Len(s) = n
            BY <2>7
        <3>5. With({pattern}) = kept /\ With({other}) = left /\ With({}) = s
            BY <2>6, <3>4 DEF kept, left
        <3> QED BY <3>3, <3>4, <3>5 DEF other, PlacesIn
    <2> QED BY <2>8, <2>9 DEF TableInOrder, With, Number, rows, p
<1> QED BY <1>1, TableInvHolds, PTL DEF RowSpec

-----------------------------------------------------------------------------
(* The status of a pod.                                                    *)

(* The members of a sequence are at its indices.                            *)
LEMMA MemberOfSeq ==
    ASSUME NEW T, NEW s \in Seq(T), NEW i \in DOMAIN s
    PROVE  i \in Int /\ s[i] \in T
OBVIOUS

(* A word is one character, and no two words are the same one.             *)
LEMMA WordIsCharacter ==
    ASSUME NEW w \in ToSet(Words)
    PROVE  /\ w # "" /\ Spelled(w) \in Seq(Int) /\ Len(Spelled(w)) = 1
           /\ \A v \in ToSet(Words) : Spelled(v) = Spelled(w) => v = w
<1> DEFINE place(v) == CHOOSE i \in DOMAIN Words : Words[i] = v
<1>1. ASSUME NEW v \in ToSet(Words)
      PROVE  v # "" /\ place(v) \in DOMAIN Words /\ Words[place(v)] = v /\ place(v) \in Int /\ Spelled(v) = <<17 + place(v)>>
    <2>1. Words \in Seq(ToSet(Words) \ {""})
        BY PodAssumption
    <2>2. \E i \in DOMAIN Words : Words[i] = v
        BY DEF ToSet
    <2>3. place(v) \in DOMAIN Words /\ Words[place(v)] = v
        BY <2>2
    <2> HIDE DEF place
    <2>4. v # "" /\ place(v) \in Int
        <3> DEFINE T == ToSet(Words) \ {""}
        <3>1. Words \in Seq(T)
            BY <2>1
        <3>2. "" \notin T
            OBVIOUS
        <3> HIDE DEF T
        <3>3. place(v) \in Int /\ Words[place(v)] \in T
            BY <2>3, <3>1, MemberOfSeq
        <3> QED BY <2>3, <3>2, <3>3
    <2> QED BY <2>3, <2>4 DEF Spelled, place
<1> HIDE DEF place
<1>2. ASSUME NEW v \in ToSet(Words), Spelled(v) = Spelled(w) PROVE v = w
    <2>1. /\ place(v) \in Int /\ Words[place(v)] = v /\ Spelled(v) = <<17 + place(v)>>
          /\ place(w) \in Int /\ Words[place(w)] = w /\ Spelled(w) = <<17 + place(w)>>
        BY <1>1
    <2>2. \A a, b \in Int : <<17 + a>> = <<17 + b>> => a = b
        OBVIOUS
    <2> QED BY <1>2, <2>1, <2>2
<1>3. Spelled(w) \in Seq(Int) /\ Len(Spelled(w)) = 1
    <2>1. place(w) \in Int /\ Spelled(w) = <<17 + place(w)>>
        BY <1>1
    <2>2. \A a \in Int : <<17 + a>> \in Seq(Int) /\ Len(<<17 + a>>) = 1
        OBVIOUS
    <2> QED BY <2>1, <2>2
<1> QED BY <1>1, <1>2, <1>3

AmongWords(list, text) == \E i \in DOMAIN Words : Words[i] \in list /\ Spelled(Words[i]) = text

\* What a text that is in one list or in none has for its colour.
ColouredByList(text) ==
    LET error == AmongWords(ErrorStatuses, text)
        warning == AmongWords(WarningStatuses, text)
        success == AmongWords(SuccessStatuses, text)
    IN  /\ error /\ ~ warning /\ ~ success => color_status(text) = "error"
        /\ ~ error /\ warning /\ ~ success => color_status(text) = "warning"
        /\ ~ error /\ ~ warning /\ success => color_status(text) = "success"
        /\ ~ error /\ ~ warning /\ ~ success => color_status(text) = ""

LEMMA ColourOfList ==
    \A text : ColouredByList(text)
BY DEF color_status, AmongWords, ColouredByList

(* The colour of a word is that of the list it is in; nothing, and what is  *)
(* longer than a word, has none.                                            *)
LEMMA ColourOfWord ==
    /\ \A w \in ToSet(Words) : /\ color_status(Spelled(w)) = "success" <=> w \in SuccessStatuses
                               /\ color_status(Spelled(w)) = "error" <=> w \in ErrorStatuses
    /\ \A text : Len(text) # 1 => color_status(text) = ""
<1>1. ASSUME NEW list, NEW w \in ToSet(Words) PROVE AmongWords(list, Spelled(w)) <=> w \in list
    <2>1. \A i \in DOMAIN Words : Words[i] \in ToSet(Words)
        BY DEF ToSet
    <2>2. \E i \in DOMAIN Words : Words[i] = w
        BY DEF ToSet
    <2> QED BY <2>1, <2>2, WordIsCharacter DEF AmongWords
<1>2. ASSUME NEW list, NEW text, Len(text) # 1 PROVE ~ AmongWords(list, text)
    <2>1. \A i \in DOMAIN Words : Words[i] \in ToSet(Words)
        BY DEF ToSet
    <2> QED BY <1>2, <2>1, WordIsCharacter DEF AmongWords
<1>3. \A v : /\ v \in ErrorStatuses => v \notin WarningStatuses /\ v \notin SuccessStatuses
             /\ v \in WarningStatuses => v \notin SuccessStatuses
    BY DEF ErrorStatuses, WarningStatuses, SuccessStatuses
<1>4. ASSUME NEW w \in ToSet(Words)
      PROVE  /\ color_status(Spelled(w)) = "success" <=> w \in SuccessStatuses
             /\ color_status(Spelled(w)) = "error" <=> w \in ErrorStatuses
    <2>0. ColouredByList(Spelled(w))
        BY ColourOfList
    <2>1. /\ AmongWords(ErrorStatuses, Spelled(w)) <=> w \in ErrorStatuses
          /\ AmongWords(WarningStatuses, Spelled(w)) <=> w \in WarningStatuses
          /\ AmongWords(SuccessStatuses, Spelled(w)) <=> w \in SuccessStatuses
        BY <1>1
    <2>2. CASE w \in ErrorStatuses
        <3>2. color_status(Spelled(w)) = "error"
            BY <1>3, <2>0, <2>1, <2>2 DEF ColouredByList
        <3> QED BY <1>3, <2>2, <3>2
    <2>3. CASE w \in WarningStatuses
        <3>2. color_status(Spelled(w)) = "warning"
            BY <1>3, <2>0, <2>1, <2>3 DEF ColouredByList
        <3> QED BY <1>3, <2>3, <3>2
    <2>4. CASE w \in SuccessStatuses
        <3>2. color_status(Spelled(w)) = "success"
            BY <1>3, <2>0, <2>1, <2>4 DEF ColouredByList
        <3> QED BY <1>3, <2>4, <3>2
    <2>5. CASE w \notin ErrorStatuses \cup WarningStatuses \cup SuccessStatuses
        BY <2>0, <2>1, <2>5 DEF ColouredByList
    <2> QED BY <2>2, <2>3, <2>4, <2>5
<1>5. \A text : Len(text) # 1 => color_status(text) = ""
    BY <1>2, ColourOfList DEF ColouredByList
<1> QED BY <1>4, <1>5

\* What Kubernetes says of a container.
IsStatus(cs) ==
    /\ cs.reason \in {Unset, ""} \cup ToSet(Words)
    /\ {cs.signal, cs.code} \subseteq Nat
    /\ cs.state = "waiting" => ~cs.ready
    /\ cs.reason \in SuccessStatuses => cs.state = "terminated" /\ cs.reason = "Completed"
Failing(cs) == cs.state = "waiting" /\ IsGiven(cs.reason) /\ color_status(Spelled(cs.reason)) = "error"
Completed(cs) == cs.state = "terminated" /\ cs.reason = "Completed"

LEMMA WordsThereAre ==
    \A w \in {"Completed", "Running", "Terminating", "Unknown", "Init:", "Signal:", "ExitCode:"} : w \in ToSet(Words)
BY PodAssumption

\* A text, and one that is longer than a word.
IsText(text) == text \in Seq(Int) /\ Len(text) >= 1
IsLong(text) == text \in Seq(Int) /\ Len(text) >= 2

LEMMA TextsJoined ==
    /\ \A a, b : IsText(a) /\ IsText(b) => IsLong(a \o b)
    /\ \A text : IsLong(text) => IsText(text) /\ Len(text) # 1 /\ text # <<>>
<1>1. ASSUME NEW a, NEW b, IsText(a), IsText(b) PROVE IsLong(a \o b)
    <2>1. a \o b \in Seq(Int) /\ Len(a \o b) = Len(a) + Len(b)
        BY <1>1, ConcatProperties DEF IsText
    <2>2. Len(a) \in Nat /\ Len(b) \in Nat
        BY <1>1, LenProperties DEF IsText
    <2> QED BY <1>1, <2>1, <2>2 DEF IsText, IsLong
<1>2. ASSUME NEW text, IsLong(text) PROVE IsText(text) /\ Len(text) # 1 /\ text # <<>>
    <2>1. Len(text) \in Nat /\ Len(text) >= 2 /\ text \in Seq(Int)
        BY <1>2, LenProperties DEF IsLong
    <2>2. Len(<<>>) = 0
        OBVIOUS
    <2>3. text # <<>>
        BY <2>1, <2>2
    <2>4. \A n \in Nat : n >= 2 => n >= 1 /\ n # 1
        OBVIOUS
    <2>5. Len(text) >= 1 /\ Len(text) # 1
        BY <2>1, <2>4
    <2> QED BY <2>1, <2>3, <2>5 DEF IsText
<1> QED BY <1>1, <1>2

LEMMA TextsThereAre ==
    /\ \A w \in ToSet(Words) : IsText(Spelled(w))
    /\ \A n \in Nat : IsText(Digits(n))
    /\ IsText(Slash)
<1>1. ASSUME NEW n \in Nat PROVE IsText(Digits(n))
    <2>1. Digits(n) \in Seq(0..9) /\ Len(Digits(n)) >= 1
        BY DigitsType
    <2>2. \A s \in Seq(0..9) : s \in Seq(Int)
        OBVIOUS
    <2> QED BY <2>1, <2>2 DEF IsText
<1>2. ASSUME NEW w \in ToSet(Words) PROVE IsText(Spelled(w))
    <2>1. Spelled(w) \in Seq(Int) /\ Len(Spelled(w)) = 1
        BY WordIsCharacter
    <2> QED BY <2>1 DEF IsText
<1>3. IsText(Slash)
    BY DEF Slash, IsText
<1> QED BY <1>1, <1>2, <1>3

(* What a container says that has failed is its reason; what else is in the *)
(* colour of health, or says that it has completed, is of one that has.     *)
LEMMA SaysWhatIs ==
    ASSUME NEW cs, IsStatus(cs)
    PROVE  /\ Failing(cs) => ContainerSays(cs) # <<>> /\ color_status(ContainerSays(cs)) = "error"
           /\ color_status(ContainerSays(cs)) = "success" => Completed(cs)
           /\ ContainerSays(cs) = Spelled("Completed") => Completed(cs)
<1> DEFINE says == ContainerSays(cs)
<1>1. Len(<<>>) # 1 /\ Spelled("") = <<>>
    BY DEF Spelled
<1>2. CASE cs.state \in {"waiting", "terminated"} /\ IsGiven(cs.reason)
    <2>1. says = Spelled(cs.reason) /\ cs.reason \in ToSet(Words)
        BY <1>2 DEF ContainerSays, IsStatus, IsGiven
    <2>2. color_status(says) = "success" <=> cs.reason \in SuccessStatuses
        BY <2>1, ColourOfWord
    <2>3. says = Spelled("Completed") => cs.reason = "Completed"
        BY <2>1, WordIsCharacter, WordsThereAre
    <2>4. "Completed" \in SuccessStatuses
        BY DEF SuccessStatuses
    <2>5. says # <<>>
        BY <1>1, <2>1, WordIsCharacter
    <2> HIDE DEF says
    <2>6. Failing(cs) => color_status(says) = "error"
        BY <2>1 DEF Failing
    <2> QED BY <2>2, <2>3, <2>4, <2>5, <2>6 DEF Completed, IsStatus, says
<1>3. CASE ~ (cs.state \in {"waiting", "terminated"} /\ IsGiven(cs.reason))
    <2>1. ~ Failing(cs)
        BY <1>3 DEF Failing
    <2>2. Len(says) # 1
        <3>1. CASE cs.state = "terminated" /\ cs.reason = Unset /\ cs.signal # 0
            <4>1. says = Spelled("Signal:") \o Digits(cs.signal)
                BY <3>1 DEF ContainerSays, IsGiven
            <4>2. "Signal:" \in ToSet(Words)
                BY WordsThereAre
            <4>3. cs.signal \in Nat
                BY DEF IsStatus
            <4>4. IsLong(Spelled("Signal:") \o Digits(cs.signal))
                BY <4>2, <4>3, TextsThereAre, TextsJoined
            <4> QED BY <4>1, <4>4, TextsJoined
        <3>2. CASE /\ cs.state = "terminated" /\ ~ IsGiven(cs.reason)
                   /\ ~ (cs.reason = Unset /\ cs.signal # 0)
            <4>1. says = Spelled("ExitCode:") \o Digits(cs.code)
                BY <3>2 DEF ContainerSays, IsGiven
            <4>2. "ExitCode:" \in ToSet(Words)
                BY WordsThereAre
            <4>3. cs.code \in Nat
                BY DEF IsStatus
            <4>4. IsLong(Spelled("ExitCode:") \o Digits(cs.code))
                BY <4>2, <4>3, TextsThereAre, TextsJoined
            <4> QED BY <4>1, <4>4, TextsJoined
        <3>3. CASE ~ (cs.state = "terminated" /\ ~ IsGiven(cs.reason))
            <4>1. says = <<>>
                BY <1>3, <3>3 DEF ContainerSays, IsGiven
            <4> QED BY <1>1, <4>1
        <3> QED BY <3>1, <3>2, <3>3 DEF IsGiven
    <2>3. Len(Spelled("Completed")) = 1
        BY WordIsCharacter, WordsThereAre
    <2> QED BY <2>1, <2>2, <2>3, ColourOfWord
<1> QED BY <1>2, <1>3

(* What an init container says is nothing or longer than a word, and one   *)
(* that fails says something.                                              *)
LEMMA InitSaysLong ==
    ASSUME NEW cs, IsStatus(cs), NEW i \in Nat, NEW count \in Nat, NEW restartable
    PROVE  LET status == InitStatus(cs, i, count, restartable)
           IN  /\ status = <<>> \/ IsLong(status)
               /\ Failing(cs) => status # <<>>
<1> DEFINE status == InitStatus(cs, i, count, restartable)
           init == Spelled("Init:")
           passed == cs.state # "terminated" /\ cs.state # "none" /\ restartable /\ cs.started /\ cs.ready
           waits == cs.state = "waiting" /\ ~(restartable /\ cs.started) /\ IsGiven(cs.reason) /\ cs.reason # "PodInitializing"
<1>1. IsText(init) /\ IsText(Spelled("Signal:")) /\ IsText(Spelled("ExitCode:"))
    BY WordsThereAre, TextsThereAre
<1>2. /\ IsGiven(cs.reason) => IsText(Spelled(cs.reason))
      /\ IsText(Digits(cs.signal)) /\ IsText(Digits(cs.code)) /\ IsText(Digits(i)) /\ IsText(Digits(count))
      /\ IsText(Slash)
    BY TextsThereAre DEF IsStatus, IsGiven
<1> HIDE DEF init
<1>3. CASE cs.state = "terminated"
    <2>1. ~ Failing(cs)
        BY <1>3 DEF Failing
    <2>2. CASE cs.code = 0
        <3>1. status = <<>>
            BY <1>3, <2>2 DEF InitStatus
        <3> QED BY <2>1, <3>1
    <2>3. CASE cs.code # 0 /\ IsGiven(cs.reason)
        <3>1. status = init \o Spelled(cs.reason)
            BY <1>3, <2>3 DEF InitStatus, init
        <3>2. IsLong(init \o Spelled(cs.reason))
            BY <1>1, <1>2, <2>3, TextsJoined
        <3> QED BY <2>1, <3>1, <3>2
    <2>4. CASE cs.code # 0 /\ ~ IsGiven(cs.reason) /\ cs.signal # 0
        <3>1. status = (init \o Spelled("Signal:")) \o Digits(cs.signal)
            BY <1>3, <2>4 DEF InitStatus, init
        <3>2. IsLong((init \o Spelled("Signal:")) \o Digits(cs.signal))
            BY <1>1, <1>2, TextsJoined
        <3> QED BY <2>1, <3>1, <3>2
    <2>5. CASE cs.code # 0 /\ ~ IsGiven(cs.reason) /\ cs.signal = 0
        <3>1. status = (init \o Spelled("ExitCode:")) \o Digits(cs.code)
            BY <1>3, <2>5 DEF InitStatus, init
        <3>2. IsLong((init \o Spelled("ExitCode:")) \o Digits(cs.code))
            BY <1>1, <1>2, TextsJoined
        <3> QED BY <2>1, <3>1, <3>2
    <2> QED BY <2>2, <2>3, <2>4, <2>5
<1>4. CASE cs.state # "terminated" /\ passed
    <2>1. ~ Failing(cs)
        BY <1>4 DEF Failing, IsStatus
    <2>2. status = <<>>
        BY <1>4 DEF InitStatus
    <2> QED BY <2>1, <2>2
<1>5. CASE cs.state # "terminated" /\ ~ passed /\ waits
    <2>1. status = init \o Spelled(cs.reason)
        BY <1>5 DEF InitStatus, init
    <2>2. IsLong(init \o Spelled(cs.reason))
        BY <1>1, <1>2, <1>5, TextsJoined
    <2> QED BY <2>1, <2>2, TextsJoined
<1>6. CASE cs.state # "terminated" /\ ~ passed /\ ~ waits
    <2>1. status = ((init \o Digits(i)) \o Slash) \o Digits(count)
        BY <1>6 DEF InitStatus, init
    <2>2. IsLong(((init \o Digits(i)) \o Slash) \o Digits(count))
        BY <1>1, <1>2, TextsJoined
    <2> QED BY <2>1, <2>2, TextsJoined
<1> QED BY <1>3, <1>4, <1>5, <1>6

\* What the statuses of a pod are.
IsPod(pod) ==
    /\ pod.statuses \in Seq(ToSet(pod.statuses)) /\ \A i \in DOMAIN pod.statuses : IsStatus(pod.statuses[i])
    /\ pod.inits \in Seq(ToSet(pod.inits)) /\ \A i \in DOMAIN pod.inits : IsStatus(pod.inits[i])
    /\ pod.initContainers \in Seq(ToSet(pod.initContainers))
    /\ pod.inits # <<>> => pod.initContainers # <<>>

(* So is what a pod says of its init containers.                           *)
LEMMA InitsSayLong ==
    ASSUME NEW pod, IsPod(pod)
    PROVE  /\ get_init_container_status(pod) = <<>> \/ IsLong(get_init_container_status(pod))
           /\ (\E i \in DOMAIN pod.inits : Failing(pod.inits[i])) => get_init_container_status(pod) # <<>>
<1> DEFINE Says(i) == InitStatus(pod.inits[i], i, Len(pod.initContainers), pod.inits[i].name \in pod.sidecars)
           said == [i \in DOMAIN pod.inits |-> Says(i)]
           saying == {i \in DOMAIN said : pod.initContainers # <<>> /\ said[i] # <<>>}
           first == CHOOSE i \in saying : \A j \in saying : i <= j
<1>1. ASSUME NEW i \in DOMAIN pod.inits PROVE i \in Nat /\ IsStatus(pod.inits[i])
    BY LenProperties DEF IsPod
<1>2. Len(pod.initContainers) \in Nat
    BY LenProperties DEF IsPod
<1>3. ASSUME NEW i \in DOMAIN pod.inits
      PROVE  /\ Says(i) = <<>> \/ IsLong(Says(i))
             /\ Failing(pod.inits[i]) => Says(i) # <<>>
    BY <1>1, <1>2, InitSaysLong
<1>4. get_init_container_status(pod) = IF saying = {} THEN <<>> ELSE said[first]
    BY DEF get_init_container_status
<1>5. (\E i \in DOMAIN pod.inits : Failing(pod.inits[i])) => saying # {}
    <2>1. (\E i \in DOMAIN pod.inits : TRUE) => pod.inits # <<>>
        OBVIOUS
    <2> QED BY <1>3, <2>1 DEF IsPod
<1>6. ASSUME saying # {} PROVE first \in saying
    <2>1. saying \in SUBSET Nat
        BY <1>1
    <2> HIDE DEF saying
    <2>2. \E i \in saying : \A j \in saying : i <= j
        BY <1>6, <2>1, LeastNumber
    <2> QED BY <2>2
<1>7. \A i \in saying : i \in DOMAIN pod.inits /\ said[i] = Says(i) /\ Says(i) # <<>>
    OBVIOUS
<1> HIDE DEF saying, Says, said, first
<1>8. CASE saying = {}
    BY <1>4, <1>5, <1>8
<1>9. CASE saying # {}
    <2>1. get_init_container_status(pod) = Says(first) /\ first \in DOMAIN pod.inits /\ Says(first) # <<>>
        BY <1>4, <1>6, <1>7, <1>9
    <2> QED BY <1>3, <2>1
<1> QED BY <1>8, <1>9

(* A pod whose status is in the colour of health hides no container that    *)
(* fails, but behind one that has completed, and no init container that     *)
(* fails.                                                                   *)
LEMMA HealthHidesNothing ==
    ASSUME NEW pod, IsPod(pod), get_pod_status(pod).symbol = "success"
    PROVE  /\ \A c \in DOMAIN pod.statuses : Failing(pod.statuses[c]) =>
                    \E d \in 1..(c - 1) : Completed(pod.statuses[d])
           /\ \A c \in DOMAIN pod.inits : ~Failing(pod.inits[c])
<1> DEFINE phase == Spelled(IF pod.reason # Unset THEN pod.reason ELSE IF pod.phase = Unset THEN "Unknown" ELSE pod.phase)
           init == get_init_container_status(pod)
           said == get_container_status(pod, phase)
           running == \E i \in DOMAIN pod.statuses : pod.statuses[i].state = "running" /\ pod.statuses[i].ready
           lost == ~pod.reported \/ (pod.deleted /\ pod.reason = "NodeLost")
           Says(i) == ContainerSays(pod.statuses[i])
           saying == {i \in DOMAIN pod.statuses : Says(i) # <<>>}
           first == CHOOSE i \in saying : \A j \in saying : i <= j
<1>1. \A text : Status(text).symbol = color_status(text)
    BY DEF Status, FieldValue
<1>2. ~ lost
    <2>1. lost => get_pod_status(pod) = Status(Spelled("Unknown"))
        BY DEF get_pod_status
    <2>2. "Unknown" \in ToSet(Words) /\ "Unknown" \notin SuccessStatuses
        BY WordsThereAre DEF SuccessStatuses
    <2>3. color_status(Spelled("Unknown")) # "success"
        BY <2>2, ColourOfWord
    <2> QED BY <1>1, <2>1, <2>3
<1>3. init = <<>>
    <2>1. init # <<>> => get_pod_status(pod) = Status(init)
        BY <1>2 DEF get_pod_status
    <2>2. init # <<>> => color_status(init) = ""
        BY InitsSayLong, TextsJoined, ColourOfWord
    <2> QED BY <1>1, <2>1, <2>2
<1>4. ~ pod.deleted
    <2>1. pod.deleted => get_pod_status(pod) = Status(Spelled("Terminating"))
        BY <1>2, <1>3 DEF get_pod_status
    <2>2. "Terminating" \in ToSet(Words) /\ "Terminating" \notin SuccessStatuses
        BY WordsThereAre DEF SuccessStatuses
    <2>3. color_status(Spelled("Terminating")) # "success"
        BY <2>2, ColourOfWord
    <2> QED BY <1>1, <2>1, <2>3
<1>5. said = Spelled("Completed") \/ color_status(said) = "success"
    <2>1. get_pod_status(pod) = Status(IF running /\ said = Spelled("Completed") THEN Spelled("Running") ELSE said)
        BY <1>2, <1>3, <1>4 DEF get_pod_status
    <2> HIDE DEF said, running
    <2> QED BY <1>1, <2>1
<1>6. \A c \in DOMAIN pod.inits : ~Failing(pod.inits[c])
    BY <1>3, InitsSayLong
<1>7. ASSUME NEW c \in DOMAIN pod.statuses, Failing(pod.statuses[c])
      PROVE  \E d \in 1..(c - 1) : Completed(pod.statuses[d])
    <2>1. ASSUME NEW i \in DOMAIN pod.statuses
          PROVE  i \in Nat /\ i >= 1 /\ IsStatus(pod.statuses[i])
        BY LenProperties DEF IsPod
    <2>2. ASSUME NEW i \in DOMAIN pod.statuses
          PROVE  /\ Failing(pod.statuses[i]) => Says(i) # <<>> /\ color_status(Says(i)) = "error"
                 /\ color_status(Says(i)) = "success" => Completed(pod.statuses[i])
                 /\ Says(i) = Spelled("Completed") => Completed(pod.statuses[i])
        BY <2>1, SaysWhatIs
    <2>3. said = IF saying = {} THEN phase ELSE Says(first)
        BY DEF get_container_status
    <2> HIDE DEF said, phase, Says
    <2>4. c \in saying
        BY <1>7, <2>2
    <2>5. first \in saying /\ \A j \in saying : first <= j
        <3>1. saying \in SUBSET Nat /\ saying # {}
            BY <2>1, <2>4
        <3> HIDE DEF saying
        <3>2. \E i \in saying : \A j \in saying : i <= j
            BY <3>1, LeastNumber
        <3> QED BY <3>2
    <2>6. \A i \in saying : i \in DOMAIN pod.statuses
        OBVIOUS
    <2> HIDE DEF saying, first
    <2>7. said = Says(first) /\ first \in DOMAIN pod.statuses /\ first <= c
        BY <2>3, <2>4, <2>5, <2>6
    <2>8. Completed(pod.statuses[first])
        BY <1>5, <2>2, <2>7
    <2>9. ~ Failing(pod.statuses[first])
        BY <2>8 DEF Completed, Failing
    <2>10. first \in 1..(c - 1)
        <3>1. first # c
            BY <1>7, <2>9
        <3>2. first \in Nat /\ first >= 1 /\ c \in Nat
            BY <2>1, <2>7
        <3> QED BY <2>7, <3>1, <3>2
    <2> QED BY <2>8, <2>10
<1> QED BY <1>6, <1>7

(* No pod that a table shows in the colour of health hides a container that *)
(* waits for an error behind it, but behind one further ahead that has      *)
(* completed, and none of its init containers fails: the container that is  *)
(* furthest ahead among those with something to say gives the status, and   *)
(* what it says has that colour only when it has completed (pod.rs,         *)
(* get_pod_status).                                                         *)
THEOREM FailuresShow == RowSpec => []FailureShows
<1>1. RowInv /\ TableInv => FailureShows
    <2> SUFFICES ASSUME RowInv, TableInv, shown # NoRead, kind = "Pod", NEW i \in DOMAIN shown.read,
                        Row(kind, shown.read[i].of)["status"].symbol = "success"
                 PROVE  LET pod == shown.read[i].of
                        IN  /\ \A c \in DOMAIN pod.statuses : Failing(pod.statuses[c]) =>
                                    \E d \in 1..(c - 1) : Completed(pod.statuses[d])
                            /\ \A c \in DOMAIN pod.inits : ~Failing(pod.inits[c])
        BY DEF FailureShows, Failing, Completed
    <2> DEFINE pod == shown.read[i].of
    <2>1. pod \in Pool[kind] /\ kind \in DOMAIN Pool
        BY DEF RowInv, Kept, TableInv, TableOfRead
    <2> HIDE DEF pod
    <2>2. IsPod(pod)
        <3>1. "Pod" \in DOMAIN Pool /\ pod \in Pool["Pod"]
            BY <2>1
        <3>2. pod \in UNION {Pool[k] : k \in DOMAIN Pool \cap {"Pod"}}
            BY <3>1
        <3>3. /\ pod.statuses \in Seq(ToSet(pod.statuses)) /\ pod.inits \in Seq(ToSet(pod.inits))
              /\ pod.initContainers \in Seq(ToSet(pod.initContainers))
              /\ pod.inits # <<>> => pod.initContainers # <<>>
            BY <3>2, PodAssumption
        <3>4. \A cs \in ToSet(pod.statuses) \cup ToSet(pod.inits) : IsStatus(cs)
            BY <3>2, PodAssumption DEF IsStatus
        <3>5. /\ \A c \in DOMAIN pod.statuses : pod.statuses[c] \in ToSet(pod.statuses)
              /\ \A c \in DOMAIN pod.inits : pod.inits[c] \in ToSet(pod.inits)
            BY DEF ToSet
        <3> QED BY <3>3, <3>4, <3>5 DEF IsPod
    <2>3. Row(kind, pod)["status"] = get_pod_status(pod)
        <3>1. Row("Pod", pod) = PodRow(pod)
            BY DEF Row
        <3>2. PodRow(pod)["status"] = get_pod_status(pod)
            BY DEF PodRow, Named, ++
        <3> QED BY <3>1, <3>2
    <2>4. get_pod_status(pod).symbol = "success"
        BY <2>3 DEF pod
    <2> QED BY <2>2, <2>4, HealthHidesNothing DEF pod
<1> QED BY <1>1, TableInvHolds, PTL DEF RowSpec
=============================================================================
