--------------------------- MODULE ApiCacheProofs ---------------------------
(***************************************************************************)
(* The cache of API resources, for any contexts and number of calls, with  *)
(* changes of context overtaking each other, their calls and the           *)
(* kubeconfigs of state.setup: a list fills the table it was begun with,   *)
(* and every call that refers to the table of now was, or will be, asked   *)
(* of a cluster the client has talked to since that table was made.        *)
(***************************************************************************)
EXTENDS ApiCache, FiniteSetTheorems, SequenceTheorems, TLAPS

Call == [table : TableIds, asked : BOOLEAN, of : KubeContexts \cup {NoContext}]

\* The types of the tables, and of the changes of context.
TableTypes ==
    /\ table \in TableIds
    /\ content \in [TableIds -> SUBSET Entries]
    /\ loading \in BOOLEAN
    /\ file \in [KubeContexts -> Files \cup {NoContext}]
    /\ lists \in Seq(Call)
    /\ saves \in Seq(TableIds)

ChangeTypes ==
    /\ shownContext \in KubeContexts \cup {NoContext}
    /\ base \in KubeContexts \cup {NoContext}
    /\ served \in KubeContexts \cup {NoContext}
    /\ since \subseteq KubeContexts \cup {NoContext}
    /\ queued \in Nat /\ made \in Nat /\ finishing \in Nat
    /\ connecting \in Seq(KubeContexts)
    /\ setups \in Seq(KubeContexts)

Room == UnderWay <= MaxCalls

\* Before a context is shown nothing is loaded and no change has begun.
NotYetShown ==
    shownContext = NoContext =>
        /\ lists = <<>> /\ saves = <<>>
        /\ queued = 0 /\ connecting = <<>> /\ made = 0 /\ finishing = 0

\* Calls that fill the table of now.
CallsSinceCleared ==
    \A i \in DOMAIN lists : lists[i].table = table /\ lists[i].asked => lists[i].of \in since

CacheInv ==
    /\ TableTypes /\ ChangeTypes /\ Room /\ NotYetShown
    /\ served \in since
    /\ CallsSinceCleared /\ ListedSinceCleared

LEMMA TypesAre ==
    ASSUME TableTypes, ChangeTypes PROVE CacheTypeOK
BY DEF TableTypes, ChangeTypes, CacheTypeOK, Call

LEMMA LensAre ==
    ASSUME TableTypes, ChangeTypes
    PROVE  /\ Len(lists) \in Nat /\ Len(saves) \in Nat /\ Len(setups) \in Nat /\ Len(connecting) \in Nat
           /\ Room => Len(lists) + Len(saves) <= MaxCalls
<1>1. Len(lists) \in Nat /\ Len(saves) \in Nat /\ Len(setups) \in Nat /\ Len(connecting) \in Nat
    BY LenProperties DEF TableTypes, ChangeTypes
<1> QED BY <1>1, CacheAssumption DEF Room, UnderWay, ChangeTypes

-----------------------------------------------------------------------------
(* Tables.                                                                 *)

(* There is a table that nothing refers to: there is one more than calls   *)
(* and saves can refer to besides the one of now.                          *)
LEMMA FreshTable ==
    ASSUME TableTypes, Len(lists) + Len(saves) <= MaxCalls
    PROVE  NewTable \in TableIds /\ NewTable \notin Referred
<1> USE CacheAssumption DEF TableTypes, TableIds
<1> DEFINE n == Len(lists)
           m == Len(saves)
           of == [k \in 0..(n + m) |-> IF k = 0 THEN table ELSE IF k <= n THEN lists[k].table ELSE saves[k - n]]
<1>1. n \in Nat /\ m \in Nat
    OBVIOUS
<1>2. Referred = {of[k] : k \in 0..(n + m)}
    <2>1. ASSUME NEW t \in Referred PROVE \E k \in 0..(n + m) : t = of[k]
        <3>1. CASE t = table
            BY <1>1, <3>1
        <3>2. ASSUME NEW i \in DOMAIN lists, t = lists[i].table PROVE \E k \in 0..(n + m) : t = of[k]
            <4>1. i \in 1..n /\ i \in 0..(n + m)
                BY <1>1
            <4> QED BY <1>1, <3>2, <4>1
        <3>3. ASSUME NEW i \in DOMAIN saves, t = saves[i] PROVE \E k \in 0..(n + m) : t = of[k]
            <4>1. i \in 1..m /\ i + n \in 0..(n + m) /\ ~ (i + n <= n) /\ i + n # 0 /\ (i + n) - n = i
                BY <1>1
            <4>2. of[i + n] = saves[i]
                BY <4>1
            <4> QED BY <3>3, <4>1, <4>2
        <3> QED BY <3>1, <3>2, <3>3 DEF Referred, ToSet
    <2>2. ASSUME NEW k \in 0..(n + m) PROVE of[k] \in Referred
        <3>1. CASE k = 0
            BY <3>1 DEF Referred
        <3>2. CASE k # 0 /\ k <= n
            <4>1. k \in DOMAIN lists
                BY <1>1, <3>2
            <4> QED BY <3>2, <4>1 DEF Referred
        <3>3. CASE k # 0 /\ ~ (k <= n)
            <4>1. k - n \in DOMAIN saves
                BY <1>1, <3>3
            <4> QED BY <3>3, <4>1 DEF Referred, ToSet
        <3> QED BY <3>1, <3>2, <3>3
    <2> QED BY <2>1, <2>2
<1>3. IsFiniteSet(Referred) /\ Cardinality(Referred) <= n + m + 1
    <2> HIDE DEF of
    <2>1. of \in Surjection(0..(n + m), Referred)
        BY <1>2 DEF Surjection, of
    <2>2. IsFiniteSet(0..(n + m)) /\ Cardinality(0..(n + m)) = n + m + 1
        BY <1>1, FS_Interval
    <2> QED BY <2>1, <2>2, FS_Surjection
<1>4. IsFiniteSet(TableIds) /\ Cardinality(TableIds) = MaxCalls + 2
    BY FS_Interval
<1>5. Referred \in SUBSET TableIds
    <2> HIDE DEF TableIds
    <2>1. \A i \in DOMAIN lists : lists[i].table \in TableIds
        <3>1. \A i \in DOMAIN lists : lists[i] \in Call
            OBVIOUS
        <3> QED BY <3>1 DEF Call
    <2>2. ToSet(saves) \subseteq TableIds
        BY DEF ToSet
    <2> QED BY <2>1, <2>2 DEF Referred
<1>6. Referred # TableIds
    BY <1>1, <1>3, <1>4
<1>7. \E t \in TableIds : t \notin Referred
    BY <1>5, <1>6
<1> HIDE DEF TableIds
<1> QED BY <1>7 DEF NewTable

(* A load refers to the table it makes, or to that of now, and what it     *)
(* takes from the file is no list.                                         *)
LEMMA LoadKeeps ==
    ASSUME CacheInv, NEW force \in BOOLEAN, NEW busy \in BOOLEAN, LoadFallbackData(force, busy),
           shownContext' \in KubeContexts, UNCHANGED <<file, saves, since>>
    PROVE  /\ TableTypes' /\ CallsSinceCleared' /\ ListedSinceCleared'
           /\ Len(lists') \in {Len(lists), Len(lists) + 1}
<1> USE CacheAssumption
<1> DEFINE call == [table |-> table', asked |-> FALSE, of |-> NoContext]
<1>1. lists \in Seq(Call) /\ saves \in Seq(TableIds) /\ table \in TableIds /\ content \in [TableIds -> SUBSET Entries]
    BY DEF CacheInv, TableTypes
<1>2. NewTable \in TableIds /\ NewTable \notin Referred
    BY FreshTable, LensAre DEF CacheInv
<1>3. table' \in TableIds /\ (table' = table \/ table' = NewTable)
    BY <1>1, <1>2 DEF LoadFallbackData
<1>4. loading' \in BOOLEAN
    BY DEF LoadFallbackData, LoadCache
<1>5. lists' = lists \/ lists' = Append(lists, call)
    BY DEF LoadFallbackData, LoadCache
<1>6. call \in Call
    BY <1>3 DEF Call
<1> HIDE DEF call
<1>7. lists' \in Seq(Call) /\ Len(lists') \in {Len(lists), Len(lists) + 1}
    <2>1. CASE lists' = lists
        BY <1>1, <2>1
    <2>2. CASE lists' = Append(lists, call)
        <3>1. Append(lists, call) \in Seq(Call) /\ Len(Append(lists, call)) = Len(lists) + 1
            BY <1>1, <1>6, AppendProperties
        <3> QED BY <2>2, <3>1
    <2> QED BY <1>5, <2>1, <2>2
<1>8. \A i \in DOMAIN lists' : lists'[i] = call \/ (i \in DOMAIN lists /\ lists'[i] = lists[i])
    BY <1>1, <1>5, <1>6
<1>9. CallsSinceCleared'
    <2> SUFFICES ASSUME NEW i \in DOMAIN lists', lists'[i].table = table', lists'[i].asked
                 PROVE  lists'[i].of \in since
        BY DEF CallsSinceCleared
    <2>1. i \in DOMAIN lists /\ lists'[i] = lists[i]
        BY <1>8 DEF call
    <2>2. table' = table
        BY <1>2, <1>3, <2>1 DEF Referred
    <2> QED BY <2>1, <2>2 DEF CacheInv, CallsSinceCleared
<1>10. content' \in [TableIds -> SUBSET Entries] /\ ListedSinceCleared'
    <2>1. CASE content' = content /\ table' = table
        BY <1>1, <2>1 DEF CacheInv, ListedSinceCleared
    <2>2. CASE content' = [Collected EXCEPT ![table'] = FromFile(shownContext')] /\ file[shownContext'] # NoContext
        <3>1. file[shownContext'] \in SUBSET KubeContexts
            BY <2>2 DEF CacheInv, TableTypes, Files
        <3>2. FromFile(shownContext') \in SUBSET Entries /\ \A e \in FromFile(shownContext') : e.from = "file"
            BY <3>1 DEF FromFile, Entries
        <3>3. Collected \in [TableIds -> SUBSET Entries]
            BY <1>1 DEF Collected
        <3> HIDE DEF Collected, FromFile
        <3>4. content'[table'] = FromFile(shownContext') /\ content' \in [TableIds -> SUBSET Entries]
            BY <1>3, <2>2, <3>2, <3>3
        <3> QED BY <3>2, <3>4 DEF ListedSinceCleared
    <2>3. (content' = content /\ table' = table)
          \/ (content' = [Collected EXCEPT ![table'] = FromFile(shownContext')] /\ file[shownContext'] # NoContext)
        BY DEF LoadFallbackData
    <2> QED BY <2>1, <2>2, <2>3
<1>11. TableTypes'
    BY <1>1, <1>3, <1>4, <1>7, <1>10 DEF CacheInv, TableTypes
<1> QED BY <1>7, <1>9, <1>10, <1>11

-----------------------------------------------------------------------------
(* Sequences.                                                              *)

(* What is left of a sequence when one element is taken out.               *)
LEMMA Removed ==
    ASSUME NEW S, NEW s \in Seq(S), NEW i \in DOMAIN s
    PROVE  /\ RemoveAt(s, i) \in Seq(S)
           /\ Len(RemoveAt(s, i)) = Len(s) - 1
           /\ \A k \in DOMAIN RemoveAt(s, i) : \E j \in DOMAIN s : RemoveAt(s, i)[k] = s[j]
<1>1. i \in 1..Len(s)
    OBVIOUS
<1> DEFINE l == SubSeq(s, 1, i - 1)
           r == SubSeq(s, i + 1, Len(s))
<1>2. l \in Seq(S) /\ Len(l) = i - 1 /\ \A k \in 1..(i - 1) : l[k] = s[k]
    BY <1>1
<1>3. r \in Seq(S) /\ Len(r) = Len(s) - i /\ \A k \in 1..(Len(s) - i) : r[k] = s[i + k]
    BY <1>1
<1>4. RemoveAt(s, i) = l \o r
    BY DEF RemoveAt
<1> HIDE DEF l, r
<1>5. l \o r \in Seq(S) /\ Len(l \o r) = Len(s) - 1
    BY <1>1, <1>2, <1>3
<1>6. ASSUME NEW k \in 1..(Len(s) - 1) PROVE \E j \in DOMAIN s : (l \o r)[k] = s[j]
    <2>1. CASE k <= i - 1
        BY <1>1, <1>2, <1>3, <2>1
    <2>2. CASE ~ (k <= i - 1)
        <3>1. k - (i - 1) \in 1..(Len(s) - i) /\ i + (k - (i - 1)) = k + 1 /\ k + 1 \in 1..Len(s)
            BY <1>1, <2>2
        <3>2. (l \o r)[k] = r[k - (i - 1)]
            BY <1>1, <1>2, <1>3, <2>2
        <3> QED BY <1>3, <3>1, <3>2
    <2> QED BY <2>1, <2>2
<1>7. DOMAIN (l \o r) = 1..(Len(s) - 1)
    BY <1>5
<1> QED BY <1>4, <1>5, <1>6, <1>7

-----------------------------------------------------------------------------
(* Steps of a list and of a save.                                          *)

LEMMA AskKeeps ==
    ASSUME CacheInv, NEW i \in DOMAIN lists, Ask(i)
    PROVE  CacheInv'
<1>1. lists \in Seq(Call) /\ served \in KubeContexts \cup {NoContext}
    BY DEF CacheInv, TableTypes, ChangeTypes
<1>2. UNCHANGED <<shownContext, setups, base, served, since, queued, connecting, made, finishing,
                  table, content, loading, file, saves>>
    BY DEF Ask, changeVars
<1>3. lists' \in Seq(Call) /\ Len(lists') = Len(lists) /\ DOMAIN lists' = DOMAIN lists
    <2>0. lists[i] \in Call
        BY <1>1
    <2>1. [lists[i] EXCEPT !.asked = TRUE, !.of = served] \in Call
        BY <1>1, <2>0 DEF Call
    <2>2. lists' = [lists EXCEPT ![i] = [lists[i] EXCEPT !.asked = TRUE, !.of = served]]
        BY <1>1 DEF Ask
    <2> QED BY <1>1, <2>1, <2>2
<1>4. \A j \in DOMAIN lists : lists'[j] = IF j = i THEN [lists[j] EXCEPT !.asked = TRUE, !.of = served] ELSE lists[j]
    BY <1>1 DEF Ask
<1>5. CallsSinceCleared'
    <2> SUFFICES ASSUME NEW j \in DOMAIN lists', lists'[j].table = table', lists'[j].asked
                 PROVE  lists'[j].of \in since
        BY <1>2 DEF CallsSinceCleared
    <2>1. lists[j] \in Call
        BY <1>1, <1>3
    <2>2. CASE j = i
        BY <1>3, <1>4, <2>1, <2>2 DEF CacheInv, Call
    <2>3. CASE j # i
        BY <1>2, <1>3, <1>4, <2>3 DEF CacheInv, CallsSinceCleared
    <2> QED BY <2>2, <2>3
<1>6. TableTypes' /\ ChangeTypes'
    BY <1>2, <1>3 DEF CacheInv, TableTypes, ChangeTypes
<1>7. Room'
    BY <1>2, <1>3 DEF CacheInv, Room, UnderWay
<1>8. lists # <<>>
    BY <1>1
<1> QED BY <1>2, <1>5, <1>6, <1>7, <1>8 DEF CacheInv, NotYetShown, ListedSinceCleared

LEMMA ListedKeeps ==
    ASSUME CacheInv, NEW i \in DOMAIN lists, Listed(i)
    PROVE  CacheInv'
<1> DEFINE e == [of |-> lists[i].of, from |-> "list"]
<1>1. lists \in Seq(Call) /\ saves \in Seq(TableIds) /\ content \in [TableIds -> SUBSET Entries] /\ table \in TableIds
    BY DEF CacheInv, TableTypes
<1>2. shownContext # NoContext
    BY <1>1 DEF CacheInv, NotYetShown
<1>3. lists[i] \in Call /\ lists[i].table \in TableIds
    <2>1. lists[i] \in Call
        BY <1>1
    <2> QED BY <2>1 DEF Call
<1>4. lists' \in Seq(Call) /\ Len(lists') = Len(lists) - 1 /\ \A k \in DOMAIN lists' : \E j \in DOMAIN lists : lists'[k] = lists[j]
    BY <1>1, Removed DEF Listed
<1>5. saves' \in Seq(TableIds) /\ Len(saves') = Len(saves) + 1
    BY <1>1, <1>3 DEF Listed
<1>6. e \in Entries
    BY DEF Listed, Entries
<1>7. content' \in [TableIds -> SUBSET Entries]
    BY <1>1, <1>3, <1>6 DEF Listed
<1>8. UNCHANGED <<shownContext, setups, base, served, since, queued, connecting, made, finishing, table, file>>
      /\ loading' = FALSE
    BY DEF Listed, changeVars
<1>9. ListedSinceCleared'
    <2>1. lists[i].table = table => lists[i].of \in since
        BY DEF Listed, CacheInv, CallsSinceCleared
    <2>2. content'[table] = IF lists[i].table = table THEN content[table] \cup {e} ELSE content[table]
        BY <1>1 DEF Listed
    <2> QED BY <1>8, <2>1, <2>2 DEF CacheInv, ListedSinceCleared
<1>10. CallsSinceCleared'
    BY <1>4, <1>8 DEF CacheInv, CallsSinceCleared
<1>11. TableTypes' /\ ChangeTypes'
    BY <1>4, <1>5, <1>7, <1>8 DEF CacheInv, TableTypes, ChangeTypes
<1>12. Room'
    <2>1. Len(lists) \in Nat /\ Len(saves) \in Nat /\ Len(setups) \in Nat /\ Len(connecting) \in Nat
        BY LensAre DEF CacheInv
    <2> QED BY <1>4, <1>5, <1>8, <2>1, CacheAssumption DEF CacheInv, ChangeTypes, Room, UnderWay
<1> QED BY <1>2, <1>8, <1>9, <1>10, <1>11, <1>12 DEF CacheInv, NotYetShown

(* Collecting tables that nothing refers to leaves the one of now alone.   *)
LEMMA CollectedKeeps ==
    ASSUME TableTypes, content' = Collected, table' = table
    PROVE  content' \in [TableIds -> SUBSET Entries] /\ content'[table'] = content[table]
BY DEF TableTypes, Collected, Referred

LEMMA ListFailedKeeps ==
    ASSUME CacheInv, NEW i \in DOMAIN lists, ListFailed(i)
    PROVE  CacheInv'
<1>1. lists \in Seq(Call)
    BY DEF CacheInv, TableTypes
<1>2. shownContext # NoContext
    BY <1>1 DEF CacheInv, NotYetShown
<1>3. lists' \in Seq(Call) /\ Len(lists') = Len(lists) - 1 /\ \A k \in DOMAIN lists' : \E j \in DOMAIN lists : lists'[k] = lists[j]
    BY <1>1, Removed DEF ListFailed
<1>4. content' \in [TableIds -> SUBSET Entries] /\ content'[table'] = content[table]
    BY CollectedKeeps DEF CacheInv, ListFailed
<1>5. UNCHANGED <<shownContext, setups, base, served, since, queued, connecting, made, finishing,
                  table, loading, file, saves>>
    BY DEF ListFailed, changeVars
<1>6. TableTypes' /\ ChangeTypes'
    BY <1>3, <1>4, <1>5 DEF CacheInv, TableTypes, ChangeTypes
<1>7. CallsSinceCleared'
    BY <1>3, <1>5 DEF CacheInv, CallsSinceCleared
<1>8. Room'
    <2>1. Len(lists) \in Nat /\ Len(saves) \in Nat /\ Len(setups) \in Nat /\ Len(connecting) \in Nat
        BY LensAre DEF CacheInv
    <2> QED BY <1>3, <1>5, <2>1, CacheAssumption DEF CacheInv, ChangeTypes, Room, UnderWay
<1> QED BY <1>2, <1>4, <1>5, <1>6, <1>7, <1>8 DEF CacheInv, NotYetShown, ListedSinceCleared

LEMMA SaveKeeps ==
    ASSUME CacheInv, SaveStep
    PROVE  CacheInv'
<1>1. saves \in Seq(TableIds) /\ saves # <<>> /\ saves' = Tail(saves)
    BY DEF CacheInv, TableTypes, SaveStep, Save, SaveFailed
<1>2. saves' \in Seq(TableIds) /\ Len(saves') = Len(saves) - 1 /\ Head(saves) \in TableIds
    BY <1>1
<1>3. shownContext \in KubeContexts
    BY <1>1 DEF CacheInv, ChangeTypes, NotYetShown
<1>4. /\ UNCHANGED <<shownContext, setups, base, served, since, queued, connecting, made, finishing,
                     table, loading, lists>>
      /\ content' = Collected
    BY DEF SaveStep, Save, SaveFailed, changeVars
<1>5. content' \in [TableIds -> SUBSET Entries] /\ content'[table'] = content[table]
    BY <1>4, CollectedKeeps DEF CacheInv
<1>6. file' \in [KubeContexts -> Files \cup {NoContext}]
    <2> DEFINE saved == {e.of : e \in content[Head(saves)]}
    <2>1. content[Head(saves)] \subseteq Entries
        BY <1>2 DEF CacheInv, TableTypes
    <2>2. saved \in Files
        BY <2>1 DEF Entries, Files
    <2>3. file \in [KubeContexts -> Files \cup {NoContext}]
        BY DEF CacheInv, TableTypes
    <2>4. file' = file \/ file' = [file EXCEPT ![shownContext] = saved]
        BY DEF SaveStep, Save, SaveFailed
    <2> HIDE DEF saved
    <2> QED BY <2>2, <2>3, <2>4
<1>7. TableTypes' /\ ChangeTypes'
    BY <1>2, <1>4, <1>5, <1>6 DEF CacheInv, TableTypes, ChangeTypes
<1>8. Room'
    <2>1. Len(lists) \in Nat /\ Len(saves) \in Nat /\ Len(setups) \in Nat /\ Len(connecting) \in Nat
        BY LensAre DEF CacheInv
    <2> QED BY <1>2, <1>4, <2>1, CacheAssumption DEF CacheInv, ChangeTypes, Room, UnderWay
<1> QED BY <1>3, <1>4, <1>5, <1>7, <1>8, CacheAssumption
        DEF CacheInv, NotYetShown, ListedSinceCleared, CallsSinceCleared

-----------------------------------------------------------------------------
(* A change of context: nothing refers to the table it makes.              *)

LEMMA OpenKeeps ==
    ASSUME CacheInv, NEW c \in KubeContexts, Open(c)
    PROVE  CacheInv'
<1>1. UNCHANGED <<shownContext, queued, connecting, made, finishing, table, content, loading, file, lists, saves>>
    BY DEF Open, tableVars
<1>2. setups' \in Seq(KubeContexts) /\ Len(setups') = 1
    BY DEF Open
<1>3. TableTypes' /\ ChangeTypes'
    BY <1>1, <1>2 DEF Open, CacheInv, TableTypes, ChangeTypes
<1>4. Room'
    <2>1. Len(lists) \in Nat /\ Len(saves) \in Nat /\ Len(setups) \in Nat /\ Len(connecting) \in Nat
        BY LensAre DEF CacheInv
    <2> QED BY <1>1, <1>2, <2>1, CacheAssumption DEF Open, CacheInv, ChangeTypes, Room, UnderWay
<1> QED BY <1>1, <1>3, <1>4 DEF Open, CacheInv, NotYetShown, ListedSinceCleared, CallsSinceCleared

LEMMA ClearCacheKeeps ==
    ASSUME CacheInv, NEW c \in KubeContexts, ClearCache(c)
    PROVE  CacheInv'
<1>1. UNCHANGED <<setups, connecting, made, finishing, loading, file, lists, saves>>
      /\ queued' = queued + 1 /\ since' = {served'} /\ shownContext' = c
    BY DEF ClearCache
<1>2. table' \in TableIds /\ table' \notin Referred
    BY FreshTable, LensAre DEF ClearCache, CacheInv
<1>3. content' \in [TableIds -> SUBSET Entries] /\ content'[table'] = {}
    <2>1. Collected \in [TableIds -> SUBSET Entries]
        BY DEF CacheInv, TableTypes, Collected
    <2> HIDE DEF Collected
    <2> QED BY <1>2, <2>1 DEF ClearCache
<1>4. TableTypes'
    BY <1>1, <1>2, <1>3 DEF CacheInv, TableTypes
<1>5. ChangeTypes'
    BY <1>1 DEF ClearCache, CacheInv, ChangeTypes
<1>6. CallsSinceCleared'
    BY <1>1, <1>2 DEF CallsSinceCleared, Referred
<1>7. Room'
    <2>1. Len(lists) \in Nat /\ Len(saves) \in Nat /\ Len(setups) \in Nat /\ Len(connecting) \in Nat
        BY LensAre DEF CacheInv
    <2> QED BY <1>1, <2>1, CacheAssumption DEF ClearCache, CacheInv, ChangeTypes, Room, UnderWay
<1> QED BY <1>1, <1>3, <1>4, <1>5, <1>6, <1>7, CacheAssumption
        DEF CacheInv, NotYetShown, ListedSinceCleared

(* init_client_async and its callback leave the tables alone, and a client *)
(* it makes is one more that the tables may have been listed from.         *)
LEMMA ClientsKeep ==
    ASSUME CacheInv,
           ReadConfig \/ Callback \/ \E i \in 1..MaxCalls : ClientsMade(i) \/ ClientsFailed(i)
    PROVE  CacheInv'
<1>1. UNCHANGED <<shownContext, setups, base, table, content, loading, file, lists, saves>>
    BY DEF ReadConfig, Callback, ClientsMade, ClientsFailed, tableVars
<1>2. Len(lists) \in Nat /\ Len(saves) \in Nat /\ Len(setups) \in Nat /\ Len(connecting) \in Nat
    BY LensAre DEF CacheInv
<1>3. TableTypes'
    BY <1>1 DEF CacheInv, TableTypes
<1>4. connecting \in Seq(KubeContexts) /\ served \in KubeContexts \cup {NoContext}
    BY DEF CacheInv, ChangeTypes
<1>5. ChangeTypes' /\ since \subseteq since' /\ served' \in since' /\ Room' /\ shownContext # NoContext
    <2>1. CASE ReadConfig
        <3>1. connecting' \in Seq(KubeContexts) /\ Len(connecting') \in {Len(connecting), Len(connecting) + 1}
            <4>1. CASE base = NoContext
                BY <1>4, <2>1, <4>1 DEF ReadConfig
            <4>2. CASE base # NoContext
                <5>1. base \in KubeContexts /\ connecting' = Append(connecting, base)
                    BY <2>1, <4>2 DEF ReadConfig, CacheInv, ChangeTypes
                <5> QED BY <1>4, <5>1, AppendProperties
            <4> QED BY <4>1, <4>2
        <3>2. ChangeTypes' /\ since \subseteq since' /\ served' \in since' /\ shownContext # NoContext
            BY <2>1, <3>1 DEF ReadConfig, CacheInv, ChangeTypes, NotYetShown
        <3>3. queued' = queued - 1 /\ made' = made /\ finishing' = finishing
            BY <2>1 DEF ReadConfig
        <3>4. Room'
            BY <1>1, <1>2, <3>1, <3>3, CacheAssumption DEF CacheInv, ChangeTypes, Room, UnderWay
        <3> QED BY <3>2, <3>4
    <2>2. CASE Callback
        <3>1. ChangeTypes' /\ since \subseteq since' /\ served' \in since' /\ shownContext # NoContext
            BY <2>2 DEF Callback, CacheInv, ChangeTypes, NotYetShown
        <3>2. Room'
            BY <1>1, <1>2, <2>2, CacheAssumption DEF Callback, CacheInv, ChangeTypes, Room, UnderWay
        <3> QED BY <3>1, <3>2
    <2>3. ASSUME NEW i \in 1..MaxCalls, ClientsMade(i) \/ ClientsFailed(i)
          PROVE  ChangeTypes' /\ since \subseteq since' /\ served' \in since' /\ Room' /\ shownContext # NoContext
        <3>1. i \in DOMAIN connecting /\ connecting' = RemoveAt(connecting, i)
            BY <2>3 DEF ClientsMade, ClientsFailed
        <3>2. connecting' \in Seq(KubeContexts) /\ Len(connecting') = Len(connecting) - 1
            BY <1>4, <3>1, Removed
        <3>3. connecting[i] \in KubeContexts /\ connecting # <<>>
            BY <1>4, <3>1
        <3>4. ChangeTypes' /\ since \subseteq since' /\ served' \in since' /\ shownContext # NoContext
            BY <2>3, <3>2, <3>3 DEF ClientsMade, ClientsFailed, CacheInv, ChangeTypes, NotYetShown
        <3>5. queued' = queued /\ finishing' = finishing /\ made' \in {made, made + 1}
            BY <2>3 DEF ClientsMade, ClientsFailed
        <3>6. Room'
            BY <1>1, <1>2, <3>2, <3>5, CacheAssumption DEF CacheInv, ChangeTypes, Room, UnderWay
        <3> QED BY <3>4, <3>6
    <2> QED BY <2>1, <2>2, <2>3
<1> QED BY <1>1, <1>3, <1>5 DEF CacheInv, NotYetShown, ListedSinceCleared, CallsSinceCleared

-----------------------------------------------------------------------------
(* Steps that load.                                                        *)

LEMMA SetupDoneKeeps ==
    ASSUME CacheInv, NEW i \in 1..MaxCalls, SetupDone(i)
    PROVE  CacheInv'
<1>1. setups \in Seq(KubeContexts) /\ i \in DOMAIN setups /\ setups' = RemoveAt(setups, i)
    BY DEF SetupDone, CacheInv, ChangeTypes
<1>2. setups[i] \in KubeContexts /\ setups' \in Seq(KubeContexts) /\ Len(setups') = Len(setups) - 1
    BY <1>1, Removed
<1>3. shownContext' \in KubeContexts
    BY <1>2 DEF SetupDone, CacheInv, ChangeTypes
<1>4. UNCHANGED <<base, served, since, queued, connecting, made, finishing, file, saves>>
    BY DEF SetupDone, changeVars
<1>5. TableTypes' /\ CallsSinceCleared' /\ ListedSinceCleared' /\ Len(lists') \in {Len(lists), Len(lists) + 1}
    BY <1>3, <1>4, LoadKeeps DEF SetupDone, CacheInv, TableTypes
<1>6. ChangeTypes'
    BY <1>2, <1>3, <1>4 DEF CacheInv, ChangeTypes
<1>7. Room'
    <2>1. Len(lists) \in Nat /\ Len(saves) \in Nat /\ Len(setups) \in Nat /\ Len(connecting) \in Nat
        BY LensAre DEF CacheInv
    <2> QED BY <1>2, <1>4, <1>5, <2>1, CacheAssumption DEF CacheInv, ChangeTypes, Room, UnderWay
<1> QED BY <1>3, <1>4, <1>5, <1>6, <1>7, CacheAssumption DEF CacheInv, NotYetShown

LEMMA AskForLoadKeeps ==
    ASSUME CacheInv, AskForLoad
    PROVE  CacheInv'
<1>1. UNCHANGED <<shownContext, setups, base, served, since, queued, connecting, made, finishing, file, saves>>
    BY DEF AskForLoad, changeVars
<1>2. shownContext' \in KubeContexts
    BY DEF AskForLoad, CacheInv, ChangeTypes
<1>3. TableTypes' /\ CallsSinceCleared' /\ ListedSinceCleared' /\ Len(lists') \in {Len(lists), Len(lists) + 1}
    BY <1>1, <1>2, LoadKeeps DEF AskForLoad, CacheInv, TableTypes
<1>4. ChangeTypes'
    BY <1>1 DEF CacheInv, ChangeTypes
<1>5. Room'
    <2>1. Len(lists) \in Nat /\ Len(saves) \in Nat /\ Len(setups) \in Nat /\ Len(connecting) \in Nat
        BY LensAre DEF CacheInv
    <2> QED BY <1>1, <1>3, <2>1, CacheAssumption DEF AskForLoad, CacheInv, ChangeTypes, Room, UnderWay
<1> QED BY <1>1, <1>2, <1>3, <1>4, <1>5, CacheAssumption DEF CacheInv, NotYetShown

(* The end of a change finds room for its two calls: it counts twice.      *)
LEMMA AnnounceKeeps ==
    ASSUME CacheInv, Announce
    PROVE  CacheInv'
<1>1. UNCHANGED <<shownContext, base, served, since, queued, connecting, made, file, saves>>
      /\ finishing' = finishing - 1 /\ finishing > 0
    BY DEF Announce
<1>2. shownContext' \in KubeContexts
    BY <1>1 DEF CacheInv, ChangeTypes, NotYetShown
<1>3. TableTypes' /\ CallsSinceCleared' /\ ListedSinceCleared' /\ Len(lists') \in {Len(lists), Len(lists) + 1}
    BY <1>1, <1>2, LoadKeeps DEF Announce
<1>4. setups' \in Seq(KubeContexts) /\ Len(setups') = Len(setups) + 1
    BY <1>1, <1>2, AppendProperties DEF Announce, CacheInv, ChangeTypes
<1>5. ChangeTypes'
    BY <1>1, <1>4 DEF CacheInv, ChangeTypes
<1>6. Room'
    <2>1. Len(lists) \in Nat /\ Len(saves) \in Nat /\ Len(setups) \in Nat /\ Len(connecting) \in Nat
        BY LensAre DEF CacheInv
    <2> QED BY <1>1, <1>3, <1>4, <2>1, CacheAssumption DEF CacheInv, ChangeTypes, Room, UnderWay
<1> QED BY <1>1, <1>2, <1>3, <1>5, <1>6, CacheAssumption DEF CacheInv, NotYetShown

-----------------------------------------------------------------------------

LEMMA CacheInit_Inv ==
    ASSUME CacheInit PROVE CacheInv
<1>1. 1 \in TableIds
    BY CacheAssumption DEF TableIds
<1>2. TableTypes
    <2>1. content \in [TableIds -> SUBSET Entries] /\ file \in [KubeContexts -> Files \cup {NoContext}]
        BY DEF CacheInit
    <2>2. lists \in Seq(Call) /\ saves \in Seq(TableIds)
        BY EmptySeq DEF CacheInit
    <2> QED BY <1>1, <2>1, <2>2 DEF CacheInit, TableTypes
<1>3. ChangeTypes
    BY EmptySeq DEF CacheInit, ChangeTypes
<1>4. Room
    BY CacheAssumption DEF CacheInit, Room, UnderWay
<1>5. content[table] = {} /\ DOMAIN lists = {}
    BY <1>1 DEF CacheInit
<1> QED BY <1>2, <1>3, <1>4, <1>5
        DEF CacheInit, CacheInv, NotYetShown, CallsSinceCleared, ListedSinceCleared

LEMMA CacheStep_Inv ==
    ASSUME CacheInv, [CacheNext]_cacheVars PROVE CacheInv'
<1>1. ASSUME NEW c \in KubeContexts, Open(c) \/ ClearCache(c) PROVE CacheInv'
    BY <1>1, OpenKeeps, ClearCacheKeeps
<1>2. ASSUME NEW i \in 1..MaxCalls, SetupDone(i) PROVE CacheInv'
    BY <1>2, SetupDoneKeeps
<1>3. CASE AskForLoad
    BY <1>3, AskForLoadKeeps
<1>4. ASSUME NEW i \in 1..MaxCalls, ListStep(i) PROVE CacheInv'
    <2>1. i \in DOMAIN lists
        BY <1>4 DEF ListStep, Ask, Listed, ListFailed
    <2> QED BY <1>4, <2>1, AskKeeps, ListedKeeps, ListFailedKeeps DEF ListStep
<1>5. CASE SaveStep
    BY <1>5, SaveKeeps
<1>6. CASE ReadConfig \/ Callback \/ \E i \in 1..MaxCalls : ClientsMade(i) \/ ClientsFailed(i)
    BY <1>6, ClientsKeep
<1>7. CASE Announce
    BY <1>7, AnnounceKeeps
<1>8. CASE UNCHANGED cacheVars
    BY <1>8 DEF cacheVars, changeVars, tableVars, CacheInv, TableTypes, ChangeTypes, Room, UnderWay, NotYetShown,
                CallsSinceCleared, ListedSinceCleared
<1> QED BY <1>1, <1>2, <1>3, <1>4, <1>5, <1>6, <1>7, <1>8 DEF CacheNext

LEMMA CacheInvHolds == CacheSpec => []CacheInv
<1> QED BY CacheInit_Inv, CacheStep_Inv, PTL DEF CacheSpec

(* However loads, failures, saves, kubeconfigs read late and changes of    *)
(* context overtake each other: what the cache has from a list is of a     *)
(* cluster that the client has talked to since the last change (cache.lua, *)
(* contexts/init.lua).                                                     *)
THEOREM ListedStaysSinceCleared == CacheSpec => []ListedSinceCleared
<1>1. CacheInv => ListedSinceCleared
    BY DEF CacheInv
<1> QED BY <1>1, CacheInvHolds, PTL

-----------------------------------------------------------------------------
(* One cluster in the table.                                               *)

\* No change of context begins while the call of another one connects.
\* Nothing in the code sees to it.  A change may begin while others wait for
\* a thread, while their ends are scheduled, and before kubeconfigs are read.
NoClearOverConnecting == \A c \in KubeContexts : ClearCache(c) => connecting = <<>>

\* What the cache has from a list is of the cluster of the client.
ListedIsOfServed == \A e \in content[table] : e.from = "list" => e.of = served

\* Calls connect to BASE_CONFIG, and there has been one client since the clear.
OneClient ==
    /\ \A i \in DOMAIN connecting : connecting[i] = base
    /\ served \in {NoContext, base}
    /\ since \subseteq {NoContext, served}
    /\ shownContext = NoContext /\ setups = <<>> => since \subseteq {NoContext}

LEMMA OneClientStep ==
    ASSUME CacheInv, OneClient, [CacheNext]_cacheVars, [NoClearOverConnecting]_cacheVars
    PROVE  OneClient'
<1>1. connecting \in Seq(KubeContexts) /\ setups \in Seq(KubeContexts)
    BY DEF CacheInv, ChangeTypes
<1>2. ASSUME UNCHANGED <<shownContext, setups, base, served, since, connecting>> PROVE OneClient'
    BY <1>2 DEF OneClient
<1>3. ASSUME NEW c \in KubeContexts, Open(c) PROVE OneClient'
    <2>1. Len(setups) = 0
        <3>1. Len(lists) \in Nat /\ Len(saves) \in Nat /\ Len(setups) \in Nat /\ Len(connecting) \in Nat
            BY LensAre DEF CacheInv
        <3> QED BY <1>3, <3>1 DEF Open, UnderWay, CacheInv, ChangeTypes
    <2>2. setups = <<>> /\ connecting = <<>>
        BY <1>1, <1>3, <2>1, EmptySeq DEF Open, CacheInv, NotYetShown
    <2>3. DOMAIN connecting' = {} /\ setups' # <<>>
        BY <1>3, <2>2 DEF Open
    <2> QED BY <1>3, <2>2, <2>3 DEF Open, OneClient
<1>4. ASSUME NEW c \in KubeContexts, ClearCache(c) PROVE OneClient'
    <2>1. connecting = <<>>
        <3>1. cacheVars' # cacheVars
            <4>1. queued' = queued + 1 /\ queued \in Nat
                BY <1>4 DEF ClearCache, CacheInv, ChangeTypes
            <4>2. queued' # queued
                BY <4>1
            <4> QED BY <4>2 DEF cacheVars, changeVars
        <3> QED BY <1>4, <3>1 DEF NoClearOverConnecting
    <2>2. DOMAIN connecting' = {}
        BY <1>4, <2>1 DEF ClearCache
    <2>3. shownContext' # NoContext
        BY <1>4, CacheAssumption DEF ClearCache
    <2> QED BY <1>4, <2>2, <2>3 DEF ClearCache, OneClient
<1>5. CASE ReadConfig
    <2>1. CASE base = NoContext
        BY <1>5, <2>1 DEF ReadConfig, OneClient
    <2>2. CASE base # NoContext
        <3>1. connecting' = Append(connecting, base) /\ base \in KubeContexts
            BY <1>5, <2>2 DEF ReadConfig, CacheInv, ChangeTypes
        <3>2. \A i \in DOMAIN connecting' : connecting'[i] = base \/ (i \in DOMAIN connecting /\ connecting'[i] = connecting[i])
            BY <1>1, <3>1
        <3> QED BY <1>5, <3>2 DEF ReadConfig, OneClient
    <2> QED BY <2>1, <2>2
<1>6. ASSUME NEW i \in 1..MaxCalls, ClientsMade(i) \/ ClientsFailed(i) PROVE OneClient'
    <2>1. i \in DOMAIN connecting /\ connecting' = RemoveAt(connecting, i)
        BY <1>6 DEF ClientsMade, ClientsFailed
    <2>2. \A k \in DOMAIN connecting' : \E j \in DOMAIN connecting : connecting'[k] = connecting[j]
        BY <1>1, <2>1, Removed
    <2>3. shownContext # NoContext
        BY <1>1, <2>1 DEF CacheInv, NotYetShown
    <2> QED BY <1>6, <2>1, <2>2, <2>3 DEF ClientsMade, ClientsFailed, OneClient
<1>7. ASSUME NEW i \in 1..MaxCalls, SetupDone(i) PROVE OneClient'
    <2>1. shownContext' # NoContext
        BY <1>1, <1>7, CacheAssumption DEF SetupDone
    <2> QED BY <1>7, <2>1 DEF SetupDone, changeVars, OneClient
<1>8. CASE Announce
    <2>1. shownContext # NoContext
        BY <1>8 DEF Announce, CacheInv, ChangeTypes, NotYetShown
    <2> QED BY <1>8, <2>1 DEF Announce, OneClient
<1>9. CASE Callback
    BY <1>2, <1>9 DEF Callback
<1>10. CASE AskForLoad \/ SaveStep \/ \E i \in 1..MaxCalls : ListStep(i)
    BY <1>2, <1>10 DEF AskForLoad, SaveStep, Save, SaveFailed, ListStep, Ask, Listed, ListFailed, changeVars
<1>11. CASE UNCHANGED cacheVars
    BY <1>2, <1>11 DEF cacheVars, changeVars
<1> QED BY <1>3, <1>4, <1>5, <1>6, <1>7, <1>8, <1>9, <1>10, <1>11 DEF CacheNext

(* When no change of context overtakes the connecting of another one, the  *)
(* cache has no list of any cluster but the one the client talks to (the   *)
(* name it is shown under may be another: state.lua).                      *)
THEOREM OneClusterListed == CacheSpec /\ [][NoClearOverConnecting]_cacheVars => []ListedIsOfServed
<1>1. CacheInit => OneClient
    <2>1. CacheInit => DOMAIN connecting = {}
        BY DEF CacheInit
    <2> QED BY <2>1 DEF CacheInit, OneClient
<1>2. CacheInv /\ OneClient => ListedIsOfServed
    <2>1. CacheInv => \A e \in content[table] : e.of # NoContext
        BY CacheAssumption DEF CacheInv, TableTypes, Entries
    <2> QED BY <2>1 DEF CacheInv, OneClient, ListedSinceCleared, ListedIsOfServed
<1> QED BY <1>1, <1>2, CacheInvHolds, OneClientStep, PTL DEF CacheSpec
=============================================================================
