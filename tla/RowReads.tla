------------------------------ MODULE RowReads ------------------------------
(***************************************************************************)
(* A table is read from the store of a kind while its reflector replaces   *)
(* the objects: the reader holds the objects it found, builds their rows   *)
(* in parallel, and takes the parsed form of an object from a cache that   *)
(* is keyed by the address of the object (processor.rs).  An address is    *)
(* used again as soon as nobody holds what was there.                      *)
(*                                                                         *)
(* A version is what a cluster has at one resource version, which stands   *)
(* for one object only; other clusters count on their own.                 *)
(***************************************************************************)
EXTENDS Processors

CONSTANTS
    Pool,          \* for each kind, the objects there may be
    Params,        \* for each kind, what a view may ask for
    Addresses,     \* where objects may lie
    NoRead,        \* no read under way, nothing shown
    MaxVersions,   \* bound: resource versions of a cluster
    MaxClusters    \* bound: clusters, one after the other

ASSUME RowReadsAssumption ==
    /\ DOMAIN Params = DOMAIN Pool
    /\ \A k \in DOMAIN Pool : \A o \in Pool[k] :
          "created" \in DOMAIN o /\ o = [f \in DOMAIN o |-> o[f]]
    /\ MaxVersions \in Nat /\ MaxClusters \in Nat

\* What a view asks for has the fields of FilterParams (processor.rs), a pattern
\* is there or is not to be; and the number of a field is a usize (utils.rs,
\* FieldValue), which has no more than 20 digits.
ASSUME TableAssumption ==
    /\ \A k \in DOMAIN Params : \A p \in Params[k] :
          /\ p = [sort_by |-> p.sort_by, sort_order |-> p.sort_order, filter |-> p.filter,
                  filter_label |-> p.filter_label, filter_key |-> p.filter_key]
          /\ \A pattern \in p.filter :
                pattern = [negative |-> pattern.negative, text |-> pattern.text] /\ pattern.negative \in BOOLEAN
    /\ Unset \notin Nat
    /\ \A k \in DOMAIN Pool : \A o \in Pool[k], age \in {other.created : other \in Pool[k]} :
          \A f \in ColumnsOf(k, <<>>).padded :
              LET n == Row(k, [o EXCEPT !.created = age])[f].sort_by
              IN  n # Unset => n \in Nat /\ Len(Digits(n)) <= 20

\* Of the containers of a pod as Kubernetes has them: one that waits is not ready,
\* and one that gives a reason in the colour of health has completed.
ASSUME PodAssumption ==
    /\ Words \in Seq(ToSet(Words) \ {""}) /\ \A i, j \in DOMAIN Words : Words[i] = Words[j] => i = j
    /\ {"Completed", "Running", "Terminating", "Unknown", "Init:", "Signal:", "ExitCode:"} \subseteq ToSet(Words)
    /\ \A pod \in UNION {Pool[k] : k \in DOMAIN Pool \cap {"Pod"}} :
          /\ \A list \in {pod.statuses, pod.inits, pod.initContainers} : list \in Seq(ToSet(list))
          /\ pod.inits # <<>> => pod.initContainers # <<>>
          /\ \A cs \in ToSet(pod.statuses) \cup ToSet(pod.inits) :
                /\ cs.reason \in {Unset, ""} \cup ToSet(Words)
                /\ {cs.signal, cs.code} \subseteq Nat
                /\ cs.state = "waiting" => ~cs.ready
                /\ cs.reason \in SuccessStatuses => cs.state = "terminated" /\ cs.reason = "Completed"

VARIABLES
    kind,     \* the kind that is read
    live,     \* the versions the cluster has now
    version,  \* its last resource version
    cluster,  \* which cluster it is
    memory,   \* the versions that lie in memory, by address
    arcs,    \* the addresses that the reflector's store holds
    cache,    \* RESOURCE_CACHE: the versions parsed, by address
    reader,   \* the read under way
    shown,    \* what the last read gave
    mixed     \* a read was under way when the cluster was switched

rowVars == <<kind, live, version, cluster, memory, arcs, cache, reader, shown, mixed>>

\* What the reader holds.
Held == IF reader = NoRead THEN {} ELSE ToSet(reader.items)

\* A map with one entry put in.
Put(map, a, v) == [b \in DOMAIN map \cup {a} |-> IF b = a THEN v ELSE map[b]]

RowInit ==
    /\ kind \in DOMAIN Pool
    /\ live = {} /\ version = 0 /\ cluster = 1
    /\ memory = <<>> /\ arcs = {} /\ cache = <<>>
    /\ reader = NoRead /\ shown = NoRead /\ mixed = FALSE

-----------------------------------------------------------------------------
(* The cluster and the reflector.                                          *)
Change ==
    /\ version < MaxVersions
    /\ version' = version + 1
    /\ \E o \in Pool[kind] :
        live' = {v \in live : v.o.name # o.name} \cup {[rv |-> version', o |-> o]}
    /\ UNCHANGED <<kind, cluster, memory, arcs, cache, reader, shown, mixed>>

\* An event or a list brings an object; the one of the same name goes.
Receive ==
    /\ \E v \in live, a \in Addresses \ DOMAIN memory :
        LET old == {b \in arcs : memory[b].o.name = v.o.name}
        IN  /\ \A b \in old : memory[b] # v
            /\ arcs' = (arcs \ old) \cup {a}
            /\ memory' = Put(Restrict(memory, DOMAIN memory \ (old \ Held)), a, v)
    /\ UNCHANGED <<kind, live, version, cluster, cache, reader, shown, mixed>>

\* A deletion, a list without it, or the end of the reflector.
Drop(a) ==
    /\ a \in arcs
    /\ arcs' = arcs \ {a}
    /\ memory' = Restrict(memory, DOMAIN memory \ ({a} \ Held))
    /\ UNCHANGED <<kind, live, version, cluster, cache, reader, shown, mixed>>

\* init_runtime: no reflector is left when the cache is cleared.
Switch ==
    /\ cluster < MaxClusters
    /\ cluster' = cluster + 1
    /\ live' = {} /\ version' = 0
    /\ arcs' = {}
    /\ memory' = Restrict(memory, Held)
    /\ cache' = <<>>
    /\ mixed' = (mixed \/ reader # NoRead)
    /\ UNCHANGED <<kind, reader, shown>>

-----------------------------------------------------------------------------
(* The read.                                                               *)
Get ==
    /\ reader = NoRead
    /\ \E params \in Params[kind] :
        LET items == SetToSeq({a \in arcs : Matches(memory[a].o, params)})
        IN  reader' = [params |-> params, items |-> items, parsed |-> [i \in DOMAIN items |-> Unset]]
    /\ UNCHANGED <<kind, live, version, cluster, memory, arcs, cache, shown, mixed>>

(* Mutant: what lies at the address is taken for the object. *)
ParsedByAddress(a) == IF a \in DOMAIN cache THEN cache[a] ELSE memory[a]

deserialize_cached(a) ==
    IF a \in DOMAIN cache /\ cache[a].rv = memory[a].rv THEN cache[a] ELSE memory[a]

Parse(i) ==
    /\ reader # NoRead
    /\ i \in DOMAIN reader.items /\ reader.parsed[i] = Unset
    /\ LET a == reader.items[i]
           parsed == deserialize_cached(a)
       IN  /\ cache' = Put(cache, a, parsed)
           /\ reader' = [reader EXCEPT !.parsed[i] = parsed]
    /\ UNCHANGED <<kind, live, version, cluster, memory, arcs, shown, mixed>>

\* The rows are built, sorted and filtered, and the objects let go.
Return ==
    /\ reader # NoRead
    /\ \A i \in DOMAIN reader.items : reader.parsed[i] # Unset
    /\ LET Object(i) == memory[reader.items[i]].o
           built == [i \in DOMAIN reader.items |->
                        Row(kind, [reader.parsed[i].o EXCEPT !.created = Object(i).created])]
       IN  shown' = [params |-> reader.params,
                     read |-> [i \in DOMAIN reader.items |-> [of |-> Object(i), row |-> built[i]]],
                     rows |-> process(kind, built, reader.params)]
    /\ reader' = NoRead
    /\ memory' = Restrict(memory, arcs)
    /\ UNCHANGED <<kind, live, version, cluster, arcs, cache, mixed>>

RowNext ==
    \/ Change
    \/ Receive
    \/ \E a \in Addresses : Drop(a)
    \/ Switch
    \/ Get
    \/ \E i \in 1..Cardinality(Addresses) : Parse(i)
    \/ Return

RowSpec == RowInit /\ [][RowNext]_rowVars

-----------------------------------------------------------------------------
(* Properties.                                                             *)

(* A row is that of the object it was read for, although the cache knows   *)
(* objects by an address that others have had before, as long as no read   *)
(* was under way when the cluster was switched (processor.rs,              *)
(* deserialize_cached; lib.rs, init_runtime).                              *)
RowIsOfObject ==
    shown # NoRead /\ ~mixed =>
        \A i \in DOMAIN shown.read : shown.read[i].row = Row(kind, shown.read[i].of)

(* A table sorted by a column of padded numbers is in the order of the     *)
(* numbers, whatever their lengths and with what has none below all        *)
(* others; and a pattern and its negation share the rows between them      *)
(* without changing their order (sort.rs, filter.rs, utils.rs).            *)
TableInOrder ==
    shown # NoRead =>
        LET rows == shown.rows
            by == shown.params.sort_by
            columns == ColumnsOf(kind, rows)
            Number(row) == IF row[by].sort_by = Unset THEN -1 ELSE row[by].sort_by
            With(patterns) == process(kind, [i \in DOMAIN shown.read |-> shown.read[i].row],
                                      [shown.params EXCEPT !.filter = patterns])
        IN  /\ by \in columns.padded =>
                   \A i, j \in DOMAIN rows : i < j =>
                        IF shown.params.sort_order = "desc" THEN Number(rows[i]) >= Number(rows[j])
                        ELSE Number(rows[i]) <= Number(rows[j])
            /\ \A pattern \in shown.params.filter :
                   LET kept == With({pattern})
                       left == With({[pattern EXCEPT !.negative = ~pattern.negative]})
                   IN  /\ ToSet(kept) \cap ToSet(left) = {}
                       /\ Len(kept) + Len(left) = Len(With({}))
                       /\ kept = Selected(With({}), {i \in DOMAIN With({}) : With({})[i] \in ToSet(kept)})

(* A pod whose status is in the colour of health hides no container that   *)
(* waits for an error behind it, but behind one further ahead that has     *)
(* completed; and none of its init containers fails (pod.rs).              *)
FailureShows ==
    shown # NoRead /\ kind = "Pod" =>
        \A i \in DOMAIN shown.read :
            LET pod == shown.read[i].of
                Failing(cs) ==
                    cs.state = "waiting" /\ IsGiven(cs.reason) /\ color_status(Spelled(cs.reason)) = "error"
                Completed(cs) == cs.state = "terminated" /\ cs.reason = "Completed"
            IN  Row(kind, pod)["status"].symbol = "success" =>
                    /\ \A c \in DOMAIN pod.statuses : Failing(pod.statuses[c]) =>
                            \E d \in 1..(c - 1) : Completed(pod.statuses[d])
                    /\ \A c \in DOMAIN pod.inits : ~Failing(pod.inits[c])
=============================================================================
