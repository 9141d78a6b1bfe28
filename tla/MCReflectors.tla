--------------------------- MODULE MCReflectors ---------------------------
(* Reflectors on small instances.  TLC has a fixed pool of tasks where    *)
(* tokio has none, so a request is only made while a task is left for it  *)
(* and for every request already on its way.                              *)
EXTENDS Reflectors, TLC

Free == {t \in Tasks : task[t].phase = "free"}
Pending == {w \in Workers : call[w].pc = "cloned"}

MCStartReflector(w, k, s) ==
    /\ Cardinality(Free) > Cardinality(Pending)
    /\ StartReflector(w, k, s)

MCNext ==
    \/ \E w \in Workers, k \in Kinds, s \in Scopes : MCStartReflector(w, k, s)
    \/ \E w \in Workers : WorkerStep(w)
    \/ \E t \in Tasks : TaskStep(t)
    \/ ShutdownAll
    \/ \E c \in Clients \cup {NoClient} : SetClient(c)
    \/ \E c \in Clients, k \in Kinds, n \in Namespaces : ClusterChanges(c, k, n)

MCSpec == Init /\ [][MCNext]_reflectorVars
MCFairSpec == MCSpec /\ Fairness

\* TLC has no set of pairs in a cfg; a run names one of these.
NothingUnwatchable == {}
OneClusterUnwatchable == {CHOOSE c \in Clients : TRUE} \X Kinds

Symmetry == Permutations(Namespaces) \cup Permutations(Tasks) \cup Permutations(Workers)
===========================================================================
