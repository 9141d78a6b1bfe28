---------------------------- MODULE WatchedScopes ----------------------------
(***************************************************************************)
(* What the reflector store promises to the views that read it: each kind  *)
(* is watched in scopes that never overlap, all namespaces or some of      *)
(* them; a scope that is asked for once is watched from then on, within    *)
(* that scope or a wider one; and all watches end together or not at all.  *)
(* There are no tasks, workers or clients here.                            *)
(***************************************************************************)
CONSTANTS
    Kinds,
    Namespaces,
    All          \* every namespace

VARIABLES
    watched,  \* watched[k]: the scopes in which kind k is watched
    held      \* held[k][s]: the namespaces whose object of kind k scope s holds

scopeVars == <<watched, held>>

Scopes == Namespaces \cup {All}

Covered(k, s) == watched[k] \cap {s, All} # {}

ScopesInit ==
    /\ watched = [k \in Kinds |-> {}]
    /\ held = [k \in Kinds |-> [s \in Scopes |-> {}]]

(* A watch of all namespaces takes the place of all others, and begins     *)
(* with nothing as any other does.                                         *)
Watch(k, s) ==
    /\ ~ Covered(k, s)
    /\ watched' = [watched EXCEPT ![k] = IF s = All THEN {All} ELSE @ \cup {s}]
    /\ held' = [held EXCEPT ![k] = IF s = All THEN [r \in Scopes |-> {}] ELSE [@ EXCEPT ![s] = {}]]

(* A watch learns of objects, of those in its scope alone. *)
Learn(k, s) ==
    /\ s \in watched[k]
    /\ \E objs \in SUBSET (IF s = All THEN Namespaces ELSE {s}) :
          held' = [held EXCEPT ![k][s] = objs]
    /\ UNCHANGED watched

Forget ==
    /\ watched' = [k \in Kinds |-> {}]
    /\ held' = [k \in Kinds |-> [s \in Scopes |-> {}]]

ScopesNext ==
    \/ \E k \in Kinds, s \in Scopes : Watch(k, s) \/ Learn(k, s)
    \/ Forget

ScopesSpec == ScopesInit /\ [][ScopesNext]_scopeVars
==============================================================================
