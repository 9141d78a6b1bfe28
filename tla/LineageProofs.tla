----------------------------- MODULE LineageProofs -----------------------------
(***************************************************************************)
(* What is proved about Lineage and LineageView, for any cluster, any      *)
(* resources and any number of loads and changes.  The queries of the      *)
(* graph are closures, computed by recursive functions; that each of them  *)
(* exists and returns the least closed set is proved from the              *)
(* well-foundedness of the strict subsets of a finite set.  The last part  *)
(* is about the phases of the view.                                        *)
(***************************************************************************)
EXTENDS LineageView, FiniteSetTheorems, SequenceTheorems, WellFoundedInduction, TLAPS

(* Among subsets of a finite set there is one with no smaller one in it.   *)
LEMMA SmallestMember ==
    ASSUME NEW N, IsFiniteSet(N), NEW T \in SUBSET SUBSET N, T # {}
    PROVE  \E s \in T : \A u \in T : u \subseteq s => u = s
<1> DEFINE R == StrictSubsetOrdering(N)
           F == FiniteSubsetsOf(N)
<1>1. IsWellFoundedOn(R, F)
    BY FS_StrictSubsetOrderingWellFounded
<1>2. T \subseteq F
    BY FS_Subset DEF FiniteSubsetsOf
<1>3. \E x \in T : \A y \in T : ~ (<<y, x>> \in R)
    <2> HIDE DEF R, F
    <2> QED BY <1>1, <1>2, WFMin
<1>4. PICK x \in T : \A y \in T : ~ (<<y, x>> \in R)
    BY <1>3
<1>5. ASSUME NEW u \in T, u \subseteq x, u # x PROVE FALSE
    <2>1. u \in SUBSET N /\ x \in SUBSET N
        OBVIOUS
    <2> QED BY <1>4, <1>5, <2>1 DEF StrictSubsetOrdering
<1> QED BY <1>5

(* And one with no larger one.                                            *)
LEMMA LargestMember ==
    ASSUME NEW N, IsFiniteSet(N), NEW T \in SUBSET SUBSET N, T # {}
    PROVE  \E s \in T : \A u \in T : s \subseteq u => u = s
<1> DEFINE C == {N \ s : s \in T}
<1>1. C \in SUBSET SUBSET N /\ C # {}
    <2>1. C \subseteq SUBSET N
        OBVIOUS
    <2>2. PICK t \in T : TRUE
        OBVIOUS
    <2>3. N \ t \in C
        OBVIOUS
    <2> QED BY <2>1, <2>3
<1>2. \E c \in C : \A u \in C : u \subseteq c => u = c
    <2> HIDE DEF C
    <2> QED BY <1>1, SmallestMember
<1>3. PICK c \in C : \A u \in C : u \subseteq c => u = c
    BY <1>2
<1>4. PICK s \in T : c = N \ s
    OBVIOUS
<1>5. ASSUME NEW u \in T, s \subseteq u PROVE u = s
    <2>1. N \ u \in C /\ N \ u \subseteq c
        BY <1>4, <1>5
    <2>2. N \ u = N \ s
        BY <1>3, <1>4, <2>1
    <2> QED BY <1>5, <2>2
<1> QED BY <1>5

\* The function that adds the next step to a set until nothing is new.
IsClosure(f, N, step) ==
    f = [s \in SUBSET N |-> IF step[s] \subseteq s THEN s ELSE f[s \cup step[s]]]

\* The least set with these keys that the step adds nothing to.
IsLeast(c, N, step, keys) ==
    /\ c \in SUBSET N /\ keys \subseteq c /\ step[c] \subseteq c
    /\ \A other \in SUBSET N : keys \subseteq other /\ step[other] \subseteq other => c \subseteq other

(* Whatever satisfies the recursive equation returns the least closed set. *)
LEMMA Closure ==
    ASSUME NEW N, IsFiniteSet(N), NEW step \in [SUBSET N -> SUBSET N],
           NEW f, IsClosure(f, N, step),
           \A a, b \in SUBSET N : a \subseteq b => step[a] \subseteq step[b],
           NEW keys \in SUBSET N
    PROVE  IsLeast(f[keys], N, step, keys)
<1> DEFINE Good(s) == /\ s \subseteq f[s] /\ f[s] \in SUBSET N
                      /\ step[f[s]] \subseteq f[s]
                      /\ \A c \in SUBSET N : s \subseteq c /\ step[c] \subseteq c => f[s] \subseteq c
           Bad == {s \in SUBSET N : ~Good(s)}
<1>1. \A s \in SUBSET N : f[s] = IF step[s] \subseteq s THEN s ELSE f[s \cup step[s]]
    BY DEF IsClosure
<1>2. ASSUME Bad # {} PROVE FALSE
    <2>1. Bad \in SUBSET SUBSET N
        OBVIOUS
    <2>2. \E s \in Bad : \A u \in Bad : s \subseteq u => u = s
        <3> HIDE DEF Bad
        <3> QED BY <1>2, <2>1, LargestMember
    <2>3. PICK s \in Bad : \A u \in Bad : s \subseteq u => u = s
        BY <2>2
    <2>4. s \in SUBSET N /\ step[s] \in SUBSET N /\ ~Good(s)
        OBVIOUS
    <2>5. CASE step[s] \subseteq s
        <3>1. f[s] = s
            BY <1>1, <2>4, <2>5
        <3> QED BY <3>1, <2>4, <2>5
    <2>6. CASE ~(step[s] \subseteq s)
        <3> DEFINE u == s \cup step[s]
        <3>1. f[s] = f[u]
            BY <1>1, <2>4, <2>6
        <3>2. u \in SUBSET N /\ s \subseteq u /\ u # s
            BY <2>4, <2>6
        <3>3. Good(u)
            BY <2>3, <3>2
        <3>4. ASSUME NEW c \in SUBSET N, s \subseteq c, step[c] \subseteq c PROVE f[s] \subseteq c
            <4>1. step[s] \subseteq step[c]
                BY <2>4, <3>4
            <4>2. u \subseteq c
                BY <4>1, <3>4
            <4> HIDE DEF u
            <4> QED BY <3>1, <3>3, <3>4, <4>2
        <3>5. s \subseteq f[s] /\ f[s] \in SUBSET N /\ step[f[s]] \subseteq f[s]
            <4> HIDE DEF u
            <4> QED BY <3>1, <3>2, <3>3
        <3> QED BY <2>4, <3>4, <3>5
    <2> QED BY <2>5, <2>6
<1> QED BY <1>2 DEF IsLeast

(* For a monotone step there is such a function.                           *)
LEMMA ClosureExists ==
    ASSUME NEW N, NEW step \in [SUBSET N -> SUBSET N],
           \A a, b \in SUBSET N : a \subseteq b => step[a] \subseteq step[b]
    PROVE  \E f : IsClosure(f, N, step)
<1> DEFINE Closed(s) == {c \in SUBSET N : s \subseteq c /\ step[c] \subseteq c}
           least == [s \in SUBSET N |-> {n \in N : \A c \in Closed(s) : n \in c}]
<1>1. ASSUME NEW s \in SUBSET N, step[s] \subseteq s PROVE least[s] = s
    <2>1. s \in Closed(s)
        BY <1>1
    <2> QED BY <2>1
<1>2. ASSUME NEW s \in SUBSET N PROVE least[s] = least[s \cup step[s]]
    <2>1. step[s] \in SUBSET N /\ s \cup step[s] \in SUBSET N
        OBVIOUS
    <2>2. \A c \in Closed(s) : step[s] \subseteq step[c]
        OBVIOUS
    <2>3. Closed(s) = Closed(s \cup step[s])
        BY <2>1, <2>2
    <2> HIDE DEF Closed
    <2> QED BY <2>1, <2>3
<1>3. least = [s \in SUBSET N |-> IF step[s] \subseteq s THEN s ELSE least[s \cup step[s]]]
    <2>1. \A s \in SUBSET N : least[s] = IF step[s] \subseteq s THEN s ELSE least[s \cup step[s]]
        BY <1>1, <1>2
    <2>2. least = [s \in SUBSET N |-> least[s]]
        OBVIOUS
    <2> HIDE DEF least
    <2> QED BY <2>1, <2>2
<1> HIDE DEF least
<1> QED BY <1>3 DEF IsClosure

\* The least set of nodes with these keys and all their children.
IsDown(t, keys, found) ==
    /\ found \in SUBSET t.nodes /\ keys \subseteq found /\ Children(t, found) \subseteq found
    /\ \A c \in SUBSET t.nodes : keys \subseteq c /\ Children(t, c) \subseteq c => found \subseteq c

(* Descendants is the least set closed under children, root aside.         *)
LEMMA DescendantsClosure ==
    ASSUME NEW t, IsFiniteSet(t.nodes), t.owns \subseteq t.nodes \X t.nodes, NEW keys \in SUBSET t.nodes
    PROVE  \E found : IsDown(t, keys, found) /\ Descendants(t, keys) = found \ {Root}
<1> DEFINE N == t.nodes
           step == [s \in SUBSET N |-> Children(t, s)]
           Fix(f) == f = [some \in SUBSET t.nodes |->
                            IF Children(t, some) \subseteq some THEN some ELSE f[some \cup Children(t, some)]]
           down == CHOOSE f : Fix(f)
<1>1. \A s \in SUBSET N : Children(t, s) \in SUBSET N
    BY DEF Children
<1>2. step \in [SUBSET N -> SUBSET N]
    BY <1>1
<1>3. \A a, b \in SUBSET N : a \subseteq b => step[a] \subseteq step[b]
    BY DEF Children
<1>4. \A f : Fix(f) <=> IsClosure(f, N, step)
    BY DEF IsClosure
<1>5. Fix(down)
    <2>1. \E f : IsClosure(f, N, step)
        <3> HIDE DEF step, N
        <3> QED BY <1>2, <1>3, ClosureExists
    <2>2. \E f : Fix(f)
        BY <1>4, <2>1
    <2> HIDE DEF Fix
    <2> QED BY <2>2
<1>6. Descendants(t, keys) = down[keys] \ {Root}
    BY DEF Descendants
<1>7. IsClosure(down, N, step)
    <2> HIDE DEF Fix, down
    <2> QED BY <1>4, <1>5
<1>8. IsLeast(down[keys], N, step, keys)
    <2>1. IsFiniteSet(N) /\ keys \in SUBSET N
        OBVIOUS
    <2> HIDE DEF down, step, N
    <2> QED BY <1>2, <1>3, <1>7, <2>1, Closure
<1>9. Children(t, down[keys]) \subseteq down[keys]
    <2> HIDE DEF down
    <2> QED BY <1>8 DEF IsLeast
<1>10. \A c \in SUBSET N : keys \subseteq c /\ Children(t, c) \subseteq c => down[keys] \subseteq c
    <2> HIDE DEF down
    <2> QED BY <1>8 DEF IsLeast
<1> HIDE DEF down, step
<1> QED BY <1>6, <1>8, <1>9, <1>10 DEF IsLeast, IsDown

\* The least set of nodes with these keys and all their parents.
IsUp(t, keys, found) ==
    /\ found \in SUBSET t.nodes /\ keys \subseteq found /\ Parents(t, found) \subseteq found
    /\ \A c \in SUBSET t.nodes : keys \subseteq c /\ Parents(t, c) \subseteq c => found \subseteq c

(* Ancestors is the least set closed under parents, root aside.            *)
LEMMA AncestorsClosure ==
    ASSUME NEW t, IsFiniteSet(t.nodes), t.owns \subseteq t.nodes \X t.nodes, NEW keys \in SUBSET t.nodes
    PROVE  \E found : IsUp(t, keys, found) /\ Ancestors(t, keys) = found \ {Root}
<1> DEFINE N == t.nodes
           step == [s \in SUBSET N |-> Parents(t, s)]
           Fix(f) == f = [some \in SUBSET t.nodes |->
                            IF Parents(t, some) \subseteq some THEN some ELSE f[some \cup Parents(t, some)]]
           up == CHOOSE f : Fix(f)
<1>1. \A s \in SUBSET N : Parents(t, s) \in SUBSET N
    BY DEF Parents
<1>2. step \in [SUBSET N -> SUBSET N]
    BY <1>1
<1>3. \A a, b \in SUBSET N : a \subseteq b => step[a] \subseteq step[b]
    BY DEF Parents
<1>4. \A f : Fix(f) <=> IsClosure(f, N, step)
    BY DEF IsClosure
<1>5. Fix(up)
    <2>1. \E f : IsClosure(f, N, step)
        <3> HIDE DEF step, N
        <3> QED BY <1>2, <1>3, ClosureExists
    <2>2. \E f : Fix(f)
        BY <1>4, <2>1
    <2> HIDE DEF Fix
    <2> QED BY <2>2
<1>6. Ancestors(t, keys) = up[keys] \ {Root}
    BY DEF Ancestors
<1>7. IsClosure(up, N, step)
    <2> HIDE DEF Fix, up
    <2> QED BY <1>4, <1>5
<1>8. IsLeast(up[keys], N, step, keys)
    <2>1. IsFiniteSet(N) /\ keys \in SUBSET N
        OBVIOUS
    <2> HIDE DEF up, step, N
    <2> QED BY <1>2, <1>3, <1>7, <2>1, Closure
<1>9. Parents(t, up[keys]) \subseteq up[keys]
    <2> HIDE DEF up
    <2> QED BY <1>8 DEF IsLeast
<1>10. \A c \in SUBSET N : keys \subseteq c /\ Parents(t, c) \subseteq c => up[keys] \subseteq c
    <2> HIDE DEF up
    <2> QED BY <1>8 DEF IsLeast
<1> HIDE DEF up, step
<1> QED BY <1>6, <1>8, <1>9, <1>10 DEF IsLeast, IsUp

(* A set of natural numbers has a least one.                               *)
LEMMA LeastNumber ==
    ASSUME NEW T \in SUBSET Nat, T # {}
    PROVE  \E m \in T : \A n \in T : m <= n
<1>1. PICK m \in T : \A n \in T : <<n, m>> \notin OpToRel(<, Nat)
    <2> DEFINE R == OpToRel(<, Nat)
    <2>1. IsWellFoundedOn(R, Nat)
        BY NatLessThanWellFounded
    <2> HIDE DEF R
    <2>2. \E x \in T : \A y \in T : ~ (<<y, x>> \in R)
        BY <2>1, WFMin
    <2> QED BY <2>2 DEF R
<1>2. \A n \in T : ~ (n < m)
    BY <1>1 DEF OpToRel
<1> QED BY <1>2

(* Induction over the natural numbers, stated with a set.                  *)
LEMMA SetInduction ==
    ASSUME NEW S, 0 \in S, \A n \in Nat : n \in S => n + 1 \in S
    PROVE  Nat \subseteq S
<1> SUFFICES ASSUME Nat \ S # {} PROVE FALSE
    OBVIOUS
<1>1. PICK m \in Nat \ S : \A n \in Nat \ S : m <= n
    BY LeastNumber
<1>2. m # 0 /\ m - 1 \in Nat
    BY <1>1
<1>3. m - 1 \in S
    BY <1>1, <1>2
<1> QED BY <1>1, <1>2, <1>3

-----------------------------------------------------------------------------
(* The first part of a key is the kind.                                    *)
LEMMA KeyFields == \A o : Key(o)[1] = o.kind
BY DEF Key

(* Whatever has been fetched, nothing a Pod runs with is an orphan: a Pod  *)
(* is among the consumers of claims and service accounts, and any reference *)
(* keeps a ConfigMap or a Secret (orphan_rules.rs).                        *)
LEMMA UsedAlways == UsedIsNoOrphan
<1> SUFFICES ASSUME NEW b \in DOMAIN builds, builds[b].stage = "stored",
                    NEW o \in Added(builds[b].of), o.kind = "Pod",
                    NEW node \in SerializedNodes(builds[b].of), node.is_orphan,
                    node.key[1] \in {"ConfigMap", "Secret", "PersistentVolumeClaim", "ServiceAccount"},
                    node.key \in Relations(o)
             PROVE  FALSE
    BY DEF UsedIsNoOrphan
<1> DEFINE t == BuildTree(builds[b].of)
<1>1. /\ t.objects = Added(builds[b].of)
      /\ RelationEdges(t.objects) \subseteq t.refs
    BY DEF BuildTree, LinkNodes
<1>2. PICK c \in t.objects : node = SerializedNode(t, c)
    BY DEF SerializedNodes
<1>3. node.key = Key(c) /\ IsOrphan(t, c)
    BY <1>2 DEF SerializedNode
<1> HIDE DEF t
<1>4. <<Key(o), Key(c)>> \in RelationEdges(t.objects)
    <2> DEFINE found == {f \in t.objects \X Keys(t.objects) : f[2] \in Relations(f[1])}
    <2>1. o \in t.objects /\ Key(c) \in Keys(t.objects) /\ Key(c) \in Relations(o)
        BY <1>1, <1>2, <1>3 DEF Keys
    <2>2. <<o, Key(c)>> \in found
        BY <2>1
    <2>3. <<Key(o), Key(c)>> \in {<<Key(f[1]), f[2]>> : f \in found}
        <3> HIDE DEF found
        <3> QED BY <2>2
    <2> HIDE DEF found
    <2> QED BY <2>3 DEF RelationEdges, found
<1>5. <<Key(o), Key(c)>> \in t.refs /\ Key(o)[1] = "Pod"
    BY <1>1, <1>4, KeyFields
<1>6. c.kind \in {"ConfigMap", "Secret", "PersistentVolumeClaim", "ServiceAccount"}
    BY <1>3, KeyFields
<1>7. ~NoIncomingRefs(t, c)
    BY <1>5 DEF NoIncomingRefs
<1>8. ASSUME NEW kinds, "Pod" \in kinds PROVE ~NoIncomingFrom(t, c, kinds)
    BY <1>5, <1>8 DEF NoIncomingFrom
<1>9. c.kind \notin {"ConfigMap", "Secret"}
    <2>1. CASE c.kind = "ConfigMap"
        <3>1. Consumers(c.kind) = {}
            BY <2>1 DEF Consumers
        <3> QED BY <1>3, <1>7, <2>1, <3>1 DEF IsOrphan, OrphanCondition
    <2>2. CASE c.kind = "Secret"
        <3>1. Consumers(c.kind) = {}
            BY <2>2 DEF Consumers
        <3> QED BY <1>3, <1>7, <2>2, <3>1 DEF IsOrphan, OrphanCondition
    <2> QED BY <2>1, <2>2
<1>10. CASE c.kind = "PersistentVolumeClaim"
    <2>1. Consumers(c.kind) = {"Pod", "StatefulSet"}
        BY <1>10 DEF Consumers
    <2>2. ~NoIncomingFrom(t, c, Consumers(c.kind)) /\ Consumers(c.kind) # {}
        BY <1>8, <2>1
    <2> QED BY <1>3, <1>10, <2>2 DEF IsOrphan, OrphanCondition
<1>11. CASE c.kind = "ServiceAccount"
    <2>1. "Pod" \in Consumers(c.kind)
        BY <1>11 DEF Consumers
    <2>2. ~NoIncomingFrom(t, c, Consumers(c.kind)) /\ Consumers(c.kind) # {}
        BY <1>8, <2>1
    <2> QED BY <1>3, <1>11, <2>2 DEF IsOrphan, OrphanCondition
<1> QED BY <1>6, <1>9, <1>10, <1>11

-----------------------------------------------------------------------------
\* The function that the fold of InSomeOrder computes.
IsOrdering(f, S) ==
    f = [s \in SUBSET S |-> IF s = {} THEN <<>>
                            ELSE LET x == CHOOSE x \in s : TRUE IN Append(f[s \ {x}], x)]

(* What the fold of InSomeOrder returns is a sequence over the set.        *)
LEMMA OrderingIsSequence ==
    ASSUME NEW S, IsFiniteSet(S), NEW f, IsOrdering(f, S)
    PROVE  \A s \in SUBSET S : f[s] \in Seq(S)
<1> DEFINE Bad == {s \in SUBSET S : f[s] \notin Seq(S)}
<1>1. ASSUME Bad # {} PROVE FALSE
    <2>1. \E s \in Bad : \A u \in Bad : u \subseteq s => u = s
        <3>1. Bad \in SUBSET SUBSET S
            OBVIOUS
        <3> HIDE DEF Bad
        <3> QED BY <1>1, <3>1, SmallestMember
    <2>2. PICK s \in Bad : \A u \in Bad : u \subseteq s => u = s
        BY <2>1
    <2>3. CASE s = {}
        <3>1. f[s] = <<>>
            BY <2>3 DEF IsOrdering
        <3> QED BY <2>2, <3>1, EmptySeq
    <2>4. CASE s # {}
        <3> DEFINE x == CHOOSE x \in s : TRUE
        <3>1. x \in s
            BY <2>4
        <3>2. f[s] = Append(f[s \ {x}], x)
            BY <2>4 DEF IsOrdering
        <3> HIDE DEF x
        <3>3. s \ {x} \in SUBSET S /\ s \ {x} # s /\ x \in S
            BY <3>1
        <3>4. f[s \ {x}] \in Seq(S)
            BY <2>2, <3>3
        <3>5. Append(f[s \ {x}], x) \in Seq(S)
            BY <3>3, <3>4, AppendProperties
        <3> QED BY <2>2, <3>2, <3>5
    <2> QED BY <2>3, <2>4
<1> QED BY <1>1

(* There is such a fold for every finite set.                              *)
LEMMA OrderingExists ==
    ASSUME NEW S, IsFiniteSet(S)
    PROVE  \E f : IsOrdering(f, S)
<1> DEFINE Some(n) == {s \in SUBSET S : Cardinality(s) <= n}
           On(f, n) == f = [s \in Some(n) |-> IF s = {} THEN <<>>
                             ELSE LET x == CHOOSE x \in s : TRUE IN Append(f[s \ {x}], x)]
           Good == {n \in Nat : \E f : On(f, n)}
<1>1. \A s \in SUBSET S : IsFiniteSet(s) /\ Cardinality(s) \in Nat
    BY FS_Subset, FS_CardinalityType
<1>2. 0 \in Good
    <2>1. Some(0) = {{}}
        BY <1>1, FS_EmptySet
    <2>2. On([s \in {{}} |-> <<>>], 0)
        <3> HIDE DEF Some
        <3> QED BY <2>1
    <2> HIDE DEF On
    <2> QED BY <2>2
<1>3. ASSUME NEW n \in Nat, n \in Good PROVE n + 1 \in Good
    <2>1. PICK f : On(f, n)
        BY <1>3
    <2> DEFINE Next1(s) == IF s = {} THEN <<>>
                           ELSE LET x == CHOOSE x \in s : TRUE IN Append(f[s \ {x}], x)
               g == [s \in Some(n + 1) |-> Next1(s)]
    <2>2. \A s \in Some(n) : f[s] = Next1(s) /\ s \in Some(n + 1) /\ g[s] = f[s]
        <3>1. \A s \in Some(n) : f[s] = Next1(s)
            <4> HIDE DEF Some
            <4> QED BY <2>1
        <3>2. Some(n) \subseteq Some(n + 1)
            BY <1>1
        <3> HIDE DEF Some, Next1
        <3> QED BY <3>1, <3>2
    <2>3. \A s \in Some(n + 1) : \A x \in s : s \ {x} \in Some(n)
        <3> SUFFICES ASSUME NEW s \in Some(n + 1), NEW x \in s PROVE s \ {x} \in Some(n)
            OBVIOUS
        <3>1. s \in SUBSET S /\ IsFiniteSet(s) /\ Cardinality(s) \in Nat /\ Cardinality(s) <= n + 1
            BY <1>1
        <3>2. Cardinality(s \ {x}) = Cardinality(s) - 1
            BY <3>1, FS_RemoveElement
        <3> QED BY <3>1, <3>2
    <2>4. \A s \in Some(n + 1) : g[s] = IF s = {} THEN <<>>
                           ELSE LET x == CHOOSE x \in s : TRUE IN Append(g[s \ {x}], x)
        <3> SUFFICES ASSUME NEW s \in Some(n + 1), s # {}
                     PROVE  LET x == CHOOSE x \in s : TRUE IN g[s] = Append(g[s \ {x}], x)
            OBVIOUS
        <3> DEFINE x == CHOOSE x \in s : TRUE
        <3>1. x \in s
            OBVIOUS
        <3>2. g[s] = Append(f[s \ {x}], x)
            OBVIOUS
        <3>3. g[s \ {x}] = f[s \ {x}]
            <4> HIDE DEF x, Some, g
            <4> QED BY <2>2, <2>3, <3>1
        <3> HIDE DEF g
        <3> QED BY <3>2, <3>3
    <2>5. On(g, n + 1)
        <3>1. g = [s \in Some(n + 1) |-> g[s]]
            OBVIOUS
        <3> HIDE DEF g, Some
        <3> QED BY <2>4, <3>1
    <2> HIDE DEF g, On
    <2> QED BY <2>5
<1>4. Nat \subseteq Good
    <2> HIDE DEF Good
    <2> QED BY <1>2, <1>3, SetInduction
<1>5. Cardinality(S) \in Nat /\ Some(Cardinality(S)) = SUBSET S
    BY <1>1, FS_Subset
<1>6. PICK f : On(f, Cardinality(S))
    BY <1>4, <1>5
<1>7. IsOrdering(f, S)
    <2> HIDE DEF Some
    <2> QED BY <1>5, <1>6 DEF IsOrdering
<1> QED BY <1>7

(* The objects of an answer are kept one after the other.                  *)
LEMMA InSomeOrderIsSequence ==
    ASSUME NEW S, IsFiniteSet(S)
    PROVE  InSomeOrder(S) \in Seq(S)
<1> DEFINE iter == CHOOSE f : IsOrdering(f, S)
<1>1. InSomeOrder(S) = iter[S]
    BY DEF InSomeOrder, FoldSet, MapThenFoldSet, IsOrdering
<1>2. IsOrdering(iter, S)
    BY OrderingExists
<1> HIDE DEF iter
<1> QED BY <1>1, <1>2, OrderingIsSequence

-----------------------------------------------------------------------------
\* What the proofs use of a tree over objects of S.
IsTree(t, S) ==
    /\ t.objects \in SUBSET S /\ IsFiniteSet(t.objects)
    /\ IsFiniteSet(t.nodes)
    /\ t.nodes = Keys(t.objects) \cup {Root}
    /\ Root \notin Keys(t.objects)
    /\ t.owns = {<<ParentKey(t.objects, o), Key(o)>> : o \in t.objects}
    /\ t.refs = RelationEdges(t.objects) \cup SelectorEdges(t.objects)
    /\ \A a, b \in t.objects : Key(a) = Key(b) => a = b

(* The image of a finite set is finite.                                    *)
LEMMA FiniteImage ==
    ASSUME NEW S, IsFiniteSet(S), NEW T, NEW f \in [S -> T], \A y \in T : \E x \in S : f[x] = y
    PROVE  IsFiniteSet(T)
<1>1. f \in Surjection(S, T)
    BY DEF Surjection
<1> QED BY <1>1, FS_Surjection

(* add_node keeps finitely many objects, one for each key.                 *)
LEMMA AddedObjects ==
    ASSUME NEW S, NEW rs \in Seq(S)
    PROVE  /\ Added(rs) \in SUBSET S /\ IsFiniteSet(Added(rs))
           /\ \A a, b \in Added(rs) : Key(a) = Key(b) => a = b
<1> DEFINE First == {i \in DOMAIN rs : \A j \in 1..(i - 1) : Key(rs[j]) # Key(rs[i])}
<1>1. /\ Len(rs) \in Nat /\ DOMAIN rs = 1..Len(rs)
      /\ \A i \in DOMAIN rs : rs[i] \in S
    BY LenProperties, ElementOfSeq
<1>2. Added(rs) = {rs[i] : i \in First}
    BY DEF Added
<1>3. Added(rs) \in SUBSET S
    BY <1>1, <1>2
<1>4. IsFiniteSet(Added(rs))
    <2>1. IsFiniteSet(First)
        <3>1. IsFiniteSet(1..Len(rs)) /\ First \in SUBSET (1..Len(rs))
            BY <1>1, FS_Interval
        <3> HIDE DEF First
        <3> QED BY <3>1, FS_Subset
    <2> DEFINE f == [i \in First |-> rs[i]]
    <2>2. f \in [First -> Added(rs)] /\ \A y \in Added(rs) : \E i \in First : f[i] = y
        <3> HIDE DEF First
        <3> QED BY <1>2
    <2> HIDE DEF f, First
    <2> QED BY <2>1, <2>2, FiniteImage
<1>5. ASSUME NEW i \in First, NEW j \in First, Key(rs[i]) = Key(rs[j]) PROVE rs[i] = rs[j]
    <2>1. i \in Nat /\ j \in Nat /\ 1 <= i /\ 1 <= j
        BY <1>1
    <2>2. ~(i < j) /\ ~(j < i)
        BY <1>5, <2>1
    <2> QED BY <2>1, <2>2
<1>6. \A a, b \in Added(rs) : Key(a) = Key(b) => a = b
    <2> HIDE DEF First
    <2> QED BY <1>2, <1>5
<1> QED BY <1>3, <1>4, <1>6

(* What is built from fetched objects is a tree.                           *)
LEMMA BuiltTree ==
    ASSUME NEW S, NEW rs \in Seq(S), \A o \in S : o.kind \in Kinds
    PROVE  IsTree(BuildTree(rs), S)
<1> DEFINE t == BuildTree(rs)
<1>1. /\ t.objects = Added(rs)
      /\ t.nodes = Keys(t.objects) \cup {Root}
      /\ t.owns = {<<ParentKey(t.objects, o), Key(o)>> : o \in t.objects}
      /\ t.refs = RelationEdges(t.objects) \cup SelectorEdges(t.objects)
    BY DEF BuildTree, LinkNodes
<1> HIDE DEF t
<1>2. /\ t.objects \in SUBSET S /\ IsFiniteSet(t.objects)
      /\ \A a, b \in t.objects : Key(a) = Key(b) => a = b
    BY <1>1, AddedObjects
<1>3. IsFiniteSet(Keys(t.objects))
    <2> DEFINE f == [o \in t.objects |-> Key(o)]
    <2>1. f \in [t.objects -> Keys(t.objects)] /\ \A y \in Keys(t.objects) : \E o \in t.objects : f[o] = y
        BY DEF Keys
    <2> HIDE DEF f
    <2> QED BY <1>2, <2>1, FiniteImage
<1>4. IsFiniteSet(t.nodes)
    BY <1>1, <1>3, FS_AddElement
<1>5. Root \notin Keys(t.objects)
    <2> SUFFICES ASSUME NEW o \in t.objects, Key(o) = Root PROVE FALSE
        BY DEF Keys
    <2>1. o.kind = "cluster"
        BY DEF Key, Root
    <2> QED BY <1>2, <2>1, LineageAssumption
<1>6. IsTree(t, S)
    BY <1>1, <1>2, <1>4, <1>5 DEF IsTree
<1> QED BY <1>6 DEF t

(* Every node but the root has exactly one parent, and the root has none.  *)
LEMMA OwnsEdges ==
    ASSUME NEW S, NEW t, IsTree(t, S)
    PROVE  /\ t.owns \subseteq t.nodes \X t.nodes
           /\ \A e \in t.owns : e = <<e[1], e[2]>> /\ e[1] \in t.nodes /\ e[2] \in t.nodes \ {Root}
           /\ \A e, f \in t.owns : e[2] = f[2] => e[1] = f[1]
           /\ \A k \in t.nodes \ {Root} : \E p \in t.nodes : <<p, k>> \in t.owns
<1>1. \A o \in t.objects : ParentKey(t.objects, o) \in t.nodes /\ Key(o) \in t.nodes \ {Root}
    BY DEF IsTree, ParentKey, Keys
<1>2. \A e \in t.owns : \E o \in t.objects : e = <<ParentKey(t.objects, o), Key(o)>>
    BY DEF IsTree
<1>3. \A k \in t.nodes \ {Root} : \E o \in t.objects : k = Key(o) /\ <<ParentKey(t.objects, o), Key(o)>> \in t.owns
    BY DEF IsTree, Keys
<1>4. \A a, b \in t.objects : Key(a) = Key(b) => a = b
    BY DEF IsTree
<1>5. \A e \in t.owns : e = <<e[1], e[2]>> /\ e[1] \in t.nodes /\ e[2] \in t.nodes \ {Root}
    BY <1>1, <1>2
<1>6. \A e, f \in t.owns : e[2] = f[2] => e[1] = f[1]
    BY <1>2, <1>4
<1>7. t.owns \subseteq t.nodes \X t.nodes
    BY <1>5
<1>8. \A k \in t.nodes \ {Root} : \E p \in t.nodes : <<p, k>> \in t.owns
    BY <1>1, <1>3
<1> QED BY <1>5, <1>6, <1>7, <1>8

(* References are between objects.                                         *)
LEMMA RefsEdges ==
    ASSUME NEW S, NEW t, IsTree(t, S)
    PROVE  \A e \in t.refs : e = <<e[1], e[2]>> /\ e[1] \in Keys(t.objects) /\ e[2] \in Keys(t.objects)
<1>1. \A e \in RelationEdges(t.objects) :
        e = <<e[1], e[2]>> /\ e[1] \in Keys(t.objects) /\ e[2] \in Keys(t.objects)
    BY DEF RelationEdges, Keys
<1>2. \A e \in SelectorEdges(t.objects) :
        e = <<e[1], e[2]>> /\ e[1] \in Keys(t.objects) /\ e[2] \in Keys(t.objects)
    BY DEF SelectorEdges, Keys
<1> QED BY <1>1, <1>2 DEF IsTree

(* A relation whose target is there is an edge.                            *)
LEMMA RelationEdge ==
    ASSUME NEW S, NEW t, IsTree(t, S), NEW o \in t.objects, NEW key \in Relations(o) \cap Keys(t.objects)
    PROVE  <<Key(o), key>> \in t.refs
<1> DEFINE found == {f \in t.objects \X Keys(t.objects) : f[2] \in Relations(f[1])}
<1>1. <<o, key>> \in found
    OBVIOUS
<1>2. <<Key(o), key>> \in {<<Key(f[1]), f[2]>> : f \in found}
    <2> HIDE DEF found
    <2> QED BY <1>1
<1>3. <<Key(o), key>> \in RelationEdges(t.objects)
    <2> HIDE DEF found
    <2> QED BY <1>2 DEF RelationEdges, found
<1> QED BY <1>3 DEF IsTree

(* No handler takes the kind of the root.                                  *)
LEMMA HandlerKinds == \A kind : \A p \in Handler(kind) : "cluster" \notin p.kinds
BY LineageAssumption DEF Handler, Read, EnvFields, VolumeFields, PodSpecFields, ControllerFields,
   JobFields, PodFields, StatefulSetFields, IngressFields, IngressClassFields, VolumeClaimFields,
   VolumeOfClusterFields, ServiceAccountFields, RoleBindingFields, ClusterRoleBindingFields,
   WebhookFields, ApiServiceFields, AutoscalerFields, EventFields

(* So nothing refers to the root.                                          *)
LEMMA RelationsOfObjects == \A o : Root \notin Relations(o)
<1> SUFFICES ASSUME NEW o, Root \in Relations(o) PROVE FALSE
    OBVIOUS
<1>1. PICK p \in o.refs \X Handler(o.kind) : p[1].kind \in p[2].kinds /\ Root[1] = p[1].kind
    BY DEF Relations
<1> QED BY <1>1, HandlerKinds DEF Root

(* The impact of an object takes in what refers to it and all that owns    *)
(* (tree.rs, compute_impact).                                              *)
LEMMA ImpactOfTree ==
    ASSUME NEW S, NEW t, IsTree(t, S), NEW o \in t.objects, NEW key \in Relations(o) \cap t.nodes
    PROVE  /\ Key(o) \in ComputeImpact(t, key)
           /\ \A e \in t.owns : e[1] \in ComputeImpact(t, key) => e[2] \in ComputeImpact(t, key)
<1> DEFINE direct == {e[1] : e \in {e \in t.refs : e[2] = key}}
<1>1. key \in Keys(t.objects)
    BY RelationsOfObjects DEF IsTree
<1>2. Key(o) \in direct
    <2>1. <<Key(o), key>> \in t.refs
        BY <1>1, RelationEdge
    <2> QED BY <2>1
<1>3. direct \in SUBSET t.nodes /\ Root \notin direct
    <2>1. \A e \in t.refs : e[1] \in Keys(t.objects)
        BY RefsEdges
    <2> QED BY <2>1 DEF IsTree
<1>4. ComputeImpact(t, key) = direct \cup Descendants(t, direct)
    BY DEF ComputeImpact
<1> HIDE DEF direct
<1>5. IsFiniteSet(t.nodes) /\ t.owns \subseteq t.nodes \X t.nodes
    BY OwnsEdges DEF IsTree
<1>6. PICK found : IsDown(t, direct, found) /\ Descendants(t, direct) = found \ {Root}
    BY <1>3, <1>5, DescendantsClosure
<1>7. ComputeImpact(t, key) = found \ {Root}
    BY <1>3, <1>4, <1>6 DEF IsDown
<1>8. ASSUME NEW e \in t.owns, e[1] \in found PROVE e[2] \in found \ {Root}
    <2>1. e[2] \in Children(t, found)
        BY <1>8 DEF Children
    <2> QED BY <1>6, <2>1, OwnsEdges DEF IsDown
<1> QED BY <1>2, <1>4, <1>7, <1>8

-----------------------------------------------------------------------------
\* All objects that may be fetched.
Objects == UNION Worlds

\* No cycle of owners: an owner is there before what it owns is made.
OwnersComeFirst(S) ==
    \A some \in SUBSET S : IsFiniteSet(some) /\ some # {} =>
        \E o \in some : o.owners = <<>> \/ OwnerKey(o) \notin Keys(some)

(* In a set of objects there is one whose parent is not in the set.        *)
LEMMA Grounded ==
    ASSUME NEW S, OwnersComeFirst(S), NEW t, IsTree(t, S), NEW bad \in SUBSET Keys(t.objects), bad # {}
    PROVE  \E k \in bad : \E p \in t.nodes \ bad : <<p, k>> \in t.owns
<1> DEFINE some == {o \in t.objects : Key(o) \in bad}
<1>1. some \in SUBSET S /\ IsFiniteSet(some) /\ some # {}
    BY FS_Subset DEF IsTree, Keys
<1>2. PICK o \in some : o.owners = <<>> \/ OwnerKey(o) \notin Keys(some)
    <2> HIDE DEF some
    <2> QED BY <1>1 DEF OwnersComeFirst
<1>3. ParentKey(t.objects, o) \in t.nodes \ bad
    <2>1. Root \notin bad
        BY DEF IsTree
    <2>2. \A k \in bad : k \in Keys(some)
        BY DEF Keys
    <2> QED BY <1>2, <2>1, <2>2 DEF IsTree, ParentKey
<1>4. <<ParentKey(t.objects, o), Key(o)>> \in t.owns /\ Key(o) \in bad
    BY DEF IsTree
<1> QED BY <1>3, <1>4

(* Children and parents of a set, edge by edge.                            *)
LEMMA ChildIn == \A t, keys : \A e \in t.owns : e[1] \in keys => e[2] \in Children(t, keys)
BY DEF Children

LEMMA ParentIn == \A t, keys : \A e \in t.owns : e[2] \in keys => e[1] \in Parents(t, keys)
BY DEF Parents

(* Where owners come first, every object is below the root (tree.rs,       *)
(* link_nodes).                                                            *)
LEMMA AllBelowRoot ==
    ASSUME NEW S, OwnersComeFirst(S), NEW t, IsTree(t, S)
    PROVE  Descendants(t, {Root}) = t.nodes \ {Root}
<1>1. IsFiniteSet(t.nodes) /\ t.owns \subseteq t.nodes \X t.nodes /\ {Root} \in SUBSET t.nodes
    BY OwnsEdges DEF IsTree
<1>2. PICK found : IsDown(t, {Root}, found) /\ Descendants(t, {Root}) = found \ {Root}
    BY <1>1, DescendantsClosure
<1> DEFINE bad == Keys(t.objects) \ found
<1>3. ASSUME bad # {} PROVE FALSE
    <2>1. PICK k \in bad : \E p \in t.nodes \ bad : <<p, k>> \in t.owns
        <3>1. bad \in SUBSET Keys(t.objects)
            OBVIOUS
        <3> HIDE DEF bad
        <3> QED BY <1>3, <3>1, Grounded
    <2>2. PICK p \in t.nodes \ bad : <<p, k>> \in t.owns
        BY <2>1
    <2>3. p \in found
        BY <1>2, <2>2 DEF IsTree, IsDown
    <2>4. k \in Children(t, found)
        BY <2>2, <2>3, ChildIn
    <2> QED BY <1>2, <2>4 DEF IsDown
<1> QED BY <1>2, <1>3 DEF IsTree, IsDown

\* The least set of objects with these keys and all they own.
IsBelow(t, keys, d) ==
    /\ d \in SUBSET Keys(t.objects) /\ keys \subseteq d /\ Children(t, d) \subseteq d
    /\ \A c \in SUBSET t.nodes : keys \subseteq c /\ Children(t, c) \subseteq c => d \subseteq c

(* The descendants of objects are closed themselves.                       *)
LEMMA DescendantsAreBelow ==
    ASSUME NEW S, NEW t, IsTree(t, S), NEW keys \in SUBSET Keys(t.objects)
    PROVE  IsBelow(t, keys, Descendants(t, keys))
<1>1. IsFiniteSet(t.nodes) /\ t.owns \subseteq t.nodes \X t.nodes
    BY OwnsEdges DEF IsTree
<1>2. Keys(t.objects) = t.nodes \ {Root}
    BY DEF IsTree
<1>3. keys \in SUBSET t.nodes
    BY <1>2
<1>4. PICK found : IsDown(t, keys, found) /\ Descendants(t, keys) = found \ {Root}
    BY <1>1, <1>3, DescendantsClosure
<1>5. Children(t, found \ {Root}) \subseteq found \ {Root}
    <2> SUFFICES ASSUME NEW k \in Children(t, found \ {Root}) PROVE k \in found \ {Root}
        OBVIOUS
    <2>1. PICK e \in t.owns : e[1] \in found /\ e[2] = k
        BY DEF Children
    <2>2. k \in found
        BY <1>4, <2>1, ChildIn DEF IsDown
    <2> QED BY <2>1, <2>2, OwnsEdges
<1>6. found \subseteq found \ {Root}
    BY <1>2, <1>3, <1>4, <1>5 DEF IsDown
<1> QED BY <1>2, <1>4, <1>5, <1>6 DEF IsBelow, IsDown

\* The topmost owner of an object.
Top(t, key) == Ancestors(t, {key}) \cap Children(t, {Root})

(* What is below an object's ancestors is below the topmost of them.       *)
LEMMA SameTree ==
    ASSUME NEW S, OwnersComeFirst(S), NEW t, IsTree(t, S), NEW key \in Keys(t.objects)
    PROVE  Descendants(t, Ancestors(t, {key})) = Descendants(t, Top(t, key))
<1>1. IsFiniteSet(t.nodes) /\ t.owns \subseteq t.nodes \X t.nodes /\ {key} \in SUBSET t.nodes
    BY OwnsEdges DEF IsTree
<1>2. PICK above : IsUp(t, {key}, above) /\ Ancestors(t, {key}) = above \ {Root}
    BY <1>1, AncestorsClosure
<1> DEFINE line == Ancestors(t, {key})
           top == Top(t, key)
           all == Descendants(t, line)
           below == Descendants(t, top)
<1>3. line \in SUBSET Keys(t.objects) /\ top \in SUBSET Keys(t.objects) /\ top \subseteq line
    BY <1>2 DEF Top, IsTree, IsUp
<1>4. IsBelow(t, line, all)
    <2> HIDE DEF line
    <2> QED BY <1>3, DescendantsAreBelow
<1>5. IsBelow(t, top, below)
    <2> HIDE DEF top
    <2> QED BY <1>3, DescendantsAreBelow
<1>6. all \in SUBSET t.nodes /\ below \in SUBSET t.nodes
    BY <1>4, <1>5 DEF IsBelow, IsTree
<1>7. below \subseteq all
    <2> HIDE DEF all, below, line, top
    <2> QED BY <1>3, <1>4, <1>5, <1>6 DEF IsBelow
<1>8. line \subseteq below
    <2> DEFINE bad == line \ below
    <2> SUFFICES ASSUME bad # {} PROVE FALSE
        OBVIOUS
    <2>1. bad \in SUBSET Keys(t.objects)
        BY <1>3
    <2>2. PICK k \in bad : \E p \in t.nodes \ bad : <<p, k>> \in t.owns
        <3> HIDE DEF bad
        <3> QED BY <2>1, Grounded
    <2>3. PICK p \in t.nodes \ bad : <<p, k>> \in t.owns
        BY <2>2
    <2>4. p \in above
        <3>1. k \in above
            BY <1>2 DEF IsUp
        <3>2. p \in Parents(t, above)
            BY <2>3, <3>1, ParentIn
        <3> QED BY <1>2, <3>2 DEF IsUp
    <2>5. p # Root
        <3> SUFFICES ASSUME p = Root PROVE FALSE
            OBVIOUS
        <3>1. k \in Children(t, {Root})
            BY <2>3, ChildIn
        <3> QED BY <1>2, <1>5, <2>2, <3>1 DEF Top, IsBelow
    <2>6. p \in below
        BY <1>2, <2>3, <2>4, <2>5
    <2>7. k \in Children(t, below)
        BY <2>3, <2>6, ChildIn
    <2> QED BY <1>5, <2>2, <2>7 DEF IsBelow
<1>9. all \subseteq below
    <2> HIDE DEF all, below, line, top
    <2> QED BY <1>4, <1>5, <1>8, <1>6 DEF IsBelow
<1> QED BY <1>7, <1>9

(* An exported node has an edge in the export, unless it was asked for     *)
(* (query.rs, extract_subgraph).                                           *)
LEMMA NothingAlone ==
    ASSUME NEW S, NEW t, IsTree(t, S), NEW key \in Keys(t.objects),
           NEW node \in ExtractSubgraph(t, key).nodes \ {key}
    PROVE  \E e \in ExtractSubgraph(t, key).edges : node \in {e[1], e[2]}
<1> DEFINE mine == Descendants(t, Ancestors(t, {key}))
           nodes == RelatedItems(t, key)
<1>1. /\ ExtractSubgraph(t, key).nodes = nodes
      /\ ExtractSubgraph(t, key).edges = (t.owns \cup t.refs) \cap (nodes \X nodes)
    BY DEF ExtractSubgraph
<1>2. nodes = mine \cup {e[2] : e \in {e \in t.refs : e[1] \in mine}}
    BY DEF RelatedItems, WithReferences
<1>3. IsFiniteSet(t.nodes) /\ t.owns \subseteq t.nodes \X t.nodes /\ {key} \in SUBSET t.nodes
    BY OwnsEdges DEF IsTree
<1>4. PICK above : IsUp(t, {key}, above) /\ Ancestors(t, {key}) = above \ {Root}
    BY <1>3, AncestorsClosure
<1>5. Ancestors(t, {key}) \in SUBSET Keys(t.objects)
    BY <1>4 DEF IsTree, IsUp
<1>6. IsBelow(t, Ancestors(t, {key}), mine)
    BY <1>5, DescendantsAreBelow
<1> HIDE DEF mine, nodes
<1>7. ASSUME NEW e \in t.owns \cup t.refs, e[1] \in nodes, e[2] \in nodes, node \in {e[1], e[2]}
      PROVE  \E f \in ExtractSubgraph(t, key).edges : node \in {f[1], f[2]}
    <2>1. e = <<e[1], e[2]>>
        BY OwnsEdges, RefsEdges
    <2>2. e \in nodes \X nodes
        BY <1>7, <2>1
    <2> QED BY <1>1, <1>7, <2>2
<1>8. CASE node \notin mine
    <2>1. PICK e \in t.refs : e[1] \in mine /\ e[2] = node
        BY <1>1, <1>2, <1>8
    <2>2. e[1] \in nodes /\ e[2] \in nodes
        BY <1>2, <2>1
    <2> QED BY <1>7, <2>1, <2>2
<1>9. CASE node \in mine
    <2>1. node \in Keys(t.objects) /\ node \in t.nodes \ {Root} /\ node # key
        BY <1>1, <1>6, <1>9 DEF IsBelow, IsTree
    <2>2. PICK p \in t.nodes : <<p, node>> \in t.owns
        BY <2>1, OwnsEdges
    <2>3. CASE p \in mine
        BY <1>2, <1>7, <1>9, <2>2, <2>3
    <2>4. CASE p \notin mine
        <3>1. \A e \in t.owns : e[2] = node => e[1] \notin mine
            BY <2>2, <2>4, OwnsEdges
        <3>2. node \in Ancestors(t, {key})
            <4> SUFFICES ASSUME node \notin Ancestors(t, {key}) PROVE FALSE
                OBVIOUS
            <4>1. ASSUME NEW k \in Children(t, mine \ {node}) PROVE k \in mine \ {node}
                <5>1. PICK e \in t.owns : e[1] \in mine \ {node} /\ e[2] = k
                    BY DEF Children
                <5>2. k \in mine
                    BY <1>6, <5>1, ChildIn DEF IsBelow
                <5> QED BY <3>1, <5>1, <5>2
            <4>2. mine \ {node} \in SUBSET t.nodes /\ Ancestors(t, {key}) \subseteq mine \ {node}
                BY <1>6 DEF IsBelow, IsTree
            <4>3. mine \subseteq mine \ {node}
                BY <1>6, <4>1, <4>2 DEF IsBelow
            <4> QED BY <1>9, <4>3
        <3>3. PICK e \in t.owns : e[1] = node /\ e[2] \in above \ {Root}
            <4> SUFFICES ASSUME \A e \in t.owns : e[1] = node => e[2] \notin above \ {Root} PROVE FALSE
                OBVIOUS
            <4>1. ASSUME NEW k \in Parents(t, above \ {node}) PROVE k \in above \ {node}
                <5>1. PICK e \in t.owns : e[2] \in above \ {node} /\ e[1] = k
                    BY DEF Parents
                <5>2. k \in above
                    BY <1>4, <5>1, ParentIn DEF IsUp
                <5>3. e[2] # Root
                    BY OwnsEdges
                <5> QED BY <5>1, <5>2, <5>3
            <4>2. {key} \subseteq above \ {node}
                BY <1>4, <2>1 DEF IsUp
            <4>3. above \subseteq above \ {node}
                BY <1>4, <4>1, <4>2 DEF IsUp
            <4> QED BY <1>4, <3>2, <4>3
        <3>4. e[2] \in mine
            BY <1>4, <1>6, <3>3 DEF IsBelow
        <3> QED BY <1>2, <1>7, <1>9, <3>3, <3>4
    <2> QED BY <2>3, <2>4
<1> QED BY <1>8, <1>9

-----------------------------------------------------------------------------
LoadRecords == [force : BOOLEAN, todo : SUBSET FetchedKinds, got : {s \in SUBSET Objects : IsFiniteSet(s)},
                stage : {"fetching", "scheduled", "done"}, since : Nat, whole : BOOLEAN]
BuildRecords == [of : Seq(Objects), load : Nat, stage : {"working", "stored", "failed", "done"}]

\* The invariant.
LineageTypeOK ==
    /\ live \in Worlds
    /\ changes \in 0..MaxChanges
    /\ data \in Seq(Objects)
    /\ populated \in BOOLEAN
    /\ phase \in {"idle", "loading", "building", "ready", "error"}
    /\ open \in BOOLEAN
    /\ selection \in Resources \cup {NoTree}
    /\ graph \in DOMAIN builds \cup {NoTree}
    /\ tree \in DOMAIN builds \cup {NoTree}
    /\ loads \in Seq(LoadRecords)
    /\ builds \in Seq(BuildRecords)

(* A sequence stays one when something is added,                           *)
LEMMA AppendType ==
    ASSUME NEW S, NEW s \in Seq(S), NEW x \in S
    PROVE  Append(s, x) \in Seq(S) /\ DOMAIN s \subseteq DOMAIN Append(s, x)
<1>1. /\ Append(s, x) \in Seq(S) /\ Len(Append(s, x)) = Len(s) + 1
      /\ Len(s) \in Nat /\ DOMAIN s = 1..Len(s)
    BY AppendProperties, LenProperties
<1>2. DOMAIN Append(s, x) = 1..(Len(s) + 1)
    BY <1>1, LenProperties
<1> QED BY <1>1, <1>2

(* or replaced.                                                            *)
LEMMA ReplaceType ==
    ASSUME NEW S, NEW s \in Seq(S), NEW i \in DOMAIN s, NEW x \in S, NEW r, r = [s EXCEPT ![i] = x]
    PROVE  r \in Seq(S) /\ DOMAIN r = DOMAIN s
<1>1. DOMAIN s = 1..Len(s) /\ Len(s) \in Nat /\ \A j \in DOMAIN s : s[j] \in S
    BY LenProperties, ElementOfSeq
<1>2. DOMAIN r = 1..Len(s) /\ \A j \in 1..Len(s) : r[j] \in S
    BY <1>1
<1>3. r = [j \in 1..Len(s) |-> r[j]] 
    BY <1>1, <1>2
<1>4. r \in Seq(S)
    BY <1>1, <1>2, <1>3, IsASeq
<1> QED BY <1>4

(* A new load is one of the records.                                       *)
LEMMA BeginLoadingTypes ==
    ASSUME LineageTypeOK, NEW force \in BOOLEAN, BeginLoading(force)
    PROVE  loads' \in Seq(LoadRecords) /\ phase' \in {"idle", "loading", "building", "ready", "error"}
<1> DEFINE cached == ~force /\ populated
           load == [force |-> force, todo |-> IF cached THEN {} ELSE FetchedKinds, got |-> {},
                    stage |-> IF cached THEN "scheduled" ELSE "fetching", since |-> changes, whole |-> TRUE]
<1>1. load \in LoadRecords
    <2>1. {} \in {s \in SUBSET Objects : IsFiniteSet(s)} /\ changes \in Nat
        BY FS_EmptySet, LineageViewAssumption DEF LineageTypeOK
    <2> QED BY <2>1 DEF LoadRecords
<1>2. loads' = Append(loads, load)
    BY DEF BeginLoading
<1> HIDE DEF load
<1> QED BY <1>1, <1>2, AppendType DEF BeginLoading, LineageTypeOK

(* What the user and the cluster do.                                       *)
LEMMA ViewTypes ==
    ASSUME LineageTypeOK, Change \/ (\E key \in Resources : View(key)) \/ Refresh \/ Wipe
    PROVE  LineageTypeOK'
<1>1. CASE Change
    BY <1>1, LineageViewAssumption DEF Change, LineageTypeOK
<1>2. ASSUME NEW key \in Resources, View(key) PROVE LineageTypeOK'
    <2>1. loads' \in Seq(LoadRecords) /\ phase' \in {"idle", "loading", "building", "ready", "error"}
        <3>1. CASE BeginLoading(FALSE)
            BY <3>1, BeginLoadingTypes
        <3>2. CASE UNCHANGED <<phase, loads>>
            BY <3>2 DEF LineageTypeOK
        <3> QED BY <1>2, <3>1, <3>2 DEF View
    <2> QED BY <1>2, <2>1 DEF View, LineageTypeOK
<1>3. CASE Refresh
    <2>1. loads' \in Seq(LoadRecords) /\ phase' \in {"idle", "loading", "building", "ready", "error"}
        BY <1>3, BeginLoadingTypes DEF Refresh
    <2> QED BY <1>3, <2>1 DEF Refresh, LineageTypeOK
<1>4. CASE Wipe
    BY <1>4 DEF Wipe, LineageTypeOK
<1> QED BY <1>1, <1>2, <1>3, <1>4

(* The steps of a load.                                                    *)
LEMMA LoadTypes ==
    ASSUME LineageTypeOK, LoadStep
    PROVE  LineageTypeOK'
<1>1. \A l \in DOMAIN loads : loads[l] \in LoadRecords
    BY ElementOfSeq DEF LineageTypeOK
<1>2. ASSUME NEW l \in DOMAIN loads, NEW kind \in FetchedKinds, Fetched(l, kind) PROVE LineageTypeOK'
    <2>1. PICK answered \in BOOLEAN :
            loads' = [loads EXCEPT ![l].todo = @ \ {kind},
                                   ![l].got = @ \cup {o \in live : answered /\ o.kind = kind},
                                   ![l].whole = @ /\ answered]
        BY <1>2 DEF Fetched
    <2> DEFINE some == {o \in live : answered /\ o.kind = kind}
               got == loads[l].got \cup some
               load == [loads[l] EXCEPT !.todo = loads[l].todo \ {kind}, !.got = got,
                                        !.whole = loads[l].whole /\ answered]
    <2>2. got \in {s \in SUBSET Objects : IsFiniteSet(s)}
        <3>1. IsFiniteSet(live) /\ live \in SUBSET Objects
            BY LineageViewAssumption DEF LineageTypeOK, Objects
        <3>2. some \in SUBSET live /\ some \in SUBSET Objects /\ IsFiniteSet(some)
            BY <3>1, FS_Subset
        <3>3. IsFiniteSet(loads[l].got) /\ loads[l].got \in SUBSET Objects
            BY <1>1 DEF LoadRecords
        <3> HIDE DEF some
        <3> QED BY <3>2, <3>3, FS_Union
    <2>3. load \in LoadRecords
        <3> HIDE DEF got
        <3> QED BY <1>1, <2>2 DEF LoadRecords
    <2>4. loads' = [loads EXCEPT ![l] = load]
        BY <1>1, <2>1 DEF LoadRecords, LineageTypeOK
    <2>5. loads' \in Seq(LoadRecords)
        <3> HIDE DEF load
        <3> QED BY <2>3, <2>4, ReplaceType DEF LineageTypeOK
    <2> QED BY <1>2, <2>5 DEF Fetched, LineageTypeOK
<1>3. ASSUME NEW l \in DOMAIN loads, NEW stage \in {"fetching", "scheduled", "done"},
             loads' = [loads EXCEPT ![l].stage = stage]
      PROVE  loads' \in Seq(LoadRecords)
    <2>1. [loads[l] EXCEPT !.stage = stage] \in LoadRecords
        BY <1>1 DEF LoadRecords
    <2>2. loads' = [loads EXCEPT ![l] = [loads[l] EXCEPT !.stage = stage]]
        BY <1>3
    <2> QED BY <2>1, <2>2, ReplaceType DEF LineageTypeOK
<1>4. ASSUME NEW l \in DOMAIN loads, AllFetched(l) PROVE LineageTypeOK'
    <2>1. InSomeOrder(loads[l].got) \in Seq(Objects)
        <3>1. IsFiniteSet(loads[l].got) /\ loads[l].got \in SUBSET Objects
            BY <1>1 DEF LoadRecords
        <3>2. InSomeOrder(loads[l].got) \in Seq(loads[l].got)
            BY <3>1, InSomeOrderIsSequence
        <3> QED BY <3>1, <3>2, SeqMonotonic
    <2>2. data' \in Seq(Objects)
        BY <1>4, <2>1, ConcatProperties DEF AllFetched, LineageTypeOK
    <2>3. loads' \in Seq(LoadRecords)
        BY <1>3, <1>4 DEF AllFetched
    <2> QED BY <1>4, <2>2, <2>3 DEF AllFetched, LineageTypeOK
<1>5. ASSUME NEW l \in DOMAIN loads, Building(l) PROVE LineageTypeOK'
    <2>1. loads' \in Seq(LoadRecords)
        BY <1>3, <1>5 DEF Building
    <2> DEFINE build == [of |-> data, load |-> l, stage |-> "working"]
    <2>2. build \in BuildRecords
        <3>1. l \in Nat
            BY LenProperties DEF LineageTypeOK
        <3> QED BY <3>1 DEF BuildRecords, LineageTypeOK
    <2>3. builds' = Append(builds, build)
        BY <1>5 DEF Building
    <2>4. builds' \in Seq(BuildRecords) /\ DOMAIN builds \subseteq DOMAIN builds'
        <3> HIDE DEF build
        <3> QED BY <2>2, <2>3, AppendType DEF LineageTypeOK
    <2> QED BY <1>5, <2>1, <2>4 DEF Building, LineageTypeOK
<1> QED BY <1>2, <1>4, <1>5 DEF LoadStep

(* The steps of a build.                                                   *)
LEMMA BuildTypes ==
    ASSUME LineageTypeOK, BuildStep
    PROVE  LineageTypeOK'
<1>1. ASSUME NEW b \in DOMAIN builds, NEW stage \in {"working", "stored", "failed", "done"},
             builds' = [builds EXCEPT ![b].stage = stage]
      PROVE  builds' \in Seq(BuildRecords) /\ DOMAIN builds' = DOMAIN builds
    <2>1. builds[b] \in BuildRecords
        BY ElementOfSeq DEF LineageTypeOK
    <2>2. [builds[b] EXCEPT !.stage = stage] \in BuildRecords
        BY <2>1 DEF BuildRecords
    <2>3. builds' = [builds EXCEPT ![b] = [builds[b] EXCEPT !.stage = stage]]
        BY <1>1
    <2> QED BY <2>2, <2>3, ReplaceType DEF LineageTypeOK
<1>2. ASSUME NEW b \in DOMAIN builds, Store(b) PROVE LineageTypeOK'
    <2>1. builds' \in Seq(BuildRecords) /\ DOMAIN builds' = DOMAIN builds
        BY <1>1, <1>2 DEF Store
    <2> QED BY <1>2, <2>1 DEF Store, LineageTypeOK
<1>3. ASSUME NEW b \in DOMAIN builds, OnGraphResult(b) PROVE LineageTypeOK'
    <2>1. builds' \in Seq(BuildRecords) /\ DOMAIN builds' = DOMAIN builds
        BY <1>1, <1>3 DEF OnGraphResult
    <2> QED BY <1>3, <2>1 DEF OnGraphResult, LineageTypeOK
<1> QED BY <1>2, <1>3 DEF BuildStep

(* The variables of the lineage view keep their types; what is kept and    *)
(* what is built is always a finite list of objects of the cluster         *)
(* (lua/kubectl/views/lineage).                                            *)
THEOREM LineageTypesCorrect == LineageViewSpec => []LineageTypeOK
<1>1. LineageViewInit => LineageTypeOK
    <2> SUFFICES ASSUME LineageViewInit PROVE LineageTypeOK
        OBVIOUS
    <2>1. data \in Seq(Objects) /\ loads \in Seq(LoadRecords) /\ builds \in Seq(BuildRecords)
        BY EmptySeq DEF LineageViewInit
    <2>2. 0 \in 0..MaxChanges
        BY LineageViewAssumption
    <2> QED BY <2>1, <2>2 DEF LineageViewInit, LineageTypeOK
<1>2. LineageTypeOK /\ [LineageViewNext]_lineageVars => LineageTypeOK'
    <2>1. ASSUME LineageTypeOK, UNCHANGED lineageVars PROVE LineageTypeOK'
        BY <2>1 DEF lineageVars, LineageTypeOK
    <2> QED BY <2>1, ViewTypes, LoadTypes, BuildTypes DEF LineageViewNext
<1> QED BY <1>1, <1>2, PTL DEF LineageViewSpec

(* Every build is of a tree.                                               *)
LEMMA StoredTree ==
    ASSUME LineageTypeOK, NEW b \in DOMAIN builds
    PROVE  IsTree(BuildTree(builds[b].of), Objects)
<1>1. builds[b].of \in Seq(Objects)
    <2>1. builds[b] \in BuildRecords
        BY ElementOfSeq DEF LineageTypeOK
    <2> QED BY <2>1 DEF BuildRecords
<1>2. \A o \in Objects : o.kind \in Kinds
    BY LineageViewAssumption DEF Objects
<1> QED BY <1>1, <1>2, BuiltTree

(* What a Pod runs with is never shown as an orphan (orphan_rules.rs).     *)
THEOREM UsedIsNeverOrphan == LineageViewSpec => []UsedIsNoOrphan
<1>1. UsedIsNoOrphan
    BY UsedAlways
<1> QED BY <1>1, PTL

(* The impact of an object is never short of anything that refers to it,   *)
(* or of anything owned by something in it (tree.rs, compute_impact).      *)
THEOREM ImpactIsWhole == LineageViewSpec => []ImpactCoversDependents
<1>1. LineageTypeOK => ImpactCoversDependents
    <2> SUFFICES ASSUME LineageTypeOK, NEW b \in DOMAIN builds,
                        NEW o \in BuildTree(builds[b].of).objects,
                        NEW key \in Relations(o) \cap BuildTree(builds[b].of).nodes
                 PROVE  LET t == BuildTree(builds[b].of)
                            impact == ComputeImpact(t, key)
                        IN  /\ Key(o) \in impact
                            /\ \A e \in t.owns : e[1] \in impact => e[2] \in impact
        BY DEF ImpactCoversDependents
    <2> DEFINE t == BuildTree(builds[b].of)
    <2>1. IsTree(t, Objects)
        BY StoredTree
    <2>2. o \in t.objects /\ key \in Relations(o) \cap t.nodes
        OBVIOUS
    <2> HIDE DEF t
    <2>3. /\ Key(o) \in ComputeImpact(t, key)
          /\ \A e \in t.owns : e[1] \in ComputeImpact(t, key) => e[2] \in ComputeImpact(t, key)
        BY <2>1, <2>2, ImpactOfTree
    <2> QED BY <2>3 DEF t
<1> QED BY <1>1, LineageTypesCorrect, PTL

(* Where owners come first, all objects are below the root, those of one   *)
(* top have the same related objects, and an export leaves none alone      *)
(* (tree.rs, query.rs).                                                    *)
THEOREM RelatedIsWhole ==
    ASSUME OwnersComeFirst(Objects)
    PROVE  LineageViewSpec => []RelatedIsWholeTree
<1>1. ASSUME NEW t, IsTree(t, Objects)
      PROVE  /\ Descendants(t, {Root}) = t.nodes \ {Root}
             /\ \A k, l \in t.nodes \ {Root} :
                    Top(t, k) = Top(t, l) => RelatedItems(t, k) = RelatedItems(t, l)
             /\ \A k \in t.nodes \ {Root} : \A node \in ExtractSubgraph(t, k).nodes \ {k} :
                    \E e \in ExtractSubgraph(t, k).edges : node \in {e[1], e[2]}
    <2>1. t.nodes \ {Root} = Keys(t.objects)
        BY <1>1 DEF IsTree
    <2>2. \A k \in t.nodes \ {Root} : RelatedItems(t, k) = WithReferences(t, Descendants(t, Top(t, k)))
        BY <1>1, <2>1, SameTree DEF RelatedItems
    <2>3. Descendants(t, {Root}) = t.nodes \ {Root}
        BY <1>1, AllBelowRoot
    <2>4. \A k \in t.nodes \ {Root} : \A node \in ExtractSubgraph(t, k).nodes \ {k} :
                    \E e \in ExtractSubgraph(t, k).edges : node \in {e[1], e[2]}
        BY <1>1, <2>1, NothingAlone
    <2> QED BY <2>2, <2>3, <2>4
<1>2. LineageTypeOK => RelatedIsWholeTree
    <2> SUFFICES ASSUME LineageTypeOK, NEW b \in DOMAIN builds
                 PROVE  LET t == BuildTree(builds[b].of)
                            keys == t.nodes \ {Root}
                            found == {[top |-> Ancestors(t, {key}) \cap Children(t, {Root}),
                                       related |-> RelatedItems(t, key)] : key \in keys}
                        IN  /\ Descendants(t, {Root}) = keys
                            /\ \A f, g \in found : f.top = g.top => f.related = g.related
                            /\ \A key \in keys :
                                  LET sub == ExtractSubgraph(t, key)
                                  IN  \A node \in sub.nodes \ {key} : \E e \in sub.edges : node \in {e[1], e[2]}
        BY DEF RelatedIsWholeTree
    <2> DEFINE t == BuildTree(builds[b].of)
    <2>1. IsTree(t, Objects)
        BY StoredTree
    <2> HIDE DEF t
    <2>2. \A k, l \in t.nodes \ {Root} : Top(t, k) = Top(t, l) => RelatedItems(t, k) = RelatedItems(t, l)
        BY <1>1, <2>1
    <2>3. \A f, g \in {[top |-> Ancestors(t, {key}) \cap Children(t, {Root}),
                        related |-> RelatedItems(t, key)] : key \in t.nodes \ {Root}} :
             f.top = g.top => f.related = g.related
        <3> DEFINE Answer(key) == [top |-> Ancestors(t, {key}) \cap Children(t, {Root}),
                                   related |-> RelatedItems(t, key)]
        <3>1. \A k : Answer(k).top = Top(t, k) /\ Answer(k).related = RelatedItems(t, k)
            BY DEF Top
        <3>2. \A k, l \in t.nodes \ {Root} : Answer(k).top = Answer(l).top => Answer(k).related = Answer(l).related
            <4> HIDE DEF Answer
            <4> QED BY <2>2, <3>1
        <3> HIDE DEF Answer
        <3>3. \A f, g \in {Answer(key) : key \in t.nodes \ {Root}} : f.top = g.top => f.related = g.related
            BY <3>2
        <3> QED BY <3>3 DEF Answer
    <2>4. /\ Descendants(t, {Root}) = t.nodes \ {Root}
          /\ \A k \in t.nodes \ {Root} : \A node \in ExtractSubgraph(t, k).nodes \ {k} :
                    \E e \in ExtractSubgraph(t, k).edges : node \in {e[1], e[2]}
        BY <1>1, <2>1
    <2> QED BY <2>3, <2>4 DEF t
<1> QED BY <1>2, LineageTypesCorrect, PTL

-----------------------------------------------------------------------------
(* The phase of the view and its graph.                                    *)

(* A view that is ready has a graph, so that opening the same resource     *)
(* again never builds it anew (init.lua, View: rebuild_graph is not        *)
(* reached); while it loads or builds, or after an error, it has none, so  *)
(* that none of an earlier resource or refresh is drawn; and a graph is of *)
(* a build that has stored a tree, which the queries of the view find.     *)
PhaseFitsGraph ==
    /\ phase = "ready" => graph # NoTree
    /\ graph # NoTree => /\ phase \in {"ready", "idle"}
                         /\ builds[graph].stage = "done" /\ builds[graph].of # <<>>
                         /\ tree # NoTree

\* What was stored is of some objects, and something is stored since then.
StoredIsThere ==
    \A b \in DOMAIN builds : builds[b].stage = "stored" => builds[b].of # <<>> /\ tree # NoTree

(* Every step keeps the two.                                               *)
LEMMA GraphKept ==
    ASSUME LineageTypeOK, PhaseFitsGraph, StoredIsThere, [LineageViewNext]_lineageVars
    PROVE  PhaseFitsGraph' /\ StoredIsThere'
<1>1. ASSUME UNCHANGED <<phase, graph, tree, builds>> PROVE PhaseFitsGraph' /\ StoredIsThere'
    BY <1>1 DEF PhaseFitsGraph, StoredIsThere
<1>2. ASSUME NEW key \in Resources, View(key) PROVE PhaseFitsGraph' /\ StoredIsThere'
    <2>1. /\ tree' = tree /\ builds' = builds
          /\ \/ graph' = NoTree /\ phase' = "loading"
             \/ graph' = graph /\ phase' = phase
        BY <1>2 DEF View, BeginLoading
    <2> QED BY <2>1 DEF PhaseFitsGraph, StoredIsThere
<1>3. ASSUME Refresh PROVE PhaseFitsGraph' /\ StoredIsThere'
    BY <1>3 DEF Refresh, BeginLoading, PhaseFitsGraph, StoredIsThere
<1>4. ASSUME Wipe PROVE PhaseFitsGraph' /\ StoredIsThere'
    BY <1>4 DEF Wipe, PhaseFitsGraph, StoredIsThere
<1>5. ASSUME NEW l \in DOMAIN loads, Building(l) PROVE PhaseFitsGraph' /\ StoredIsThere'
    <2>1. graph' = NoTree /\ phase' = "building" /\ tree' = tree
        BY <1>5 DEF Building
    <2> DEFINE build == [of |-> data, load |-> l, stage |-> "working"]
    <2>2. builds' = Append(builds, build) /\ build.stage = "working"
        BY <1>5 DEF Building
    <2> HIDE DEF build
    <2>3. \A b \in DOMAIN builds' : (b \in DOMAIN builds /\ builds'[b] = builds[b]) \/ builds'[b] = build
        BY <2>2 DEF LineageTypeOK
    <2> QED BY <2>1, <2>2, <2>3 DEF PhaseFitsGraph, StoredIsThere
<1>6. ASSUME NEW b \in DOMAIN builds, NEW stage, builds' = [builds EXCEPT ![b].stage = stage]
      PROVE  /\ DOMAIN builds' = DOMAIN builds
             /\ \A c \in DOMAIN builds : builds'[c].of = builds[c].of
             /\ \A c \in DOMAIN builds : builds'[c].stage = IF c = b THEN stage ELSE builds[c].stage
    <2>1. builds[b] \in BuildRecords
        BY ElementOfSeq DEF LineageTypeOK
    <2> QED BY <1>6, <2>1 DEF BuildRecords
<1>7. DOMAIN builds \subseteq Nat /\ \A b \in DOMAIN builds : b # NoTree
    <2>1. DOMAIN builds = 1..Len(builds) /\ Len(builds) \in Nat
        BY LenProperties DEF LineageTypeOK
    <2> QED BY <2>1, LineageViewAssumption
<1>8. ASSUME NEW b \in DOMAIN builds, Store(b) PROVE PhaseFitsGraph' /\ StoredIsThere'
    <2>1. phase' = phase /\ graph' = graph /\ builds[b].stage = "working"
        BY <1>8 DEF Store
    <2>2. graph # NoTree => graph \in DOMAIN builds /\ graph # b
        BY <2>1 DEF PhaseFitsGraph, LineageTypeOK
    <2>3. CASE builds[b].of = <<>>
        <3>1. builds' = [builds EXCEPT ![b].stage = "failed"] /\ tree' = tree
            BY <1>8, <2>3 DEF Store
        <3> QED BY <1>6, <2>1, <2>2, <3>1 DEF PhaseFitsGraph, StoredIsThere
    <2>4. CASE builds[b].of # <<>>
        <3>1. builds' = [builds EXCEPT ![b].stage = "stored"] /\ tree' = b /\ tree' # NoTree
            BY <1>7, <1>8, <2>4 DEF Store
        <3> QED BY <1>6, <2>1, <2>2, <2>4, <3>1 DEF PhaseFitsGraph, StoredIsThere
    <2> QED BY <2>3, <2>4
<1>9. ASSUME NEW b \in DOMAIN builds, OnGraphResult(b) PROVE PhaseFitsGraph' /\ StoredIsThere'
    <2>1. /\ builds' = [builds EXCEPT ![b].stage = "done"] /\ tree' = tree
          /\ graph' = IF builds[b].stage = "stored" THEN b ELSE NoTree
          /\ phase' = IF builds[b].stage = "stored" THEN "ready" ELSE "error"
        BY <1>9 DEF OnGraphResult
    <2> QED BY <1>6, <1>7, <2>1 DEF PhaseFitsGraph, StoredIsThere
<1>10. ASSUME LineageViewNext PROVE PhaseFitsGraph' /\ StoredIsThere'
    <2>1. CASE Change
        BY <1>1, <2>1 DEF Change
    <2>2. ASSUME NEW l \in DOMAIN loads, AllFetched(l) \/ \E kind \in FetchedKinds : Fetched(l, kind)
          PROVE  PhaseFitsGraph' /\ StoredIsThere'
        BY <1>1, <2>2 DEF AllFetched, Fetched
    <2>3. CASE LoadStep
        BY <1>5, <2>2, <2>3 DEF LoadStep
    <2>4. CASE BuildStep
        BY <1>8, <1>9, <2>4 DEF BuildStep
    <2> QED BY <1>2, <1>3, <1>4, <1>10, <2>1, <2>3, <2>4 DEF LineageViewNext
<1> QED BY <1>1, <1>10 DEF lineageVars

(* A view that is ready has a graph, and the queries of that graph find a  *)
(* stored tree (init.lua, on_graph_result; graph.lua, build_graph_async).  *)
THEOREM ReadyHasGraph == LineageViewSpec => []PhaseFitsGraph
<1>1. LineageViewInit => PhaseFitsGraph /\ StoredIsThere
    BY DEF LineageViewInit, PhaseFitsGraph, StoredIsThere
<1> QED BY <1>1, GraphKept, LineageTypesCorrect, PTL DEF LineageViewSpec
=============================================================================
