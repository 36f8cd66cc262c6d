------------------------------ MODULE PodCounts ------------------------------
(***************************************************************************)
(* Counting pods: the controller compares the number of ready containers   *)
(* and of scheduled conditions with a number of replicas (pkg/utils/       *)
(* util.go), the allocator charges the requests of pods to their nodes     *)
(* (pkg/allocator/node.go, pkg/context/node.go).  Both loop over pods and  *)
(* over what each pod has, so a pod counts as often as it has matches.     *)
(***************************************************************************)
EXTENDS Naturals, FiniteSets, FiniteSetTheorems, TLAPS

CONSTANTS
    Nodes,       \* names of nodes
    NoNode,      \* spec.nodeName is empty
    Conditions,  \* entries of status.conditions
    Containers   \* entries of status.containerStatuses

PodPhases == {"Pending", "Running", "Succeeded", "Failed", "Unknown"}

\* scheduled: the PodScheduled conditions that are True; ready: the containers
\* that are.
Pod == [phase : PodPhases, terminating : BOOLEAN, node : Nodes \cup {NoNode},
        scheduled : SUBSET Conditions, ready : SUBSET Containers]

-----------------------------------------------------------------------------
\* The matches found in pod[p] for p in S.
Matches(S, match) == UNION {{p} \X match[p] : p \in S}

CountScheduledPods(S, pod) ==
    Cardinality(Matches(S, [p \in S |-> pod[p].scheduled]))

Live(S, pod) == {p \in S : ~pod[p].terminating}

CountReadyPods(S, pod) ==
    Cardinality(Matches(Live(S, pod), [p \in S |-> pod[p].ready]))

\* getNodeInfos: the pods a node is charged for ...
NodePods(S, pod, node) == {p \in S : pod[p].node = node}

\* ... are Running or, once for every condition, Pending and scheduled.
\* filterOutIneffectivePods
EffectivePods(S, pod) ==
    Matches({p \in S : pod[p].phase = "Pending"},
            [p \in S |-> pod[p].scheduled])
        \cup {p \in S : pod[p].phase = "Running"} \X {"Running"}

-----------------------------------------------------------------------------
(* What the counts are worth.                                               *)

\* A match picked for every pod makes as many pairs as there are pods.
LEMMA OneMatchEach ==
  ASSUME NEW S, IsFiniteSet(S), NEW pick
  PROVE  LET pairs == {<<p, pick[p]>> : p \in S}
         IN  IsFiniteSet(pairs) /\ Cardinality(pairs) = Cardinality(S)
PROOF
<1> DEFINE pairs == {<<p, pick[p]>> : p \in S}
           f == [p \in S |-> <<p, pick[p]>>]
<1>1. f \in Bijection(S, pairs)
  BY DEF Bijection, Injection, Surjection, IsInjective
<1>2. ExistsBijection(S, pairs)
  BY <1>1 DEF ExistsBijection
<1> QED BY <1>2, FS_Bijection

LEMMA MatchesAreFinite ==
  ASSUME NEW S, IsFiniteSet(S), NEW match,
         \A p \in S : IsFiniteSet(match[p])
  PROVE  IsFiniteSet(Matches(S, match))
PROOF
<1> DEFINE f == [p \in S |-> {p} \X match[p]]
           T == {{p} \X match[p] : p \in S}
<1>1. f \in Surjection(S, T)
  BY DEF Surjection
<1>2. IsFiniteSet(T)
  BY <1>1, FS_Surjection
<1>3. \A t \in T : IsFiniteSet(t)
  <2> TAKE t \in T
  <2>1. PICK p \in S : t = {p} \X match[p]
    OBVIOUS
  <2> QED BY <2>1, FS_Product, FS_Singleton
<1> QED BY <1>2, <1>3, FS_UNION DEF Matches

\* When every pod of R has one match and the others none, these are all.
LEMMA PickedMatches ==
  ASSUME NEW S, NEW R \in SUBSET S, NEW match, NEW pick,
         \A p \in R : pick[p] \in match[p],
         \A p \in S : \A c \in match[p] : p \in R /\ c = pick[p]
  PROVE  Matches(S, match) = {<<p, pick[p]>> : p \in R}
PROOF
<1>1. ASSUME NEW x \in Matches(S, match)
      PROVE  x \in {<<p, pick[p]>> : p \in R}
  <2>1. PICK p \in S : x \in {p} \X match[p]
    BY <1>1 DEF Matches
  <2>2. PICK c \in match[p] : x = <<p, c>>
    BY <2>1
  <2> QED BY <2>2
<1>2. ASSUME NEW p \in R
      PROVE  <<p, pick[p]>> \in Matches(S, match)
  <2>1. p \in S /\ <<p, pick[p]>> \in {p} \X match[p]
    OBVIOUS
  <2> QED BY <2>1 DEF Matches
<1> QED BY <1>1, <1>2

\* With one match at most, a pod counts once or not at all.
LEMMA OneMatchAtMost ==
  ASSUME NEW S, IsFiniteSet(S), NEW match,
         \A p \in S : \A c, d \in match[p] : c = d
  PROVE  Cardinality(Matches(S, match)) =
            Cardinality({p \in S : match[p] # {}})
PROOF
<1> DEFINE R == {p \in S : match[p] # {}}
           pick == [p \in R |-> CHOOSE c \in match[p] : TRUE]
<1>1. R \in SUBSET S /\ IsFiniteSet(R)
  BY FS_Subset
<1>2. \A p \in R : pick[p] \in match[p]
  OBVIOUS
<1>3. \A p \in S : \A c \in match[p] : p \in R /\ c = pick[p]
  BY <1>2
<1> HIDE DEF pick, R
<1>4. Matches(S, match) = {<<p, pick[p]>> : p \in R}
  BY <1>1, <1>2, <1>3, PickedMatches
<1>5. Cardinality(Matches(S, match)) = Cardinality(R)
  BY <1>1, <1>4, OneMatchEach
<1> QED BY <1>5 DEF R

\* The API server keeps one condition of each type in a pod.  Then the count is
\* the number of scheduled pods, whatever else their conditions are.
THEOREM ScheduledCountsPods ==
  ASSUME NEW S, IsFiniteSet(S), NEW pod \in [S -> Pod],
         \A p \in S : \A c, d \in pod[p].scheduled : c = d
  PROVE  CountScheduledPods(S, pod) =
            Cardinality({p \in S : pod[p].scheduled # {}})
PROOF
<1> DEFINE match == [p \in S |-> pod[p].scheduled]
<1>1. \A p \in S : \A c, d \in match[p] : c = d
  OBVIOUS
<1>2. {p \in S : match[p] # {}} = {p \in S : pod[p].scheduled # {}}
  OBVIOUS
<1> HIDE DEF match
<1>3. Cardinality(Matches(S, match)) = Cardinality({p \in S : match[p] # {}})
  BY <1>1, OneMatchAtMost
<1> QED BY <1>2, <1>3 DEF CountScheduledPods, match

\* With one container a pod the ready replicas are the pods that are ready and
\* not terminating: what reconcileWithJobStatus compares with the replicas.
THEOREM ReadyCountsPods ==
  ASSUME NEW S, IsFiniteSet(S), NEW pod \in [S -> Pod],
         \A p \in S : \A c, d \in pod[p].ready : c = d
  PROVE  CountReadyPods(S, pod) =
            Cardinality({p \in S : ~pod[p].terminating /\ pod[p].ready # {}})
PROOF
<1> DEFINE match == [p \in S |-> pod[p].ready]
<1>1. IsFiniteSet(Live(S, pod))
  BY FS_Subset DEF Live
<1>2. \A p \in Live(S, pod) : \A c, d \in match[p] : c = d
  BY DEF Live
<1>3. {p \in Live(S, pod) : match[p] # {}}
         = {p \in S : ~pod[p].terminating /\ pod[p].ready # {}}
  BY DEF Live
<1> HIDE DEF match
<1>4. Cardinality(Matches(Live(S, pod), match))
         = Cardinality({p \in Live(S, pod) : match[p] # {}})
  BY <1>1, <1>2, OneMatchAtMost
<1> QED BY <1>3, <1>4 DEF CountReadyPods, match

\* With two ready containers or more in every pod the count exceeds the number
\* of pods: a job whose pods have a sidecar never has as many ready replicas as
\* replicas while all of them are ready.
THEOREM SidecarsOvercount ==
  ASSUME NEW S, IsFiniteSet(S), S # {}, NEW pod \in [S -> Pod],
         IsFiniteSet(Containers),
         \A p \in S : ~pod[p].terminating,
         \A p \in S : \E c, d \in pod[p].ready : c # d
  PROVE  CountReadyPods(S, pod) > Cardinality(S)
PROOF
<1> DEFINE match == [p \in S |-> pod[p].ready]
           first == [p \in S |->
                        CHOOSE c \in match[p] : \E d \in match[p] : c # d]
           second == [p \in S |-> CHOOSE d \in match[p] : d # first[p]]
           A == {<<p, first[p]>> : p \in S}
           B == {<<p, second[p]>> : p \in S}
<1>1. \A p \in S : first[p] \in match[p] /\ \E d \in match[p] : first[p] # d
  OBVIOUS
<1>2. \A p \in S : second[p] \in match[p] /\ second[p] # first[p]
  BY <1>1
<1>3. \A p \in S : IsFiniteSet(match[p])
  <2> TAKE p \in S
  <2>1. pod[p].ready \in SUBSET Containers
    BY DEF Pod
  <2> QED BY <2>1, FS_Subset
<1> HIDE DEF match, first, second
<1>4. IsFiniteSet(A) /\ Cardinality(A) = Cardinality(S)
  BY OneMatchEach
<1>5. IsFiniteSet(B) /\ Cardinality(B) = Cardinality(S)
  BY OneMatchEach
<1>6. A \cap B = {}
  BY <1>2
<1>7. Cardinality(A \cup B) = Cardinality(S) + Cardinality(S) - 0
  <2>1. Cardinality({}) = 0
    BY FS_EmptySet
  <2>2. /\ IsFiniteSet(A \cup B)
        /\ Cardinality(A \cup B)
              = Cardinality(A) + Cardinality(B) - Cardinality(A \cap B)
    BY <1>4, <1>5, FS_Union
  <2> QED BY <1>4, <1>5, <1>6, <2>1, <2>2
<1>8. (A \cup B) \subseteq Matches(S, match)
  BY <1>1, <1>2 DEF Matches
<1>9. IsFiniteSet(Matches(S, match))
  BY <1>3, MatchesAreFinite
<1>10. Cardinality(A \cup B) <= Cardinality(Matches(S, match))
  BY <1>8, <1>9, FS_Subset
<1>11. Cardinality(S) \in Nat /\ Cardinality(S) # 0
  BY FS_CardinalityType, FS_EmptySet
<1>12. Cardinality(Matches(S, match)) \in Nat
  BY <1>9, FS_CardinalityType
<1>13. Cardinality(Matches(S, match)) > Cardinality(S)
  BY <1>7, <1>10, <1>11, <1>12
<1>14. Live(S, pod) = S
  BY DEF Live
<1> QED BY <1>13, <1>14 DEF CountReadyPods, match

\* A node is charged once for a pod that runs or is about to, provided that its
\* binding shows in its conditions; a Pending pod whose node was given by its
\* creator, as BuildPod does, is not charged before the kubelet has set the
\* condition.
THEOREM ChargedWhenBound ==
  ASSUME NEW S, NEW pod \in [S -> Pod], NEW node \in Nodes,
         NEW p \in NodePods(S, pod, node)
  PROVE  (\E c : <<p, c>> \in EffectivePods(NodePods(S, pod, node), pod))
            <=> \/ pod[p].phase = "Running"
                \/ pod[p].phase = "Pending" /\ pod[p].scheduled # {}
PROOF
<1> DEFINE N == NodePods(S, pod, node)
<1>1. p \in N /\ N \subseteq S
  BY DEF NodePods
<1> HIDE DEF N
<1>2. \A c : <<p, c>> \in Matches({q \in N : pod[q].phase = "Pending"},
                                  [q \in N |-> pod[q].scheduled])
             <=> pod[p].phase = "Pending" /\ c \in pod[p].scheduled
  BY <1>1 DEF Matches
<1>3. \A c : <<p, c>> \in {q \in N : pod[q].phase = "Running"} \X {"Running"}
             <=> pod[p].phase = "Running" /\ c = "Running"
  BY <1>1
<1> QED BY <1>2, <1>3 DEF EffectivePods, N
=============================================================================
