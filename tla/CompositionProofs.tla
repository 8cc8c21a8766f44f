-------------------------- MODULE CompositionProofs --------------------------
(****************************************************************************)
(* What the normalisation of a blueprint establishes, for every blueprint:  *)
(* the order it gives the components, and the built-in facilities it        *)
(* selects.                                                                 *)
(****************************************************************************)
EXTENDS Composition, TLAPS, FiniteSetTheorems

-----------------------------------------------------------------------------
(* Lists of components.                                                     *)

IsList(s) == s \in Seq(Range(s))

LEMMA ListOf ==
    ASSUME NEW S, NEW s \in Seq(S)
    PROVE  IsList(s)
  BY DEF IsList, Range

LEMMA ListFacts ==
    ASSUME NEW s, IsList(s)
    PROVE  /\ Len(s) \in Nat /\ DOMAIN s = 1 .. Len(s) /\ IsFiniteSet(DOMAIN s)
  BY FS_Interval DEF IsList

LEMMA AppendFacts ==
    ASSUME NEW S, NEW s \in Seq(S), NEW e \in S
    PROVE  /\ Append(s, e) \in Seq(S) /\ Len(Append(s, e)) = Len(s) + 1
           /\ DOMAIN Append(s, e) = 1 .. (Len(s) + 1)
           /\ \A k \in 1 .. Len(s) : Append(s, e)[k] = s[k]
           /\ Append(s, e)[Len(s) + 1] = e
  OBVIOUS

LEMMA FrontFacts ==
    ASSUME NEW S, NEW s \in Seq(S), s # <<>>
    PROVE  /\ SubSeq(s, 1, Len(s) - 1) \in Seq(S) /\ Len(SubSeq(s, 1, Len(s) - 1)) = Len(s) - 1
           /\ DOMAIN SubSeq(s, 1, Len(s) - 1) = 1 .. (Len(s) - 1)
           /\ \A k \in 1 .. (Len(s) - 1) : SubSeq(s, 1, Len(s) - 1)[k] = s[k]
           /\ SubSeq(s, 1, Len(s) - 1) = <<>> <=> Len(s) = 1
<1>2. Len(s) \in Nat /\ Len(s) >= 1
  OBVIOUS
<1>3. /\ SubSeq(s, 1, Len(s) - 1) \in Seq(S) /\ Len(SubSeq(s, 1, Len(s) - 1)) = Len(s) - 1
      /\ DOMAIN SubSeq(s, 1, Len(s) - 1) = 1 .. (Len(s) - 1)
      /\ \A k \in 1 .. (Len(s) - 1) : SubSeq(s, 1, Len(s) - 1)[k] = s[k]
  <2>1. \A i \in 1 .. (Len(s) - 1) : s[i] \in S
    OBVIOUS
  <2>2. PICK n \in Int : n = Len(s) - 1 /\ n >= 0
    BY <1>2
  <2>3. /\ SubSeq(s, 1, n) \in Seq(S) /\ Len(SubSeq(s, 1, n)) = IF 1 <= n THEN n - 1 + 1 ELSE 0
        /\ \A i \in 1 .. n - 1 + 1 : SubSeq(s, 1, n)[i] = s[1 + i - 1]
    BY <2>1, <2>2
  <2>4. PICK t \in Seq(S) : t = SubSeq(s, 1, n)
    BY Zenon, <2>3
  <2>5. Len(t) = n /\ DOMAIN t = 1 .. n /\ \A i \in 1 .. n : t[i] = s[i]
    BY <2>2, <2>3, <2>4
  <2> QED BY Zenon, <2>2, <2>4, <2>5
<1>4. SubSeq(s, 1, Len(s) - 1) = <<>> <=> Len(SubSeq(s, 1, Len(s) - 1)) = 0
  <2>1. \A t \in Seq(S) : t = <<>> <=> Len(t) = 0
    OBVIOUS
  <2> QED BY Zenon, <1>3, <2>1
<1>5. Len(SubSeq(s, 1, Len(s) - 1)) = 0 <=> Len(s) = 1
  BY <1>2, <1>3
<1> QED BY Zenon, <1>3, <1>4, <1>5

LEMMA JoinIsList ==
    ASSUME NEW s, IsList(s), NEW t, IsList(t)
    PROVE  IsList(s \o t)
<1> DEFINE S == Range(s) \union Range(t)
<1>1. s \in Seq(S) /\ t \in Seq(S)
  BY DEF IsList
<1>2. s \o t \in Seq(S)
  BY <1>1
<1> QED BY Zenon, <1>2, ListOf

(* The elements at some places of a list are a list. *)
LEMMA PickIsList ==
    ASSUME NEW s, IsList(s), NEW I \in SUBSET (DOMAIN s)
    PROVE  IsList(Pick(s, I))
<1>1. Cardinality(I) \in Nat
  BY Zenon, ListFacts, FS_Subset, FS_CardinalityType
<1> DEFINE at(k) == s[CHOOSE i \in I : Cardinality({j \in I : j < i}) = k - 1]
           S == {at(k) : k \in 1 .. Cardinality(I)}
<1>2. Pick(s, I) = [k \in 1 .. Cardinality(I) |-> at(k)]
  BY Zenon DEF Pick
<1> HIDE DEF at
<1>3. Pick(s, I) \in Seq(S)
  BY <1>1, <1>2
<1> QED BY Zenon, <1>3, ListOf

LEMMA DistinctIsList ==
    ASSUME NEW s, IsList(s)
    PROVE  IsList(Distinct(s))
  BY Zenon, PickIsList DEF Distinct

LEMMA UserLists ==
    ASSUME bp \in Blueprints
    PROVE  /\ IsList(bp.devices) /\ IsList(bp.facilities) /\ IsList(bp.services)
           /\ IsList(bp.executors) /\ IsList(bp.candidates) /\ IsList(bp.explicit)
           /\ IsList(bp.stores)
           /\ \A c : IsList(At(bp.depends, c, <<>>))
<1>1. IsBlueprint(bp)
  BY Zenon, BlueprintAssumption
<1>2. /\ bp.devices \in Seq(STRING) /\ bp.facilities \in Seq(STRING) /\ bp.services \in Seq(STRING)
      /\ bp.executors \in Seq(STRING) /\ bp.candidates \in Seq(STRING) /\ bp.explicit \in Seq(STRING)
      /\ bp.stores \in Seq(STRING)
      /\ Range(bp.depends) \subseteq Seq(STRING)
  BY <1>1, Zenon DEF IsBlueprint
<1>3. \A c : At(bp.depends, c, <<>>) \in Seq(STRING)
  <2>1. <<>> \in Seq(STRING)
    OBVIOUS
  <2>2. \A c \in DOMAIN bp.depends : bp.depends[c] \in Seq(STRING)
    BY Zenon, <1>2 DEF Range
  <2> QED BY Zenon, <2>1, <2>2 DEF At
<1> QED BY Zenon, <1>2, <1>3, ListOf

LEMMA EmptyAndSingle ==
    IsList(<<>>) /\ \A x : IsList(<<x>>)
<1>1. <<>> \in Seq({}) /\ \A x : <<x>> \in Seq({x})
  OBVIOUS
<1> QED BY Zenon, <1>1, ListOf

LEMMA RoutesAreList ==
    ASSUME bp \in Blueprints
    PROVE  IsList(RouteDependencies)
<1> DEFINE named == [k \in 1 .. 2 * Len(bp.routes) |->
                        IF k % 2 = 1 THEN bp.routes[(k + 1) \div 2].subscriber
                                     ELSE bp.routes[k \div 2].target]
           I == {k \in DOMAIN named : named[k] \notin {Inline, SystemWorkQueue}}
<1>1. bp.routes \in Seq([subscriber : STRING, target : STRING, task : STRING])
  BY Zenon, BlueprintAssumption DEF IsBlueprint
<1>2. 2 * Len(bp.routes) \in Nat
  BY <1>1
<1>3. RouteDependencies = Pick(named, I)
  BY Zenon DEF RouteDependencies
<1>4. IsList(named)
  <2> DEFINE n == 2 * Len(bp.routes)
             S == {named[k] : k \in 1 .. n}
  <2>1. named \in [1 .. n -> S]
    BY Zenon
  <2> HIDE DEF named, S, n
  <2>2. n \in Nat
    BY Zenon, <1>2 DEF n
  <2>3. named \in Seq(S)
    BY <2>1, <2>2
  <2> QED BY Zenon, <2>3, ListOf
<1>5. I \subseteq DOMAIN named
  BY Zenon
<1> HIDE DEF named, I
<1> QED BY Zenon, <1>3, <1>4, <1>5, PickIsList

LEMMA DependenciesAreList ==
    ASSUME bp \in Blueprints, NEW c
    PROVE  IsList(DependenciesOf(c))
<1>1. \A t : IsList(OnExecutor(t))
  BY Zenon, EmptyAndSingle DEF OnExecutor
<1>2. IsList(ComponentStores)
  BY Zenon, UserLists, PickIsList DEF ComponentStores
<1>3. IsList(IF bp.deferred THEN OnExecutor(bp.savesOn) ELSE <<>>)
  BY Zenon, <1>1, EmptyAndSingle
<1>4. IsList(Distinct(ComponentStores \o IF bp.deferred THEN OnExecutor(bp.savesOn) ELSE <<>>))
  BY Zenon, <1>2, <1>3, JoinIsList, DistinctIsList
<1>5. IsList(Bootstrap(c))
  BY <1>1, <1>4, EmptyAndSingle, Zenon DEF Bootstrap
<1>6. IsList(Distinct(RouteDependencies))
  BY Zenon, RoutesAreList, DistinctIsList
<1> QED BY <1>5, <1>6, EmptyAndSingle, UserLists, Zenon DEF DependenciesOf

(* What a component waits for is a list, whatever list it stands in. *)
LEMMA EdgesAreLists ==
    ASSUME bp \in Blueprints, NEW all, IsList(all), NEW c
    PROVE  IsList(EffectiveDependencies(c, all))
<1>1. IsList(GeneratedDependencies(c, all))
  BY Zenon, PickIsList DEF GeneratedDependencies
<1> QED BY Zenon, <1>1, DependenciesAreList, JoinIsList, DistinctIsList DEF EffectiveDependencies

LEMMA CandidatesAreList ==
    ASSUME bp \in Blueprints
    PROVE  IsList(Candidates)
<1> DEFINE S == {"Bus", "Parameters", "Events", "Metrics", "Log", "Inspection", "Remote", "Health"}
<1>1. GeneratedBuiltins \in Seq(S)
  BY DEF GeneratedBuiltins
<1>2. IsList(GeneratedBuiltins)
  BY Zenon, <1>1, ListOf
<1> QED BY Zenon, <1>2, UserLists, JoinIsList DEF Candidates

LEMMA ComponentsAreList ==
    ASSUME bp \in Blueprints
    PROVE  IsList(EffectiveComponents)
<1>1. IsList(EffectiveBuiltins)
  BY Zenon, CandidatesAreList, PickIsList, DistinctIsList DEF EffectiveBuiltins
<1>2. /\ IsList(IF "Remote" \in selected THEN <<"RemoteService">> ELSE <<>>)
      /\ IsList(IF bp.supervisor THEN <<"Supervisor">> ELSE <<>>)
  BY Zenon, EmptyAndSingle
<1> QED BY Zenon, <1>1, <1>2, UserLists, JoinIsList DEF EffectiveComponents

-----------------------------------------------------------------------------
(* The topological order.                                                   *)

Unsorted == {"sections", "provisional", "select", "compose", "graph", "walk", "final"}

(* A dependency of the component at index i comes at place p or later. *)
Awaits(i, p) == \E d \in Deps(components[i]) :
                    \A j \in DOMAIN sorted : j < p => components[sorted[j]] # d

(* Whatever has been overtaken still waited for a dependency then. *)
Overtaken == \A i \in remaining : \A p \in DOMAIN sorted : sorted[p] > i => Awaits(i, p)

(* Every index is either sorted, once, or still to come. *)
Partition ==
    /\ \A p, q \in DOMAIN sorted : sorted[p] = sorted[q] => p = q
    /\ \A p \in DOMAIN sorted : sorted[p] \notin remaining /\ sorted[p] \in 1 .. Len(components)
    /\ remaining \subseteq 1 .. Len(components)
    /\ \A i \in 1 .. Len(components) :
           i \in remaining \/ \E p \in DOMAIN sorted : sorted[p] = i

SortInv ==
    /\ sorted \in Seq(Nat) /\ remaining \subseteq Nat
    /\ stage \in Unsorted => sorted = <<>>
    /\ DependenciesFirst
    /\ StableOrder
    /\ Overtaken
    /\ stage \in {"sort", "accepted"} => Partition
    /\ stage = "accepted" => remaining = {}

(* Placing a component: the steps of the sort keep the invariant.           *)
LEMMA SortStepInv ==
    ASSUME SortInv, SortStep
    PROVE  SortInv'
<1> DEFINE n == Len(sorted)
<1>1. PICK i \in remaining : FirstReady(i) /\ sorted' = Append(sorted, i)
                             /\ remaining' = remaining \ {i}
  BY Zenon DEF SortStep
<1>2. /\ components' = components /\ edges' = edges /\ stage' = stage /\ stage = "sort"
      /\ \A c : Deps(c)' = Deps(c)
  BY Zenon DEF SortStep, Deps
<1>3. /\ i \in Nat /\ n \in Nat /\ sorted' \in Seq(Nat) /\ Len(sorted') = n + 1
      /\ DOMAIN sorted = 1 .. n /\ DOMAIN sorted' = 1 .. (n + 1)
      /\ \A p \in 1 .. n : sorted'[p] = sorted[p] /\ sorted[p] \in Nat
      /\ sorted'[n + 1] = i
  BY <1>1 DEF SortInv
<1> HIDE DEF n
<1>d. DOMAIN sorted = 1 .. n /\ DOMAIN sorted' = 1 .. (n + 1)
  BY Zenon, <1>3
<1>s. sorted'[n + 1] = i /\ \A p \in 1 .. n : sorted'[p] = sorted[p]
  BY Zenon, <1>3
<1>p. \A d : d \in Placed <=> \E k \in 1 .. n : components[sorted[k]] = d
  BY Zenon, <1>d DEF Placed
<1>4. \A d \in Deps(components[i]) : \E j \in 1 .. n : components[sorted[j]] = d
  BY Zenon, <1>1, <1>p DEF FirstReady, Ready
<1>5. \A j \in remaining : j < i => \E d \in Deps(components[j]) :
          \A k \in 1 .. n : components[sorted[k]] # d
  BY Zenon, <1>1, <1>p DEF FirstReady, Ready
<1>6. DependenciesFirst'
  <2> SUFFICES ASSUME NEW k \in 1 .. (n + 1), NEW d \in Deps(components[sorted'[k]])
               PROVE  \E j \in 1 .. (n + 1) : j < k /\ components[sorted'[j]] = d
    BY <1>2, <1>d, Zenon DEF DependenciesFirst
  <2>1. CASE k = n + 1
    <3>1. PICK j \in 1 .. n : components[sorted[j]] = d
      BY Zenon, <1>3, <1>4, <2>1
    <3>2. j \in 1 .. (n + 1) /\ j < k /\ sorted'[j] = sorted[j]
      BY <1>3, <2>1
    <3> QED BY Zenon, <3>1, <3>2
  <2>2. CASE k \in 1 .. n
    <3>1. PICK j \in 1 .. n : j < k /\ components[sorted[j]] = d
      BY Zenon, <1>d, <1>s, <2>2 DEF SortInv, DependenciesFirst
    <3>2. j \in 1 .. (n + 1) /\ sorted'[j] = sorted[j]
      BY <1>3
    <3> QED BY Zenon, <3>1, <3>2
  <2> QED BY <1>3, <2>1, <2>2
<1>7. Overtaken'
  <2>1. ASSUME NEW j \in remaining \ {i}, NEW p \in 1 .. (n + 1), sorted'[p] > j
        PROVE  Awaits(j, p)'
    <3>1. \E d \in Deps(components[j]) :
              \A k \in 1 .. (n + 1) : k < p => components[sorted'[k]] # d
      <4>1. CASE p = n + 1
        <5>1. j < i
          BY Zenon, <1>3, <2>1, <4>1 DEF SortInv
        <5>2. PICK d \in Deps(components[j]) : \A k \in 1 .. n : components[sorted[k]] # d
          BY Zenon, <1>5, <5>1
        <5>3. \A k \in 1 .. (n + 1) : k < p => k \in 1 .. n /\ sorted'[k] = sorted[k]
          BY <1>3, <4>1
        <5> QED BY Zenon, <5>2, <5>3
      <4>2. CASE p \in 1 .. n
        <5>1. sorted[p] > j
          BY Zenon, <1>3, <2>1, <4>2
        <5>2. Awaits(j, p)
          BY Zenon, <1>d, <4>2, <5>1 DEF SortInv, Overtaken
        <5>3. PICK d \in Deps(components[j]) : \A k \in DOMAIN sorted : k < p => components[sorted[k]] # d
          BY Zenon, <5>2 DEF Awaits
        <5>4. \A k \in 1 .. (n + 1) : k < p => k \in DOMAIN sorted /\ sorted'[k] = sorted[k]
          BY <1>3, <4>2
        <5> QED BY Zenon, <5>3, <5>4
      <4> QED BY <1>3, <4>1, <4>2
    <3> QED BY Zenon, <1>2, <1>d, <3>1 DEF Awaits
  <2> QED BY Zenon, <1>1, <1>d, <2>1 DEF Overtaken
<1>8. StableOrder'
  <2> SUFFICES ASSUME NEW p \in 1 .. (n + 1), NEW q \in 1 .. (n + 1),
                      p < q, sorted'[p] > sorted'[q]
               PROVE  \E r \in 1 .. (n + 1) : p <= r /\ r < q
                          /\ components[sorted'[r]] \in Deps(components[sorted'[q]])
    BY <1>2, <1>d, Zenon DEF StableOrder
  <2>1. p \in 1 .. n /\ sorted'[p] = sorted[p]
    BY <1>3
  <2>2. CASE q = n + 1
    <3>1. sorted'[q] = i /\ sorted[p] > i
      BY Zenon, <1>3, <2>1, <2>2
    <3>a. Awaits(i, p)
      BY Zenon, <1>d, <2>1, <3>1 DEF SortInv, Overtaken
    <3>2. PICK d \in Deps(components[i]) : \A j \in DOMAIN sorted : j < p => components[sorted[j]] # d
      BY Zenon, <3>a DEF Awaits
    <3>3. PICK r \in 1 .. n : components[sorted[r]] = d
      BY Zenon, <1>4, <3>2
    <3>b. ~(r < p)
      BY Zenon, <1>d, <3>2, <3>3
    <3>4. r \in 1 .. (n + 1) /\ p <= r /\ r < q /\ sorted'[r] = sorted[r]
      BY <1>3, <2>1, <2>2, <3>b
    <3> QED BY Zenon, <3>1, <3>3, <3>4
  <2>3. CASE q \in 1 .. n
    <3>1. sorted'[q] = sorted[q] /\ sorted[p] > sorted[q]
      BY Zenon, <1>3, <2>1, <2>3
    <3>2. PICK r \in 1 .. n : p <= r /\ r < q
                              /\ components[sorted[r]] \in Deps(components[sorted[q]])
      BY <1>d, <2>1, <2>3, <3>1, Zenon DEF SortInv, StableOrder
    <3>3. r \in 1 .. (n + 1) /\ sorted'[r] = sorted[r]
      BY <1>3
    <3> QED BY Zenon, <3>1, <3>2, <3>3
  <2> QED BY <1>3, <2>2, <2>3
<1>9. Partition'
  <2>1. Partition
    BY Zenon, <1>2 DEF SortInv
  <2>2. \A p \in 1 .. (n + 1) : p = n + 1 \/ p \in 1 .. n
    BY <1>3
  <2>3. \A p \in 1 .. n : sorted[p] # i
    BY Zenon, <1>3, <2>1 DEF Partition
  <2>4. \A p, q \in 1 .. (n + 1) : sorted'[p] = sorted'[q] => p = q
    BY Zenon, <1>3, <2>1, <2>2, <2>3 DEF Partition
  <2>5. n + 1 \in 1 .. (n + 1) /\ \A p \in 1 .. n : p \in 1 .. (n + 1)
    BY <1>3
  <2>6. \A k \in 1 .. Len(components) :
            k \in remaining \ {i} \/ \E p \in 1 .. (n + 1) : sorted'[p] = k
    BY Zenon, <1>3, <2>1, <2>5 DEF Partition
  <2>7. \A p \in 1 .. (n + 1) :
            sorted'[p] \notin remaining \ {i} /\ sorted'[p] \in 1 .. Len(components)
    BY Zenon, <1>1, <1>3, <2>1, <2>2 DEF Partition
  <2>8. remaining \ {i} \subseteq 1 .. Len(components)
    BY Zenon, <2>1 DEF Partition
  <2> QED BY Zenon, <1>1, <1>2, <1>3, <2>4, <2>6, <2>7, <2>8 DEF Partition
<1> QED BY Zenon, <1>1, <1>2, <1>3, <1>6, <1>7, <1>8, <1>9 DEF SortInv, Unsorted

-----------------------------------------------------------------------------
(* The walk that refuses cycles.                                            *)

(* A component no knot contains: everything below it ends. *)
Safe(c) == \A S \in SUBSET Range(components) : Knot(S) => c \notin S

AllSafe == \A c \in Range(components) : Safe(c)

Shape == IsList(components) /\ \A c \in Range(components) : IsList(edges[c])

Registered == \A c \in Range(components) : Deps(c) \subseteq Range(components)

Nodes == [node : Range(components), left : Seq(Range(components))]

(* A dependency of a component on the path is still to visit, has been      *)
(* found safe, or is the next one on the path.                              *)
Frame(k) ==
    /\ Range(walk[k].left) \subseteq Deps(walk[k].node)
    /\ \A d \in Deps(walk[k].node) :
           \/ d \in Range(walk[k].left)
           \/ Safe(d)
           \/ k + 1 \in DOMAIN walk /\ d = walk[k + 1].node

Linked(k) == k + 1 \in DOMAIN walk => walk[k + 1].node \in Deps(walk[k].node)

WalkInv ==
    /\ walk \in Seq(Nodes) /\ root \in Nat \ {0}
    /\ \A k \in DOMAIN walk : Frame(k) /\ Linked(k)
    /\ walk # <<>> => root > 1 /\ walk[1].node = components[root - 1]
    /\ \A i \in 1 .. Len(components) :
           i < root /\ (walk # <<>> => i # root - 1) => Safe(components[i])

LEMMA SafeByDependencies ==
    ASSUME NEW c, \A d \in Deps(c) : Safe(d)
    PROVE  Safe(c)
  BY Zenon DEF Safe, Knot

LEMMA SafeUnchanged ==
    ASSUME components' = components, edges' = edges
    PROVE  \A c : Safe(c)' <=> Safe(c)
  BY Zenon DEF Safe, Knot, Deps

LEMMA EnterRootInv ==
    ASSUME Shape, Registered, WalkInv, EnterRoot
    PROVE  WalkInv'
<1>1. /\ walk = <<>> /\ root \in Nat \ {0} /\ root \in 1 .. Len(components)
      /\ root' = root + 1 /\ components' = components /\ edges' = edges
      /\ walk' = <<[node |-> components[root], left |-> edges[components[root]]]>>
  BY ListFacts DEF EnterRoot, WalkInv, Shape
<1>2. PICK c : c = components[root]
  BY Zenon
<1>3. c \in Range(components)
  BY Zenon, <1>1, <1>2, ListFacts DEF Shape, Range
<1>4. edges[c] \in Seq(Range(components))
  <2>1. Range(edges[c]) \subseteq Range(components)
    BY Zenon, <1>3 DEF Registered, Deps
  <2>2. edges[c] \in Seq(Range(edges[c]))
    BY Zenon, <1>3 DEF Shape, IsList
  <2> QED BY <2>1, <2>2
<1>5. [node |-> c, left |-> edges[c]] \in Nodes
  BY Zenon, <1>3, <1>4 DEF Nodes
<1>6. /\ walk' \in Seq(Nodes) /\ DOMAIN walk' = {1} /\ walk' # <<>>
      /\ walk'[1] = [node |-> c, left |-> edges[c]]
  BY <1>1, <1>2, <1>5
<1>7. walk'[1].node = c /\ walk'[1].left = edges[c]
  BY <1>6
<1>8. \A k \in DOMAIN walk' : Frame(k)' /\ Linked(k)'
  <2>1. 1 + 1 \notin DOMAIN walk'
    BY <1>6
  <2> QED BY Zenon, <1>1, <1>6, <1>7, <2>1 DEF Frame, Linked, Deps
<1>9. \A i \in 1 .. Len(components) : i < root => Safe(components[i])
  BY Zenon, <1>1 DEF WalkInv
<1>10. root' \in Nat \ {0} /\ root' > 1 /\ root' - 1 = root
       /\ \A i \in 1 .. Len(components) : i < root' /\ i # root => i < root
  BY <1>1
<1>11. Nodes' = Nodes
  BY Zenon, <1>1 DEF Nodes
<1> QED BY Zenon, <1>1, <1>2, <1>6, <1>7, <1>8, <1>9, <1>10, <1>11, SafeUnchanged DEF WalkInv

LEMMA VisitInv ==
    ASSUME Shape, Registered, WalkInv, VisitDependency, ~(Head(Top.left) \in Path)
    PROVE  WalkInv'
<1> DEFINE n == Len(walk)
           d == Head(Top.left)
<1>1. /\ walk # <<>> /\ walk[n].left # <<>> /\ root' = root
      /\ components' = components /\ edges' = edges
      /\ walk' = Append([walk EXCEPT ![n].left = Tail(@)], [node |-> d, left |-> edges[d]])
  BY Zenon DEF VisitDependency, Top
<1>2. /\ walk \in Seq(Nodes) /\ n \in Nat /\ n >= 1 /\ n \in 1 .. n /\ DOMAIN walk = 1 .. n
      /\ walk[n] \in Nodes
  BY <1>1 DEF WalkInv
<1>3. /\ walk[n].left \in Seq(Range(components)) /\ walk[n].node \in Range(components)
      /\ d = walk[n].left[1] /\ d \in Range(components) /\ d \in Range(walk[n].left)
      /\ Tail(walk[n].left) \in Seq(Range(components))
      /\ Range(walk[n].left) = {d} \union Range(Tail(walk[n].left))
  <2>1. walk[n].left \in Seq(Range(components)) /\ walk[n].node \in Range(components)
    BY Zenon, <1>2 DEF Nodes
  <2>2. PICK l : l = walk[n].left
    BY Zenon
  <2>3. l \in Seq(Range(components)) /\ l # <<>> /\ d = l[1]
    BY <1>1, <2>1, <2>2 DEF Top
  <2>4. /\ d \in Range(components) /\ Tail(l) \in Seq(Range(components))
        /\ DOMAIN l = 1 .. Len(l) /\ DOMAIN Tail(l) = 1 .. (Len(l) - 1)
        /\ Len(l) \in Nat /\ Len(l) >= 1
        /\ \A i \in 1 .. (Len(l) - 1) : Tail(l)[i] = l[i + 1]
    BY <2>3
  <2>5. Range(l) = {d} \union Range(Tail(l))
    <3>1. ASSUME NEW x \in Range(l) PROVE x = d \/ x \in Range(Tail(l))
      <4>1. PICK i \in 1 .. Len(l) : x = l[i]
        BY Zenon, <2>4 DEF Range
      <4>2. i = 1 \/ (i - 1 \in 1 .. (Len(l) - 1) /\ Tail(l)[i - 1] = l[i])
        BY <2>4
      <4> QED BY Zenon, <2>3, <2>4, <4>1, <4>2 DEF Range
    <3>2. ASSUME NEW x \in Range(Tail(l)) PROVE x \in Range(l)
      <4>1. PICK i \in 1 .. (Len(l) - 1) : x = Tail(l)[i]
        BY Zenon, <2>4 DEF Range
      <4>2. i + 1 \in 1 .. Len(l) /\ x = l[i + 1]
        BY <2>4, <4>1
      <4> QED BY Zenon, <2>4, <4>2 DEF Range
    <3>3. d \in Range(l)
      <4>1. 1 \in 1 .. Len(l)
        BY <2>4
      <4> QED BY Zenon, <2>3, <2>4, <4>1 DEF Range
    <3> QED BY Zenon, <3>1, <3>2, <3>3
  <2>6. d \in Range(l)
    BY Zenon, <2>5
  <2>7. /\ d \in Range(walk[n].left) /\ d = walk[n].left[1]
        /\ Range(walk[n].left) = {d} \union Range(Tail(walk[n].left))
        /\ Tail(walk[n].left) \in Seq(Range(components))
    BY Zenon, <2>2, <2>3, <2>4, <2>5, <2>6
  <2> HIDE DEF d, n
  <2> QED BY Zenon, <2>1, <2>4, <2>7
<1>4. edges[d] \in Seq(Range(components))
  <2>1. Range(edges[d]) \subseteq Range(components)
    BY Zenon, <1>3 DEF Registered, Deps
  <2>2. edges[d] \in Seq(Range(edges[d]))
    BY Zenon, <1>3 DEF Shape, IsList
  <2> QED BY <2>1, <2>2
<1> HIDE DEF d, n
<1>5. /\ [node |-> d, left |-> edges[d]] \in Nodes
      /\ [walk[n] EXCEPT !.left = Tail(walk[n].left)] \in Nodes
  BY Zenon, <1>2, <1>3, <1>4 DEF Nodes
<1>6. /\ walk' \in Seq(Nodes) /\ Len(walk') = n + 1 /\ DOMAIN walk' = 1 .. (n + 1)
      /\ \A k \in 1 .. (n - 1) : walk'[k] = walk[k]
      /\ walk'[n] = [walk[n] EXCEPT !.left = Tail(walk[n].left)]
      /\ walk'[n + 1] = [node |-> d, left |-> edges[d]]
  <2> DEFINE w == [walk EXCEPT ![n] = [walk[n] EXCEPT !.left = Tail(walk[n].left)]]
  <2>1. walk' = Append(w, [node |-> d, left |-> edges[d]])
    BY Zenon, <1>1, <1>2
  <2>2. /\ w \in Seq(Nodes) /\ Len(w) = n
        /\ \A k \in 1 .. (n - 1) : w[k] = walk[k]
        /\ w[n] = [walk[n] EXCEPT !.left = Tail(walk[n].left)]
    BY <1>2, <1>5 DEF n
  <2> HIDE DEF w
  <2>3. \A k \in 1 .. (n - 1) : k \in 1 .. n
    BY <1>2
  <2>4. PICK e \in Nodes : e = [node |-> d, left |-> edges[d]]
    BY Zenon, <1>5
  <2>5. /\ Append(w, e) \in Seq(Nodes) /\ Len(Append(w, e)) = Len(w) + 1
        /\ DOMAIN Append(w, e) = 1 .. (Len(w) + 1)
        /\ \A k \in 1 .. Len(w) : Append(w, e)[k] = w[k]
        /\ Append(w, e)[Len(w) + 1] = e
    <3>1. w \in Seq(Nodes)
      BY Zenon, <2>2
    <3> QED BY Zenon, <3>1, AppendFacts
  <2> QED BY Zenon, <1>2, <2>1, <2>2, <2>3, <2>4, <2>5
<1>7. /\ walk'[n].node = walk[n].node /\ walk'[n].left = Tail(walk[n].left)
      /\ walk'[n + 1].node = d /\ walk'[n + 1].left = edges[d]
      /\ walk' # <<>>
  BY <1>2, <1>3, <1>6 DEF Nodes
<1>8. \A k \in 1 .. n : walk'[k].node = walk[k].node
  <2>1. \A k \in 1 .. n : k = n \/ k \in 1 .. (n - 1)
    BY <1>2
  <2> QED BY Zenon, <1>6, <1>7, <2>1
<1>9. d \in Deps(walk[n].node)
  BY Zenon, <1>2, <1>3 DEF WalkInv, Frame
<1>10. ASSUME NEW k \in DOMAIN walk' PROVE Frame(k)' /\ Linked(k)'
  <2>1. CASE k = n + 1
    <3>1. k + 1 \notin DOMAIN walk'
      BY <1>2, <1>6, <2>1
    <3> QED BY Zenon, <1>1, <1>7, <2>1, <3>1 DEF Frame, Linked, Deps
  <2>2. CASE k = n
    <3>1. k + 1 \in DOMAIN walk' /\ ~(k + 1 \in DOMAIN walk)
      BY <1>2, <1>6, <2>2
    <3>2. Frame(n)
      BY Zenon, <1>2 DEF WalkInv
    <3>3. /\ Range(walk'[n].left) \subseteq Deps(walk[n].node)
          /\ \A x \in Deps(walk[n].node) : x \in Range(walk'[n].left) \/ Safe(x) \/ x = walk'[n + 1].node
      BY Zenon, <1>3, <1>7, <2>2, <3>1, <3>2 DEF Frame
    <3> QED BY Zenon, <1>1, <1>7, <1>9, <2>2, <3>1, <3>3, SafeUnchanged DEF Frame, Linked, Deps
  <2>3. CASE k \in 1 .. (n - 1)
    <3>1. /\ k \in 1 .. n /\ k + 1 \in 1 .. n /\ k + 1 \in DOMAIN walk' /\ k + 1 \in DOMAIN walk
      BY <1>2, <1>6, <2>3
    <3>2. Frame(k) /\ Linked(k)
      BY Zenon, <1>2, <3>1 DEF WalkInv
    <3>3. walk'[k] = walk[k] /\ walk'[k + 1].node = walk[k + 1].node
      BY Zenon, <1>6, <1>8, <2>3, <3>1
    <3> QED BY Zenon, <1>1, <3>1, <3>2, <3>3, SafeUnchanged DEF Frame, Linked, Deps
  <2>4. k = n + 1 \/ k = n \/ k \in 1 .. (n - 1)
    BY <1>2, <1>6
  <2> QED BY Zenon, <2>1, <2>2, <2>3, <2>4
<1>11. Nodes' = Nodes
  BY Zenon, <1>1 DEF Nodes
<1>12. walk'[1].node = walk[1].node
  <2>1. 1 \in 1 .. n
    BY <1>2
  <2> QED BY Zenon, <1>8, <2>1
<1> QED BY Zenon, <1>1, <1>6, <1>7, <1>10, <1>11, <1>12, SafeUnchanged DEF WalkInv

LEMMA LeaveInv ==
    ASSUME Shape, Registered, WalkInv, LeaveComponent
    PROVE  WalkInv'
<1> DEFINE n == Len(walk)
<1>1. /\ walk # <<>> /\ walk[n].left = <<>> /\ root' = root
      /\ components' = components /\ edges' = edges /\ walk' = SubSeq(walk, 1, Len(walk) - 1)
  BY Zenon DEF LeaveComponent, Top
<1>2. /\ walk \in Seq(Nodes) /\ n \in Nat /\ n >= 1 /\ n \in 1 .. n /\ DOMAIN walk = 1 .. n
      /\ n + 1 \notin 1 .. n
  BY <1>1 DEF WalkInv
<1>3. /\ walk' \in Seq(Nodes) /\ DOMAIN walk' = 1 .. (n - 1)
      /\ \A k \in 1 .. (n - 1) : walk'[k] = walk[k]
      /\ walk' = <<>> <=> n = 1
  BY Zenon, <1>1, <1>2, FrontFacts
<1>4. Safe(walk[n].node)
  <2>1. Range(walk[n].left) = {}
    BY <1>1 DEF Range
  <2>2. \A d \in Deps(walk[n].node) : Safe(d)
    BY Zenon, <1>2, <2>1 DEF WalkInv, Frame
  <2> QED BY Zenon, <2>2, SafeByDependencies
<1> HIDE DEF n
<1>5. ASSUME NEW k \in DOMAIN walk' PROVE Frame(k)' /\ Linked(k)'
  <2>1. /\ k \in 1 .. n /\ k + 1 \in 1 .. n
        /\ k + 1 \in DOMAIN walk' \/ k + 1 = n
        /\ k + 1 \in DOMAIN walk' => walk'[k + 1] = walk[k + 1]
        /\ walk'[k] = walk[k]
    BY <1>2, <1>3
  <2>2. Frame(k) /\ Linked(k)
    BY Zenon, <1>2, <2>1 DEF WalkInv
  <2>3. \A d \in Deps(walk[k].node) :
            d \in Range(walk[k].left) \/ Safe(d) \/ (k + 1 \in DOMAIN walk' /\ d = walk[k + 1].node)
    BY Zenon, <1>4, <2>1, <2>2 DEF Frame
  <2> QED BY Zenon, <1>1, <1>2, <2>1, <2>2, <2>3, SafeUnchanged DEF Frame, Linked, Deps
<1>6. Nodes' = Nodes
  BY Zenon, <1>1 DEF Nodes
<1>7. ASSUME walk' # <<>> PROVE root > 1 /\ walk'[1].node = components[root - 1]
  <2>1. 1 \in 1 .. (n - 1)
    BY <1>2, <1>3, <1>7
  <2> QED BY Zenon, <1>1, <1>3, <2>1 DEF WalkInv
<1>8. ASSUME NEW i \in 1 .. Len(components), i < root, walk' # <<>> => i # root - 1
      PROVE  Safe(components[i])
  <2>1. CASE i # root - 1
    BY Zenon, <1>8, <2>1 DEF WalkInv
  <2>2. CASE i = root - 1
    <3>1. n = 1
      BY Zenon, <1>3, <1>8, <2>2
    <3> QED BY Zenon, <1>1, <1>4, <2>2, <3>1 DEF WalkInv
  <2> QED BY Zenon, <2>1, <2>2
<1>9. root \in Nat \ {0}
  BY Zenon DEF WalkInv
<1> QED BY Zenon, <1>1, <1>3, <1>5, <1>6, <1>7, <1>8, <1>9, SafeUnchanged DEF WalkInv

(* Meeting a component of the path again shows a knot: the part of the path *)
(* from that component on.                                                  *)
LEMMA CycleIsKnot ==
    ASSUME Registered, WalkInv, walk # <<>>, Top.left # <<>>, Head(Top.left) \in Path
    PROVE  \E S \in SUBSET Range(components) : Knot(S)
<1> DEFINE n == Len(walk)
<1>1. /\ walk \in Seq(Nodes) /\ n \in Nat /\ n \in 1 .. n /\ DOMAIN walk = 1 .. n
      /\ \A k \in 1 .. n : walk[k] \in Nodes
  BY DEF WalkInv
<1>2. \A k \in 1 .. n : walk[k].node \in Range(components) /\ walk[k].left \in Seq(Range(components))
  BY Zenon, <1>1 DEF Nodes
<1>3. PICK m \in 1 .. n : walk[m].node = Head(Top.left)
  BY Zenon, <1>1 DEF Path
<1>4. Head(Top.left) \in Range(walk[n].left)
  <2>1. walk[n].left \in Seq(Range(components)) /\ walk[n].left # <<>> /\ Top = walk[n]
    BY Zenon, <1>1, <1>2 DEF Top
  <2>2. 1 \in DOMAIN walk[n].left /\ Head(Top.left) = walk[n].left[1]
    BY <2>1
  <2> QED BY Zenon, <2>2 DEF Range
<1> HIDE DEF n
<1>5. walk[m].node \in Deps(walk[n].node)
  BY Zenon, <1>1, <1>3, <1>4 DEF WalkInv, Frame
<1> DEFINE S == {walk[k].node : k \in m .. n}
<1>6. \A k \in m .. n : k \in 1 .. n
  BY <1>1, <1>3
<1>7. m \in m .. n /\ \A k \in m .. n : k = n \/ (k + 1 \in m .. n /\ k + 1 \in 1 .. n)
  BY <1>1, <1>3
<1>8. \A k \in m .. n : \E x \in Deps(walk[k].node) : x \in S
  <2> SUFFICES ASSUME NEW k \in m .. n PROVE \E x \in Deps(walk[k].node) : x \in S
    BY Zenon
  <2>1. CASE k = n
    BY Zenon, <1>5, <1>7, <2>1
  <2>2. CASE k + 1 \in m .. n /\ k + 1 \in 1 .. n
    <3>1. walk[k + 1].node \in Deps(walk[k].node)
      BY Zenon, <1>1, <1>6, <2>2 DEF WalkInv, Linked
    <3> QED BY Zenon, <2>2, <3>1
  <2> QED BY Zenon, <1>7, <2>1, <2>2
<1>9. S \in SUBSET Range(components) /\ S # {}
  BY Zenon, <1>2, <1>6, <1>7
<1>10. \A c \in S : \E x \in Deps(c) : x \in S
  BY Zenon, <1>8
<1> HIDE DEF S
<1> QED BY Zenon, <1>9, <1>10 DEF Knot

(* Without a knot some component that is not sorted yet is ready. *)
LEMMA SomeReady ==
    ASSUME Shape, Registered, AllSafe, Partition, remaining # {}
    PROVE  \E i \in remaining : Ready(i)
<1> SUFFICES ASSUME \A i \in remaining : ~Ready(i) PROVE FALSE
  BY Zenon
<1> DEFINE S == {components[i] : i \in remaining}
<1>1. \A i \in 1 .. Len(components) : i \in remaining \/ \E p \in DOMAIN sorted : sorted[p] = i
  BY Zenon DEF Partition
<1>2. \A i \in remaining : components[i] \in Range(components)
  <2>1. DOMAIN components = 1 .. Len(components)
    BY Zenon, ListFacts DEF Shape
  <2> QED BY Zenon, <2>1 DEF Partition, Range
<1>3. ASSUME NEW i \in remaining PROVE \E d \in Deps(components[i]) : d \in S
  <2>1. PICK d \in Deps(components[i]) : d \notin Placed
    BY Zenon DEF Ready
  <2>2. d \in Range(components)
    BY Zenon, <1>2, <2>1 DEF Registered
  <2>3. PICK j \in 1 .. Len(components) : d = components[j]
    BY Zenon, <2>2, ListFacts DEF Range, Shape
  <2>4. j \in remaining
    BY Zenon, <1>1, <2>1, <2>3 DEF Placed
  <2> QED BY Zenon, <2>3, <2>4
<1>4. \A c \in S : \E d \in Deps(c) : d \in S
  BY Zenon, <1>3
<1>5. S \in SUBSET Range(components) /\ S # {}
  BY Zenon, <1>2
<1>6. PICK c : c \in S
  BY Zenon, <1>5
<1> HIDE DEF S
<1>7. Knot(S)
  BY Zenon, <1>4, <1>5 DEF Knot
<1> QED BY Zenon, <1>5, <1>6, <1>7 DEF AllSafe, Safe

-----------------------------------------------------------------------------
(* The graph through the stages.                                            *)

Unbuilt == {"sections", "provisional", "select", "compose"}
Stages  == Unsorted \union {"sort", "accepted", "rejected"}

GraphInv ==
    /\ bp \in Blueprints /\ stage \in Stages
    /\ stage \in Unbuilt \union {"graph"} => walk = <<>> /\ root = 1
    /\ stage \in {"graph", "walk", "final", "sort", "accepted"} => Shape
    /\ stage \in {"walk", "final", "sort", "accepted"} => Registered
    /\ stage = "walk" => WalkInv
    /\ stage \in {"final", "sort", "accepted"} => AllSafe
    /\ stage # "rejected" => verdict = "none"
    /\ verdict = "DependencyCycle" => \E S \in SUBSET Range(components) : Knot(S)

(* No other check has the diagnostic of a cycle. *)
LEMMA OtherDiagnostics ==
    /\ SectionDiagnostic # "DependencyCycle" /\ SectionDiagnostic # "RequirementCycle"
    /\ CatalogDiagnostic # "DependencyCycle" /\ CatalogDiagnostic # "RequirementCycle"
    /\ CeilingDiagnostic # "DependencyCycle" /\ CeilingDiagnostic # "RequirementCycle"
    /\ PolicyDiagnostic # "DependencyCycle" /\ PolicyDiagnostic # "RequirementCycle"
<1>1. SectionDiagnostic # "DependencyCycle" /\ SectionDiagnostic # "RequirementCycle"
  BY Zenon DEF SectionDiagnostic
<1>2. CatalogDiagnostic # "DependencyCycle" /\ CatalogDiagnostic # "RequirementCycle"
  BY Zenon DEF CatalogDiagnostic
<1>3. CeilingDiagnostic # "DependencyCycle" /\ CeilingDiagnostic # "RequirementCycle"
  BY Zenon DEF CeilingDiagnostic
<1>4. PolicyDiagnostic # "DependencyCycle" /\ PolicyDiagnostic # "RequirementCycle"
  BY Zenon DEF PolicyDiagnostic
<1> QED BY Zenon, <1>1, <1>2, <1>3, <1>4

LEMMA KnotUnchanged ==
    ASSUME components' = components, edges' = edges
    PROVE  /\ Shape' <=> Shape
           /\ Registered' <=> Registered
           /\ AllSafe' <=> AllSafe
           /\ Range(components)' = Range(components)
           /\ \A S : Knot(S)' <=> Knot(S)
<1>1. Shape' <=> Shape
  BY Zenon DEF Shape, Range
<1>2. Registered' <=> Registered
  BY Zenon DEF Registered, Deps
<1>3. AllSafe' <=> AllSafe
  BY Zenon, SafeUnchanged DEF AllSafe
<1> QED BY Zenon, <1>1, <1>2, <1>3 DEF Knot, Deps

(* A step that leaves the graph alone and does not enter a stage that needs *)
(* more of it.                                                              *)
LEMMA GraphFrame ==
    ASSUME GraphInv, bp' = bp, UNCHANGED <<components, edges, root, walk>>,
           \/ stage' = "rejected" /\ verdict' # "DependencyCycle"
           \/ /\ verdict' = verdict
              /\ \/ stage' = stage
                 \/ stage \in Unbuilt /\ stage' \in Unbuilt
                 \/ stage \in {"final", "sort"} /\ stage' \in {"sort", "accepted"}
    PROVE  GraphInv'
<1>1. WalkInv => WalkInv'
  <2>1. \A k : Frame(k) => Frame(k)'
    BY Zenon, SafeUnchanged DEF Frame, Deps
  <2>2. \A k : Linked(k) => Linked(k)'
    BY Zenon DEF Linked, Deps
  <2>3. Nodes' = Nodes
    BY Zenon DEF Nodes
  <2> QED BY Zenon, <2>1, <2>2, <2>3, SafeUnchanged DEF WalkInv
<1>2. stage' \in Stages
  BY Zenon DEF GraphInv, Stages, Unsorted, Unbuilt
<1>3. CASE stage' = "rejected" /\ verdict' # "DependencyCycle"
  BY Zenon, <1>2, <1>3 DEF GraphInv, Unbuilt
<1>4. CASE verdict' = verdict /\ stage' = stage
  <2>1. (\E S \in SUBSET Range(components) : Knot(S)) => (\E S \in SUBSET Range(components) : Knot(S))'
    BY Zenon, KnotUnchanged
  <2> QED BY Zenon, <1>1, <1>2, <1>4, <2>1, KnotUnchanged DEF GraphInv
<1>5. CASE verdict' = verdict /\ stage' \in Unbuilt /\ stage \in Unbuilt
  BY Zenon, <1>2, <1>5 DEF GraphInv, Unbuilt
<1>6. CASE verdict' = verdict /\ stage' \in {"sort", "accepted"} /\ stage \in {"final", "sort"}
  BY Zenon, <1>2, <1>6, KnotUnchanged DEF GraphInv, Unbuilt
<1> QED BY Zenon, <1>3, <1>4, <1>5, <1>6

LEMMA GraphStepInv ==
    ASSUME GraphInv, [Next]_vars
    PROVE  GraphInv'
<1>1. CASE ValidateSections
  <2>1. /\ bp' = bp /\ UNCHANGED <<components, edges, root, walk>> /\ stage = "sections"
        /\ \/ stage' = "rejected" /\ verdict' = SectionDiagnostic
           \/ stage' = "provisional" /\ verdict' = verdict
    BY Zenon, <1>1 DEF ValidateSections, Reject, graphVars
  <2> QED BY Zenon, <2>1, OtherDiagnostics, GraphFrame DEF Unbuilt
<1>2. CASE BuildArchitectures
  <2>1. /\ bp' = bp /\ UNCHANGED <<components, edges, root, walk>> /\ stage = "provisional"
        /\ \/ stage' = "rejected" /\ verdict' = CatalogDiagnostic
           \/ stage' = "rejected" /\ verdict' = "ExecutorMissing"
           \/ stage' = "select" /\ verdict' = verdict
    BY Zenon, <1>2 DEF BuildArchitectures, Reject, graphVars
  <2> QED BY Zenon, <2>1, OtherDiagnostics, GraphFrame DEF Unbuilt
<1>3. CASE ConsiderCandidate
  BY Zenon, <1>3, GraphFrame DEF ConsiderCandidate, graphVars
<1>4. CASE EndPass
  <2>1. /\ bp' = bp /\ UNCHANGED <<components, edges, root, walk>> /\ stage = "select"
        /\ \/ stage' = "compose" /\ verdict' = verdict
           \/ stage' = "rejected" /\ verdict' = "RequirementCycle"
           \/ stage' = stage /\ verdict' = verdict
    BY Zenon, <1>4 DEF EndPass, Reject, graphVars
  <2> QED BY Zenon, <2>1, GraphFrame DEF Unbuilt
<1>5. CASE Compose
  <2>1. /\ bp' = bp /\ stage = "compose"
        /\ \/ /\ stage' = "rejected" /\ verdict' \in {"DisabledBuiltin", "MissingRequirement"}
              /\ UNCHANGED graphVars
           \/ stage' = "graph" /\ SetComponents(EffectiveComponents) /\ verdict' = verdict
    BY <1>5, Zenon DEF Compose, Reject
  <2>2. CASE UNCHANGED graphVars /\ stage' = "rejected" /\ verdict' \in {"DisabledBuiltin", "MissingRequirement"}
    BY Zenon, <2>1, <2>2, GraphFrame DEF graphVars
  <2>3. CASE stage' = "graph" /\ SetComponents(EffectiveComponents) /\ verdict' = verdict
    <3>1. bp \in Blueprints
      BY Zenon DEF GraphInv
    <3>2. IsList(EffectiveComponents)
      BY Zenon, <3>1, ComponentsAreList
    <3>3. \A c : IsList(EffectiveDependencies(c, EffectiveComponents))
      BY Zenon, <3>1, <3>2, EdgesAreLists
    <3>4. Shape'
      BY Zenon, <2>3, <3>2, <3>3 DEF Shape, SetComponents
    <3>5. verdict' = "none" /\ walk' = <<>> /\ root' = 1
      BY Zenon, <2>1, <2>3 DEF GraphInv, SetComponents, Unbuilt
    <3> QED BY Zenon, <2>1, <2>3, <3>1, <3>4, <3>5 DEF GraphInv, Stages, Unsorted, Unbuilt
  <2> QED BY Zenon, <2>1, <2>2, <2>3
<1>6. CASE CollectAll
  <2>1. /\ bp' = bp /\ UNCHANGED <<components, edges, root, walk>> /\ Walked
        /\ \/ stage' = "rejected" /\ verdict' = "UnregisteredTag"
           \/ stage' = "final" /\ verdict' = verdict
    BY Zenon, <1>6 DEF CollectAll, Reject, graphVars
  <2>2. CASE stage' = "rejected" /\ verdict' = "UnregisteredTag"
    BY Zenon, <2>1, <2>2, GraphFrame
  <2>3. CASE stage' = "final" /\ verdict' = verdict
    <3>1. /\ Shape /\ Registered /\ WalkInv /\ walk = <<>> /\ root > Len(components)
          /\ root \in Nat /\ verdict = "none" /\ bp \in Blueprints
      BY Zenon, <2>1 DEF GraphInv, Walked, WalkInv
    <3>2. ASSUME NEW c \in Range(components) PROVE Safe(c)
      <4>1. Len(components) \in Nat /\ DOMAIN components = 1 .. Len(components)
        BY Zenon, <3>1, ListFacts DEF Shape
      <4>2. PICK i \in 1 .. Len(components) : c = components[i]
        BY Zenon, <4>1 DEF Range
      <4>3. i < root
        BY <3>1, <4>1
      <4> QED BY Zenon, <3>1, <4>2, <4>3 DEF WalkInv
    <3>3. AllSafe
      BY Zenon, <3>2 DEF AllSafe
    <3> QED BY Zenon, <2>1, <2>3, <3>1, <3>3, KnotUnchanged DEF GraphInv, Stages, Unsorted, Unbuilt
  <2> QED BY Zenon, <2>1, <2>2, <2>3
<1>7. CASE Order
  <2>1. /\ bp' = bp /\ UNCHANGED <<components, edges, root, walk>> /\ stage = "final"
        /\ \/ stage' = "rejected" /\ verdict' = CatalogDiagnostic
           \/ stage' = "rejected" /\ verdict' = CeilingDiagnostic
           \/ stage' = "sort" /\ verdict' = verdict
    BY Zenon, <1>7 DEF Order, Reject, graphVars, StartSort
  <2> QED BY Zenon, <2>1, OtherDiagnostics, GraphFrame
<1>8. CASE Accept
  <2>1. /\ bp' = bp /\ UNCHANGED <<components, edges, root, walk>> /\ stage = "sort"
        /\ \/ stage' = "rejected" /\ verdict' = PolicyDiagnostic
           \/ stage' = "accepted" /\ verdict' = verdict
    BY Zenon, <1>8 DEF Accept, Reject, graphVars
  <2> QED BY Zenon, <2>1, OtherDiagnostics, GraphFrame
<1>9. CASE ValidateDependencies
  <2>1. /\ bp' = bp /\ UNCHANGED <<components, edges, root, walk>> /\ stage = "graph"
        /\ \/ stage' = "rejected" /\ verdict' \in {"DuplicateComponent", "MissingDependency"}
           \/ stage' = "walk" /\ verdict' = verdict /\ Registered
    BY Zenon, <1>9 DEF ValidateDependencies, Reject, graphVars, Registered
  <2>2. CASE stage' = "rejected" /\ verdict' \in {"DuplicateComponent", "MissingDependency"}
    BY Zenon, <2>1, <2>2, GraphFrame
  <2>3. CASE stage' = "walk" /\ verdict' = verdict /\ Registered
    <3>1. Shape /\ walk = <<>> /\ root = 1 /\ verdict = "none" /\ bp \in Blueprints
      BY Zenon, <2>1 DEF GraphInv
    <3>2. WalkInv'
      <4>1. /\ walk' = <<>> /\ root' = 1 /\ walk' \in Seq(Nodes') /\ DOMAIN walk' = {}
            /\ \A i \in 1 .. Len(components) : ~(i < 1)
        BY <2>1, <3>1, ListFacts DEF Shape
      <4>2. 1 \in Nat \ {0}
        OBVIOUS
      <4> QED BY Zenon, <2>1, <4>1, <4>2 DEF WalkInv
    <3> QED BY Zenon, <2>1, <2>3, <3>1, <3>2, KnotUnchanged DEF GraphInv, Stages, Unsorted, Unbuilt
  <2> QED BY Zenon, <2>1, <2>2, <2>3
<1>10. ASSUME EnterRoot \/ (VisitDependency /\ ~(Head(Top.left) \in Path)) \/ LeaveComponent
       PROVE  GraphInv'
  <2>1. /\ bp' = bp /\ components' = components /\ edges' = edges
        /\ stage = "walk" /\ stage' = "walk" /\ verdict' = verdict
    BY Zenon, <1>10 DEF EnterRoot, VisitDependency, LeaveComponent
  <2>2. Shape /\ Registered /\ WalkInv /\ verdict = "none" /\ bp \in Blueprints
    BY Zenon, <2>1 DEF GraphInv
  <2>3. WalkInv'
    BY Zenon, <1>10, <2>2, EnterRootInv, VisitInv, LeaveInv
  <2> QED BY Zenon, <2>1, <2>2, <2>3, KnotUnchanged DEF GraphInv, Stages, Unsorted, Unbuilt
<1>11. CASE VisitDependency /\ Head(Top.left) \in Path
  <2>1. /\ bp' = bp /\ components' = components /\ edges' = edges
        /\ stage = "walk" /\ stage' = "rejected" /\ walk # <<>> /\ Top.left # <<>>
    BY Zenon, <1>11 DEF VisitDependency, Reject
  <2>2. Shape /\ Registered /\ WalkInv /\ bp \in Blueprints
    BY Zenon, <2>1 DEF GraphInv
  <2>3. \E S \in SUBSET Range(components) : Knot(S)
    BY Zenon, <1>11, <2>1, <2>2, CycleIsKnot
  <2>4. (\E S \in SUBSET Range(components) : Knot(S))'
    BY Zenon, <2>1, <2>3, KnotUnchanged
  <2> QED BY Zenon, <2>1, <2>2, <2>4 DEF GraphInv, Stages, Unsorted, Unbuilt
<1>12. CASE SortStep
  <2>1. /\ bp' = bp /\ UNCHANGED <<components, edges, root, walk>>
        /\ stage' = stage /\ verdict' = verdict
    BY Zenon, <1>12 DEF SortStep
  <2> QED BY Zenon, <2>1, GraphFrame
<1>13. CASE CatalogStep
  <2>1. /\ bp' = bp /\ UNCHANGED <<components, edges, root, walk>>
        /\ \/ stage' = "rejected" /\ verdict' = "RecursiveExpansion"
           \/ stage' = stage /\ verdict' = verdict
    BY Zenon, <1>13 DEF CatalogStep, ExpandPending, FinalizeEntry, ExpandDeclaration, Reject, graphVars
  <2> QED BY Zenon, <2>1, GraphFrame
<1>14. CASE UNCHANGED vars
  BY Zenon, <1>14, GraphFrame DEF vars, graphVars
<1> QED BY Zenon, <1>1, <1>2, <1>3, <1>4, <1>5, <1>6, <1>7, <1>8, <1>9, <1>10, <1>11, <1>12,
           <1>13, <1>14 DEF Next, Step, GraphStep, Ended

LEMMA SortFrame ==
    ASSUME SortInv, UNCHANGED <<components, edges, remaining, sorted>>,
           \/ stage' = "rejected"
           \/ stage' = stage
           \/ stage \in Unsorted /\ stage' \in Unsorted
           \/ stage = "sort" /\ stage' = "accepted" /\ remaining = {}
    PROVE  SortInv'
<1> \A c : Deps(c)' = Deps(c)
  BY Zenon DEF Deps
<1>1. DependenciesFirst' /\ StableOrder'
  <2>1. DependenciesFirst'
    <3>1. \A k \in DOMAIN sorted : \A d \in Deps(components[sorted[k]]) :
              \E j \in DOMAIN sorted : j < k /\ components[sorted[j]] = d
      BY Zenon DEF SortInv, DependenciesFirst
    <3> QED BY <3>1 DEF DependenciesFirst, Deps
  <2>2. StableOrder'
    BY Zenon DEF SortInv, StableOrder
  <2> QED BY Zenon, <2>1, <2>2
<1>2. Overtaken'
  <2>1. \A i, p : Awaits(i, p) => Awaits(i, p)'
    BY Zenon DEF Awaits
  <2> QED BY Zenon, <2>1 DEF SortInv, Overtaken
<1>3. Partition => Partition'
  BY Zenon DEF Partition
<1>4. sorted' \in Seq(Nat) /\ remaining' \subseteq Nat
  BY Zenon DEF SortInv
<1>5. stage' \in Unsorted => sorted' = <<>>
  BY Zenon DEF SortInv, Unsorted
<1>6. stage' \in {"sort", "accepted"} => Partition'
  BY Zenon, <1>3 DEF SortInv, Unsorted
<1>7. stage' = "accepted" => remaining' = {}
  BY Zenon DEF SortInv, Unsorted
<1> QED BY Zenon, <1>1, <1>2, <1>4, <1>5, <1>6, <1>7 DEF SortInv

(* Nothing is sorted while the list of components is still being made. *)
LEMMA NothingSorted ==
    ASSUME sorted' = <<>>, remaining' \subseteq Nat, stage' \notin {"sort", "accepted"} \/ Partition',
           stage' # "accepted"
    PROVE  SortInv'
<1>1. DOMAIN sorted' = {} /\ sorted' \in Seq(Nat)
  OBVIOUS
<1> QED BY Zenon, <1>1 DEF SortInv, DependenciesFirst, StableOrder, Overtaken

LEMMA SortInvStep ==
    ASSUME SortInv, GraphInv, [Next]_vars
    PROVE  SortInv'
<1>1. CASE ValidateSections \/ BuildArchitectures \/ ConsiderCandidate \/ EndPass
  <2>1. /\ UNCHANGED <<components, edges, remaining, sorted>> /\ stage \in Unsorted
        /\ stage' = "rejected" \/ stage' \in Unsorted
    BY Zenon, <1>1 DEF ValidateSections, BuildArchitectures, ConsiderCandidate, EndPass, Reject,
                graphVars, Unsorted
  <2> QED BY Zenon, <2>1, SortFrame
<1>2. CASE Compose
  <2>1. /\ sorted' = sorted /\ remaining' = remaining /\ stage = "compose"
        /\ stage' \in {"rejected", "graph"}
    BY Zenon, <1>2 DEF Compose, Reject, SetComponents, graphVars
  <2>2. sorted' = <<>> /\ remaining' \subseteq Nat
    BY Zenon, <2>1 DEF SortInv, Unsorted
  <2> QED BY Zenon, <2>1, <2>2, NothingSorted
<1>3. CASE CollectAll
  <2>1. /\ UNCHANGED <<components, edges, remaining, sorted>> /\ stage \in Unsorted
        /\ stage' = "rejected" \/ stage' \in Unsorted
    BY Zenon, <1>3 DEF CollectAll, Walked, Reject, graphVars, Unsorted
  <2> QED BY Zenon, <2>1, SortFrame
<1>4. CASE Order
  <2>1. /\ sorted' = sorted /\ components' = components /\ edges' = edges /\ stage = "final"
        /\ \/ stage' = "rejected" /\ remaining' = remaining
           \/ stage' = "sort" /\ remaining' = 1 .. Len(components)
    BY Zenon, <1>4 DEF Order, Reject, StartSort, graphVars
  <2>2. CASE stage' = "rejected" /\ remaining' = remaining
    BY Zenon, <2>1, <2>2, SortFrame
  <2>3. CASE stage' = "sort" /\ remaining' = 1 .. Len(components)
    <3>1. sorted' = <<>> /\ Len(components) \in Nat
      BY Zenon, <2>1, ListFacts DEF SortInv, Unsorted, GraphInv, Shape
    <3>2. DOMAIN sorted' = {}
      BY <3>1
    <3>3. Partition'
      BY Zenon, <2>1, <2>3, <3>2 DEF Partition
    <3>4. remaining' \subseteq Nat
      BY <2>3, <3>1
    <3> QED BY Zenon, <2>3, <3>1, <3>3, <3>4, NothingSorted
  <2> QED BY Zenon, <2>1, <2>2, <2>3
<1>5. CASE Accept
  <2>1. /\ UNCHANGED <<components, edges, remaining, sorted>> /\ stage = "sort" /\ remaining = {}
        /\ stage' \in {"rejected", "accepted"}
    BY Zenon, <1>5 DEF Accept, Reject, graphVars
  <2> QED BY Zenon, <2>1, SortFrame
<1>6. CASE ValidateDependencies \/ EnterRoot \/ VisitDependency \/ LeaveComponent
  <2>1. /\ UNCHANGED <<components, edges, remaining, sorted>> /\ stage \in Unsorted
        /\ stage' = "rejected" \/ stage' \in Unsorted
    BY Zenon, <1>6 DEF ValidateDependencies, EnterRoot, VisitDependency, LeaveComponent, Reject,
                graphVars, Unsorted
  <2> QED BY Zenon, <2>1, SortFrame
<1>7. CASE SortStep
  BY Zenon, <1>7, SortStepInv
<1>8. CASE CatalogStep
  <2>1. /\ UNCHANGED <<components, edges, remaining, sorted>>
        /\ stage' = "rejected" \/ stage' = stage
    BY Zenon, <1>8 DEF CatalogStep, ExpandPending, FinalizeEntry, ExpandDeclaration, Reject, graphVars
  <2> QED BY Zenon, <2>1, SortFrame
<1>9. CASE UNCHANGED vars
  BY Zenon, <1>9, SortFrame DEF vars, graphVars
<1> QED BY Zenon, <1>1, <1>2, <1>3, <1>4, <1>5, <1>6, <1>7, <1>8, <1>9
        DEF Next, Step, GraphStep, Ended

LEMMA GraphBegins ==
    ASSUME Init
    PROVE  GraphInv /\ SortInv
<1>1. /\ stage = "sections" /\ verdict = "none" /\ bp \in Blueprints /\ walk = <<>> /\ root = 1
      /\ sorted = <<>> /\ remaining = {} /\ DOMAIN sorted = {} /\ sorted \in Seq(Nat)
  BY DEF Init, GraphInit
<1>2. GraphInv
  BY Zenon, <1>1 DEF GraphInv, Stages, Unsorted
<1>3. SortInv
  BY Zenon, <1>1 DEF SortInv, DependenciesFirst, StableOrder, Overtaken
<1> QED BY Zenon, <1>2, <1>3

(* The inductive invariant of the component graph, for every blueprint. *)
THEOREM GraphInvariant == Spec => [](GraphInv /\ SortInv)
<1>1. Init => GraphInv /\ SortInv
  BY Zenon, GraphBegins
<1>2. GraphInv /\ SortInv /\ [Next]_vars => (GraphInv /\ SortInv)'
  BY Zenon, GraphStepInv, SortInvStep
<1> QED BY <1>1, <1>2, PTL DEF Spec

(* For every blueprint: a component comes behind everything it depends on,  *)
(* the order of the blueprint is kept otherwise, and the walk refuses       *)
(* exactly the graphs with a cycle, so that the sort never gets stuck       *)
(* (graph.hpp ValidateComponentGraph, TopologicalSort).                     *)
THEOREM GraphIsSound == Spec => []GraphSound
<1>1. ASSUME GraphInv, SortInv PROVE GraphSound
  <2>1. DependenciesFirst /\ StableOrder
    BY Zenon, <1>1 DEF SortInv
  <2>2. verdict = "DependencyCycle" => \E S \in SUBSET Range(components) : Knot(S)
    BY Zenon, <1>1 DEF GraphInv
  <2>3. ASSUME stage = "sort", remaining # {} PROVE \E i \in remaining : Ready(i)
    <3>1. Shape /\ Registered /\ AllSafe /\ Partition
      BY Zenon, <1>1, <2>3 DEF GraphInv, SortInv
    <3> QED BY Zenon, <2>3, <3>1, SomeReady
  <2> QED BY Zenon, <2>1, <2>2, <2>3 DEF GraphSound, GraphVerdictExact
<1> QED BY <1>1, GraphInvariant, PTL

(* An accepted order has every component of the blueprint once. *)
Complete ==
    stage = "accepted" =>
        /\ \A i \in DOMAIN components : \E p \in DOMAIN sorted : sorted[p] = i
        /\ \A p, q \in DOMAIN sorted : sorted[p] = sorted[q] => p = q
        /\ \A p \in DOMAIN sorted : sorted[p] \in DOMAIN components

(* The order handed to the lifecycle engine is a permutation of the         *)
(* normalised component list (graph.hpp TopologicalSort).                   *)
THEOREM OrderIsComplete == Spec => []Complete
<1>1. ASSUME GraphInv, SortInv PROVE Complete
  <2> SUFFICES ASSUME stage = "accepted"
               PROVE  /\ \A i \in DOMAIN components : \E p \in DOMAIN sorted : sorted[p] = i
                      /\ \A p, q \in DOMAIN sorted : sorted[p] = sorted[q] => p = q
                      /\ \A p \in DOMAIN sorted : sorted[p] \in DOMAIN components
    BY Zenon DEF Complete
  <2>1. Partition /\ remaining = {} /\ Shape
    BY Zenon, <1>1 DEF GraphInv, SortInv
  <2>2. DOMAIN components = 1 .. Len(components)
    BY Zenon, <2>1, ListFacts DEF Shape
  <2>3. \A i \in 1 .. Len(components) : \E p \in DOMAIN sorted : sorted[p] = i
    BY Zenon, <2>1 DEF Partition
  <2>4. /\ \A p, q \in DOMAIN sorted : sorted[p] = sorted[q] => p = q
        /\ \A p \in DOMAIN sorted : sorted[p] \in 1 .. Len(components)
    BY Zenon, <2>1 DEF Partition
  <2> QED BY Zenon, <2>2, <2>3, <2>4
<1> QED BY <1>1, GraphInvariant, PTL

-----------------------------------------------------------------------------
(* The closure of the built-in facilities.                                  *)

Least == \A S \in SUBSET Range(Candidates) : Closed(S) => selected \subseteq S

(* A pass has looked at the candidates before the cursor, with at least     *)
(* what was selected when it began; every pass but the last one selects     *)
(* something, so the passes left and the facilities selected make up for    *)
(* the candidates.                                                          *)
PassInv ==
    /\ before \subseteq selected /\ selected \subseteq Range(Candidates)
    /\ cursor \in Nat \ {0} /\ rounds \in Nat
    /\ \A j \in DOMAIN Candidates :
           j < cursor /\ Requested(Candidates[j], before) => Candidates[j] \in selected
    /\ Least
    /\ rounds + Cardinality(before) >= Cardinality(Range(Candidates)) + 1

SelectInv ==
    /\ bp \in Blueprints
    /\ stage \in {"sections", "provisional"} => selected = {} /\ before = {} /\ cursor = 1
    /\ stage = "select" => PassInv
    /\ stage = "compose" => Closed(selected) /\ Least
    /\ verdict # "RequirementCycle"

LEMMA CandidatesFinite ==
    ASSUME bp \in Blueprints
    PROVE  IsFiniteSet(Range(Candidates)) /\ Cardinality(Range(Candidates)) \in Nat
<1>1. IsList(Candidates)
  BY Zenon, CandidatesAreList
<1>2. IsFiniteSet(DOMAIN Candidates) /\ Candidates \in Seq(Range(Candidates))
  BY Zenon, <1>1, ListFacts DEF IsList
<1>3. Candidates \in [DOMAIN Candidates -> Range(Candidates)]
  BY <1>2 DEF Range
<1>4. Candidates \in Surjection(DOMAIN Candidates, Range(Candidates))
  BY Zenon, <1>3 DEF Surjection, Range
<1> QED BY Zenon, <1>2, <1>4, FS_Surjection, FS_CardinalityType

(* More facilities request more. *)
LEMMA RequestedMonotone ==
    ASSUME NEW S, NEW T, S \subseteq T, NEW c, Requested(c, S)
    PROVE  Requested(c, T)
  BY Zenon DEF Requested

LEMMA ConsiderInv ==
    ASSUME bp \in Blueprints, PassInv, ConsiderCandidate
    PROVE  PassInv'
<1> DEFINE c == Candidates[cursor]
<1>1. /\ bp' = bp /\ before' = before /\ rounds' = rounds /\ cursor' = cursor + 1
      /\ provisional' = provisional /\ cursor <= Len(Candidates)
      /\ selected' = IF Requested(c, selected) THEN selected \union {c} ELSE selected
  BY Zenon DEF ConsiderCandidate, catalogVars
<1>2. /\ Candidates' = Candidates
      /\ \A x, S : Requested(x, S)' <=> Requested(x, S)
      /\ \A S : Closed(S)' <=> Closed(S)
  <2>1. Candidates' = Candidates
    BY Zenon, <1>1 DEF Candidates
  <2>2. \A x, S : Requested(x, S)' <=> Requested(x, S)
    BY Zenon, <1>1 DEF Requested, Wanted, AlwaysPresent, Demanded, DemandTags, Requirements
  <2> QED BY Zenon, <2>1, <2>2 DEF Closed
<1>3. /\ cursor \in Nat \ {0} /\ cursor \in DOMAIN Candidates
      /\ \A j \in DOMAIN Candidates : j < cursor + 1 => j < cursor \/ j = cursor
  BY <1>1, CandidatesAreList, ListFacts DEF PassInv
<1>4. c \in Range(Candidates)
  BY Zenon, <1>3 DEF Range
<1>5. before \subseteq selected /\ selected \subseteq selected'
  BY Zenon, <1>1 DEF PassInv
<1>6. selected' \subseteq Range(Candidates)
  BY Zenon, <1>1, <1>4 DEF PassInv
<1>7. ASSUME NEW j \in DOMAIN Candidates, j < cursor + 1, Requested(Candidates[j], before)
      PROVE  Candidates[j] \in selected'
  <2>1. CASE j < cursor
    BY Zenon, <1>5, <1>7, <2>1 DEF PassInv
  <2>2. CASE j = cursor
    BY Zenon, <1>1, <1>5, <1>7, <2>2, RequestedMonotone
  <2> QED BY Zenon, <1>3, <1>7, <2>1, <2>2
<1>8. ASSUME NEW S \in SUBSET Range(Candidates), Closed(S)
      PROVE  selected' \subseteq S
  <2>1. selected \subseteq S
    BY Zenon, <1>8 DEF PassInv, Least
  <2>2. Requested(c, selected) => c \in S
    BY Zenon, <1>4, <1>8, <2>1, RequestedMonotone DEF Closed
  <2> QED BY Zenon, <1>1, <2>1, <2>2
<1>9. cursor' \in Nat \ {0}
  BY <1>1, <1>3
<1>10. Least'
  BY Zenon, <1>2, <1>8 DEF Least
<1> QED BY Zenon, <1>1, <1>2, <1>5, <1>6, <1>7, <1>9, <1>10 DEF PassInv

LEMMA EndPassInv ==
    ASSUME bp \in Blueprints, PassInv, EndPass, verdict # "RequirementCycle"
    PROVE  /\ bp' = bp /\ stage' \in {"select", "compose"} /\ verdict' = verdict
           /\ stage' = "select" => PassInv'
           /\ stage' = "compose" => (Closed(selected) /\ Least)'
<1> DEFINE N == Cardinality(Range(Candidates))
<1>1. /\ bp' = bp /\ selected' = selected /\ provisional' = provisional
      /\ stage = "select" /\ cursor > Len(Candidates)
  BY Zenon DEF EndPass, catalogVars
<1>2. /\ Candidates' = Candidates
      /\ \A x, S : Requested(x, S)' <=> Requested(x, S)
      /\ \A S : Closed(S)' <=> Closed(S)
  <2>1. Candidates' = Candidates
    BY Zenon, <1>1 DEF Candidates
  <2>2. \A x, S : Requested(x, S)' <=> Requested(x, S)
    BY Zenon, <1>1 DEF Requested, Wanted, AlwaysPresent, Demanded, DemandTags, Requirements
  <2> QED BY Zenon, <2>1, <2>2 DEF Closed
<1>3. Least'
  BY Zenon, <1>1, <1>2 DEF Least, PassInv
<1>4. /\ DOMAIN Candidates = 1 .. Len(Candidates) /\ Len(Candidates) \in Nat
      /\ \A j \in DOMAIN Candidates : j < cursor
  BY <1>1, CandidatesAreList, ListFacts DEF PassInv
<1>5. CASE selected = before
  <2>1. stage' = "compose" /\ verdict' = verdict
    BY Zenon, <1>5 DEF EndPass
  <2>2. Closed(selected)
    BY Zenon, <1>4, <1>5 DEF Closed, PassInv, Range
  <2>3. Closed(selected)'
    BY Zenon, <1>1, <1>2, <2>2 DEF Closed
  <2> QED BY Zenon, <1>1, <1>3, <2>1, <2>3
<1>6. CASE selected # before
  <2>1. /\ N \in Nat /\ IsFiniteSet(Range(Candidates)) /\ IsFiniteSet(selected)
        /\ IsFiniteSet(before) /\ Cardinality(selected) \in Nat /\ Cardinality(before) \in Nat
    BY Zenon, CandidatesFinite, FS_Subset, FS_CardinalityType DEF PassInv
  <2>2. Cardinality(before) < Cardinality(selected)
    <3>1. before \in SUBSET selected
      BY Zenon DEF PassInv
    <3>2. Cardinality(before) <= Cardinality(selected) /\ Cardinality(before) # Cardinality(selected)
      BY Zenon, <1>6, <2>1, <3>1, FS_Subset
    <3> QED BY <2>1, <3>2
  <2>3. Cardinality(selected) <= N
    BY Zenon, <2>1, FS_Subset DEF PassInv
  <2>4. /\ rounds \in Nat /\ rounds # 0
        /\ (rounds - 1) + Cardinality(selected) >= N + 1 /\ rounds - 1 \in Nat
    BY <2>1, <2>2, <2>3 DEF PassInv
  <2>5. /\ stage' = "select" /\ verdict' = verdict /\ before' = selected /\ cursor' = 1
        /\ rounds' = rounds - 1
    BY Zenon, <1>1, <1>6, <2>4 DEF EndPass
  <2>6. /\ cursor' \in Nat \ {0}
        /\ \A j \in DOMAIN Candidates : ~(j < 1)
    BY <1>4, <2>5
  <2>7. PassInv'
    BY Zenon, <1>1, <1>2, <1>3, <2>4, <2>5, <2>6 DEF PassInv
  <2> QED BY Zenon, <1>1, <2>5, <2>7
<1> QED BY Zenon, <1>5, <1>6

Selecting == {"sections", "provisional", "select", "compose"}

LEMMA SelectFrame ==
    ASSUME SelectInv, bp' = bp, verdict' # "RequirementCycle",
           \/ stage' \notin Selecting
           \/ stage' = stage /\ UNCHANGED <<provisional, selectVars>>
           \/ stage = "sections" /\ stage' = "provisional" /\ UNCHANGED selectVars
    PROVE  SelectInv'
<1>1. CASE stage' \notin Selecting
  BY Zenon, <1>1 DEF SelectInv, Selecting
<1>2. CASE stage' = stage /\ UNCHANGED <<provisional, selectVars>>
  <2>1. Candidates' = Candidates
    BY Zenon DEF Candidates
  <2>2. \A x, S : Requested(x, S)' <=> Requested(x, S)
    BY Zenon, <1>2 DEF Requested, Wanted, AlwaysPresent, Demanded, DemandTags, Requirements
  <2>3. \A S : Closed(S)' <=> Closed(S)
    BY Zenon, <2>1, <2>2 DEF Closed
  <2>4. selected' = selected /\ before' = before /\ cursor' = cursor /\ rounds' = rounds
    BY Zenon, <1>2 DEF selectVars
  <2>5. Least => Least'
    BY Zenon, <2>1, <2>3, <2>4 DEF Least
  <2>6. PassInv => PassInv'
    BY Zenon, <2>1, <2>2, <2>4, <2>5 DEF PassInv
  <2>7. Closed(selected) => Closed(selected)'
    BY Zenon, <2>1, <2>2, <2>4 DEF Closed
  <2> QED BY Zenon, <1>2, <2>4, <2>5, <2>6, <2>7 DEF SelectInv
<1>3. CASE stage = "sections" /\ stage' = "provisional" /\ UNCHANGED selectVars
  BY Zenon, <1>3 DEF SelectInv, selectVars
<1> QED BY Zenon, <1>1, <1>2, <1>3

LEMMA SelectInvStep ==
    ASSUME SelectInv, [Next]_vars
    PROVE  SelectInv'
<1>1. CASE ValidateSections
  <2>1. /\ bp' = bp /\ UNCHANGED selectVars /\ stage = "sections"
        /\ \/ stage' = "rejected" /\ verdict' = SectionDiagnostic
           \/ stage' = "provisional" /\ verdict' = verdict
    BY Zenon, <1>1 DEF ValidateSections, Reject
  <2>2. verdict' # "RequirementCycle"
    BY Zenon, <2>1, OtherDiagnostics DEF SelectInv
  <2> QED BY Zenon, <2>1, <2>2, SelectFrame DEF Selecting
<1>2. CASE BuildArchitectures
  <2>1. /\ bp' = bp /\ UNCHANGED <<selected, before, cursor>> /\ stage = "provisional"
        /\ \/ stage' = "rejected" /\ verdict' = CatalogDiagnostic
           \/ stage' = "rejected" /\ verdict' = "ExecutorMissing"
           \/ /\ stage' = "select" /\ verdict' = verdict
              /\ rounds' = Cardinality(Range(Candidates)) + 1
    BY Zenon, <1>2 DEF BuildArchitectures, Reject
  <2>2. CASE stage' = "rejected"
    <3>1. verdict' # "RequirementCycle"
      BY Zenon, <2>1, <2>2, OtherDiagnostics
    <3> QED BY Zenon, <2>1, <2>2, <3>1, SelectFrame DEF Selecting
  <2>3. CASE stage' = "select" /\ verdict' = verdict /\ rounds' = Cardinality(Range(Candidates)) + 1
    <3>1. /\ selected' = {} /\ before' = {} /\ cursor' = 1 /\ bp' \in Blueprints
          /\ bp \in Blueprints /\ verdict' # "RequirementCycle"
      BY Zenon, <2>1, <2>3 DEF SelectInv
    <3>2. Candidates' = Candidates
      BY Zenon, <2>1 DEF Candidates
    <3>3. DOMAIN Candidates = 1 .. Len(Candidates) /\ Len(Candidates) \in Nat
      BY Zenon, <3>1, CandidatesAreList, ListFacts
    <3>4. \A j \in DOMAIN Candidates : ~(j < 1)
      BY <3>3
    <3>5. Cardinality(Range(Candidates)) \in Nat /\ Cardinality(before') = 0
      BY Zenon, <3>1, CandidatesFinite, FS_EmptySet
    <3>6. /\ rounds' \in Nat /\ cursor' \in Nat \ {0}
          /\ rounds' + Cardinality(before') >= Cardinality(Range(Candidates)) + 1
      BY <2>3, <3>1, <3>5
    <3>7. Least'
      BY Zenon, <3>1 DEF Least
    <3>8. PassInv'
      BY Zenon, <3>1, <3>2, <3>4, <3>6, <3>7 DEF PassInv
    <3> QED BY Zenon, <2>3, <3>1, <3>8 DEF SelectInv
  <2> QED BY Zenon, <2>1, <2>2, <2>3
<1>3. CASE ConsiderCandidate
  <2>1. stage = "select" /\ stage' = "select" /\ bp' = bp /\ verdict' = verdict
    BY Zenon, <1>3 DEF ConsiderCandidate
  <2>2. bp \in Blueprints /\ PassInv /\ verdict # "RequirementCycle"
    BY Zenon, <2>1 DEF SelectInv
  <2>3. PassInv'
    BY Zenon, <1>3, <2>2, ConsiderInv
  <2> QED BY Zenon, <2>1, <2>2, <2>3 DEF SelectInv
<1>4. CASE EndPass
  <2>1. bp \in Blueprints /\ PassInv /\ verdict # "RequirementCycle"
    BY Zenon, <1>4 DEF SelectInv, EndPass
  <2>2. /\ bp' = bp /\ stage' \in {"select", "compose"} /\ verdict' = verdict
        /\ stage' = "select" => PassInv'
        /\ stage' = "compose" => (Closed(selected) /\ Least)'
    BY <1>4, <2>1, EndPassInv, Zenon
  <2> QED BY Zenon, <2>1, <2>2 DEF SelectInv
<1>5. CASE Compose \/ CollectAll \/ Order \/ Accept
  <2>1. /\ bp' = bp /\ stage' \notin Selecting
        /\ verdict' \in {verdict, "DisabledBuiltin", "MissingRequirement", "UnregisteredTag",
                         CatalogDiagnostic, CeilingDiagnostic, PolicyDiagnostic}
    <3>1. CASE Compose
      BY <3>1, Zenon DEF Compose, Reject, Selecting
    <3>2. CASE CollectAll
      BY <3>2, Zenon DEF CollectAll, Reject, Selecting
    <3>3. CASE Order
      BY <3>3, Zenon DEF Order, Reject, Selecting
    <3>4. CASE Accept
      BY <3>4, Zenon DEF Accept, Reject, Selecting
    <3> QED BY Zenon, <1>5, <3>1, <3>2, <3>3, <3>4
  <2>2. verdict' # "RequirementCycle"
    BY Zenon, <2>1, OtherDiagnostics DEF SelectInv
  <2> QED BY Zenon, <2>1, <2>2, SelectFrame
<1>6. CASE GraphStep
  <2>1. /\ bp' = bp /\ stage' \notin Selecting
        /\ verdict' \in {verdict, "DuplicateComponent", "MissingDependency", "DependencyCycle"}
    BY Zenon, <1>6 DEF GraphStep, ValidateDependencies, EnterRoot, VisitDependency, LeaveComponent,
                SortStep, Reject, Selecting
  <2>2. verdict' # "RequirementCycle"
    BY Zenon, <2>1 DEF SelectInv
  <2> QED BY Zenon, <2>1, <2>2, SelectFrame
<1>7. CASE CatalogStep
  <2>1. /\ bp' = bp /\ UNCHANGED <<provisional, selectVars>>
        /\ \/ stage' = "rejected" /\ verdict' = "RecursiveExpansion"
           \/ stage' = stage /\ verdict' = verdict
    BY Zenon, <1>7 DEF CatalogStep, ExpandPending, FinalizeEntry, ExpandDeclaration, Reject
  <2>2. verdict' # "RequirementCycle"
    BY Zenon, <2>1 DEF SelectInv
  <2> QED BY Zenon, <2>1, <2>2, SelectFrame DEF Selecting
<1>8. CASE UNCHANGED vars
  <2>1. bp' = bp /\ UNCHANGED <<provisional, selectVars>> /\ stage' = stage /\ verdict' = verdict
    BY Zenon, <1>8 DEF vars, catalogVars
  <2> QED BY Zenon, <2>1, SelectFrame DEF SelectInv
<1> QED BY Zenon, <1>1, <1>2, <1>3, <1>4, <1>5, <1>6, <1>7, <1>8 DEF Next, Step, Ended

(* For every blueprint, whatever the candidates require of one another and  *)
(* in whatever order they are declared: the passes end with the least set   *)
(* of built-ins that is closed, and they are never given up (blueprint.hpp  *)
(* CloseBuiltins).                                                          *)
THEOREM BuiltinsAreClosed == Spec => []BuiltinsClosed
<1>1. Init => SelectInv
  BY Zenon DEF Init, SelectInv
<1>2. SelectInv /\ [Next]_vars => SelectInv'
  BY Zenon, SelectInvStep
<1>3. SelectInv => BuiltinsClosed
  BY Zenon DEF SelectInv, BuiltinsClosed, Least
<1> QED BY <1>1, <1>2, <1>3, PTL DEF Spec

=============================================================================
