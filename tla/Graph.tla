-------------------------------- MODULE Graph --------------------------------
(****************************************************************************)
(* The component graph (include/solar/system/graph.hpp): the effective      *)
(* dependencies of every component, the depth-first walk that refuses a     *)
(* cycle, and the sort that fixes the order in which the lifecycle engine    *)
(* starts the components.                                                   *)
(****************************************************************************)
EXTENDS Blueprint

VARIABLES
    components, \* the normalised component list
    edges,      \* component -> the list of its effective dependencies
    root,       \* the next component the walk starts from
    walk,       \* the walk's path: the node, and its dependencies still to visit
    remaining,  \* the indices in components that are not sorted yet
    sorted      \* the indices of components in topological order

graphVars == <<components, edges, root, walk, remaining, sorted>>

GraphInit ==
    /\ components = <<>> /\ edges = <<>>
    /\ root = 1 /\ walk = <<>>
    /\ remaining = {} /\ sorted = <<>>

GeneratedDependencies(c, all) == Pick(all, {i \in DOMAIN all : Precedes(all[i], c)})

EffectiveDependencies(c, all) == Distinct(DependenciesOf(c) \o GeneratedDependencies(c, all))

(* The components of an accepted selection and their dependencies. *)
SetComponents(all) ==
    /\ components' = all
    /\ edges' = [c \in Range(all) |-> EffectiveDependencies(c, all)]
    /\ UNCHANGED <<root, walk, remaining, sorted>>

Deps(c) == Range(edges[c])

-----------------------------------------------------------------------------
(* ValidateComponentGraph: no component twice, every dependency registered, *)
(* and a walk from every component that meets none of its own path again.   *)

ValidateDependencies ==
    /\ stage = "graph"
    /\ CASE Cardinality(Range(components)) # Len(components) -> Reject("DuplicateComponent")
         [] \E c \in Range(components) : ~(Deps(c) \subseteq Range(components)) ->
                Reject("MissingDependency")
         [] OTHER -> stage' = "walk" /\ UNCHANGED verdict
    /\ UNCHANGED <<bp, graphVars>>

Path == {walk[i].node : i \in DOMAIN walk}

EnterRoot ==
    /\ stage = "walk" /\ walk = <<>> /\ root <= Len(components)
    /\ walk' = <<[node |-> components[root], left |-> edges[components[root]]]>>
    /\ root' = root + 1
    /\ UNCHANGED <<bp, stage, verdict, components, edges, remaining, sorted>>

Top == walk[Len(walk)]

(* Bug: only the first dependency of a component is followed. *)
VisitFirstDependency ==
    /\ stage = "walk" /\ walk # <<>> /\ Top.left # <<>>
    /\ LET d == Head(Top.left) IN
           IF d \in Path
           THEN Reject("DependencyCycle") /\ UNCHANGED walk
           ELSE /\ walk' = Append([walk EXCEPT ![Len(walk)].left = <<>>],
                                  [node |-> d, left |-> edges[d]])
                /\ UNCHANGED <<stage, verdict>>
    /\ UNCHANGED <<bp, components, edges, root, remaining, sorted>>

VisitDependency ==
    /\ stage = "walk" /\ walk # <<>> /\ Top.left # <<>>
    /\ LET d == Head(Top.left) IN
           IF d \in Path
           THEN Reject("DependencyCycle") /\ UNCHANGED walk
           ELSE /\ walk' = Append([walk EXCEPT ![Len(walk)].left = Tail(@)],
                                  [node |-> d, left |-> edges[d]])
                /\ UNCHANGED <<stage, verdict>>
    /\ UNCHANGED <<bp, components, edges, root, remaining, sorted>>

LeaveComponent ==
    /\ stage = "walk" /\ walk # <<>> /\ Top.left = <<>>
    /\ walk' = SubSeq(walk, 1, Len(walk) - 1)
    /\ UNCHANGED <<bp, stage, verdict, components, edges, root, remaining, sorted>>

Walked == stage = "walk" /\ walk = <<>> /\ root > Len(components)

-----------------------------------------------------------------------------
(* TopologicalSort: the first component, in the normalised order, whose     *)
(* dependencies are all sorted comes next.                                  *)

Placed == {components[sorted[k]] : k \in DOMAIN sorted}

Ready(i) == Deps(components[i]) \subseteq Placed

FirstReady(i) == Ready(i) /\ \A j \in remaining : j < i => ~Ready(j)

StartSort ==
    /\ remaining' = 1 .. Len(components)
    /\ UNCHANGED <<components, edges, root, walk, sorted>>

SortStep ==
    /\ stage = "sort"
    /\ \E i \in remaining :
           /\ FirstReady(i)
           /\ sorted' = Append(sorted, i)
           /\ remaining' = remaining \ {i}
    /\ UNCHANGED <<bp, stage, verdict, components, edges, root, walk>>

-----------------------------------------------------------------------------
(* Properties.                                                              *)

(* A component is placed only behind everything it depends on: start hooks  *)
(* run after those of the dependencies, stop hooks (the reverse order)      *)
(* before them (graph.hpp TopologicalSort, used by the lifecycle engine).   *)
DependenciesFirst ==
    \A k \in DOMAIN sorted : \A d \in Deps(components[sorted[k]]) :
        \E j \in DOMAIN sorted : j < k /\ components[sorted[j]] = d

(* The order of the blueprint is kept wherever the dependencies allow it: a *)
(* component is overtaken by a later one only while a dependency of its own *)
(* is still to come (FirstReady takes the first that is ready).             *)
StableOrder ==
    \A p, q \in DOMAIN sorted :
        p < q /\ sorted[p] > sorted[q] =>
            \E r \in DOMAIN sorted :
                /\ p <= r /\ r < q
                /\ components[sorted[r]] \in Deps(components[sorted[q]])

(* A set of components each of which waits for a member of the set. *)
Knot(S) == S # {} /\ \A c \in S : \E d \in Deps(c) : d \in S

=============================================================================
