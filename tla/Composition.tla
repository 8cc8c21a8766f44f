----------------------------- MODULE Composition -----------------------------
(****************************************************************************)
(* NormalizeBlueprint (include/solar/system/blueprint.hpp): from the        *)
(* sections of a blueprint to the components of the system, in the order in *)
(* which they start, with every declaration they contribute.                *)
(*                                                                          *)
(*   sections     the sections and the user's components are well formed    *)
(*   provisional  the catalogs of the user's components                     *)
(*   select       the closure of the built-in facilities they ask for       *)
(*   compose      the component list, user's and generated                  *)
(*   graph, walk  the dependencies are registered and acyclic               *)
(*   final        the catalogs of all components                            *)
(*   sort         the topological order                                     *)
(****************************************************************************)
EXTENDS Graph, Catalogs

VARIABLES
    selected,   \* the built-ins selected so far
    before,     \* the ones selected when the pass began
    cursor,     \* the next candidate of the pass
    rounds      \* passes left before the closure is given up

selectVars == <<selected, before, cursor, rounds>>
vars == <<bp, stage, verdict, graphVars, catalogVars, selectVars>>

Init ==
    /\ bp \in Blueprints
    /\ stage = "sections" /\ verdict = "none"
    /\ GraphInit /\ CatalogInit
    /\ selected = {} /\ before = {} /\ cursor = 1 /\ rounds = 0

Repeats(s) == Cardinality(Range(s)) # Len(s)

-----------------------------------------------------------------------------
(* Sections and provisional catalogs.                                       *)

SectionKeys == {"Devices", "Facilities", "Services", "Executors", "Execution", "Bus",
                "Builtins", "BuiltinCandidates", "ExtensionTags"}

KnownSection(key) == key \in SectionKeys \union Range(CandidateTags) \union Range(GeneratedBuiltins)

SectionDiagnostic ==
    CASE \E k \in Range(bp.keys) : ~KnownSection(k) -> "UnknownSection"
      [] Repeats(bp.keys)                         -> "DuplicateSection"
      [] Repeats(UserComponents)                  -> "DuplicateComponent"
      [] ~GroupsRegistered(UserComponents)        -> "UnregisteredTag"
      [] OTHER                                    -> "none"

ValidateSections ==
    /\ stage = "sections"
    /\ IF SectionDiagnostic # "none"
       THEN Reject(SectionDiagnostic) /\ UNCHANGED <<pending, entries>>
       ELSE stage' = "provisional" /\ CollectCatalogSet(UserComponents) /\ UNCHANGED verdict
    /\ UNCHANGED <<bp, provisional, graphVars, selectVars>>

(* A facility that runs on an executor needs that executor registered. *)
ExecutorMissing ==
    \E f \in {<<"Log", bp.logOn>>, <<"Events", bp.eventsOn>>, <<"Parameters", bp.savesOn>>} :
        /\ f[1] \in bp.enabled
        /\ f[1] = "Parameters" => bp.deferred
        /\ f[2] # SystemWorkQueue /\ f[2] \notin Range(UserComponents)

(* The candidates in order of declaration; one named twice is looked at     *)
(* twice, the second time to no effect.                                     *)
Candidates == bp.candidates \o GeneratedBuiltins \o bp.explicit

BuildArchitectures ==
    /\ stage = "provisional" /\ pending = <<>>
    /\ CASE CatalogDiagnostic # "none" -> Reject(CatalogDiagnostic) /\ UNCHANGED <<provisional, rounds>>
         [] ExecutorMissing -> Reject("ExecutorMissing") /\ UNCHANGED <<provisional, rounds>>
         [] OTHER -> /\ stage' = "select" /\ provisional' = entries
                     /\ rounds' = Cardinality(Range(Candidates)) + 1
                     /\ UNCHANGED verdict
    /\ UNCHANGED <<bp, pending, entries, graphVars, selected, before, cursor>>

-----------------------------------------------------------------------------
(* CloseBuiltins: passes over the candidates until one selects nothing new. *)

Wanted(c) == c \in Range(bp.explicit) \/ AlwaysPresent(c) \/ Demanded(c, provisional)

Requested(c, chosen) == Wanted(c) \/ \E s \in chosen : c \in Requirements(s)

ConsiderCandidate ==
    /\ stage = "select" /\ cursor <= Len(Candidates)
    /\ selected' = IF Requested(Candidates[cursor], selected)
                   THEN selected \union {Candidates[cursor]} ELSE selected
    /\ cursor' = cursor + 1
    /\ UNCHANGED <<bp, stage, verdict, graphVars, catalogVars, before, rounds>>

(* Bug: one pass over the candidates is thought to be enough. *)
EndPassOnce ==
    /\ stage = "select" /\ cursor > Len(Candidates)
    /\ stage' = "compose"
    /\ UNCHANGED <<bp, verdict, graphVars, catalogVars, selectVars>>

EndPass ==
    /\ stage = "select" /\ cursor > Len(Candidates)
    /\ CASE selected = before ->
                stage' = "compose" /\ UNCHANGED <<verdict, before, cursor, rounds>>
         [] selected # before /\ rounds = 0 ->
                Reject("RequirementCycle") /\ UNCHANGED <<before, cursor, rounds>>
         [] OTHER -> /\ before' = selected /\ cursor' = 1 /\ rounds' = rounds - 1
                     /\ UNCHANGED <<stage, verdict>>
    /\ UNCHANGED <<bp, graphVars, catalogVars, selected>>

EffectiveBuiltins ==
    Distinct(Pick(Candidates, {i \in DOMAIN Candidates : Candidates[i] \in selected}))

(* The component list: generated services come behind the user's. *)
EffectiveComponents ==
    bp.devices \o bp.facilities \o EffectiveBuiltins \o bp.services \o
    (IF "Remote" \in selected THEN <<"RemoteService">> ELSE <<>>) \o
    (IF bp.supervisor THEN <<"Supervisor">> ELSE <<>>) \o bp.executors

Compose ==
    /\ stage = "compose"
    /\ CASE \E c \in selected : ~Enabled(c) -> Reject("DisabledBuiltin") /\ UNCHANGED graphVars
         [] \E c \in selected : ~(Requirements(c) \subseteq selected) ->
                Reject("MissingRequirement") /\ UNCHANGED graphVars
         [] OTHER -> /\ stage' = "graph" /\ UNCHANGED verdict
                     /\ \E all \in {EffectiveComponents} : SetComponents(all)
    /\ UNCHANGED <<bp, catalogVars, selectVars>>

-----------------------------------------------------------------------------
(* Final catalogs, ceilings, order and configuration.                       *)

CollectAll ==
    /\ Walked
    /\ IF GroupsRegistered(components)
       THEN stage' = "final" /\ CollectCatalogSet(components) /\ UNCHANGED verdict
       ELSE Reject("UnregisteredTag") /\ UNCHANGED <<pending, entries>>
    /\ UNCHANGED <<bp, provisional, graphVars, selectVars>>

Declared(tag) == {i \in DOMAIN entries : entries[i].tag = tag}

CeilingDiagnostic ==
    CASE "Health" \notin bp.enabled /\ Declared("check") # {}  -> "HealthDisabled"
      [] "Remote" \notin bp.enabled /\ Declared("schema") # {} -> "RemoteDisabled"
      [] \E t \in DOMAIN bp.ceilings : Cardinality(Declared(t)) > bp.ceilings[t] -> "Ceiling"
      [] OTHER -> "none"

Order ==
    /\ stage = "final" /\ pending = <<>>
    /\ CASE CatalogDiagnostic # "none" -> Reject(CatalogDiagnostic) /\ UNCHANGED graphVars
         [] CeilingDiagnostic # "none" -> Reject(CeilingDiagnostic) /\ UNCHANGED graphVars
         [] OTHER -> stage' = "sort" /\ StartSort /\ UNCHANGED verdict
    /\ UNCHANGED <<bp, catalogVars, selectVars>>

(* At most one policy for an axis of a subsystem, recognised and available. *)
PolicyDiagnostic ==
    CASE \E p \in Range(bp.policies) : ~p.recognized -> "InvalidPolicy"
      [] \E p \in Range(bp.policies) : ~p.available  -> "UnavailablePolicy"
      [] Repeats([i \in DOMAIN bp.policies |-> <<bp.policies[i].subsystem, bp.policies[i].axis>>]) ->
             "DuplicateAxis"
      [] OTHER -> "none"

Accept ==
    /\ stage = "sort" /\ remaining = {}
    /\ IF PolicyDiagnostic # "none" THEN Reject(PolicyDiagnostic)
                                    ELSE stage' = "accepted" /\ UNCHANGED verdict
    /\ UNCHANGED <<bp, graphVars, catalogVars, selectVars>>

-----------------------------------------------------------------------------

GraphStep ==
    /\ ValidateDependencies \/ EnterRoot \/ VisitDependency \/ LeaveComponent \/ SortStep
    /\ UNCHANGED <<catalogVars, selectVars>>

CatalogStep == ExpandPending /\ UNCHANGED <<graphVars, selectVars>>

Step ==
    \/ ValidateSections \/ BuildArchitectures \/ ConsiderCandidate \/ EndPass \/ Compose
    \/ CollectAll \/ Order \/ Accept \/ GraphStep \/ CatalogStep

(* A compilation that has ended stays as it is. *)
Ended == stage \in {"accepted", "rejected"} /\ UNCHANGED vars

Next == Step \/ Ended

Spec == Init /\ [][Next]_vars

(* A compiler goes on instantiating until it is done. *)
FairSpec == Spec /\ WF_vars(Step)

-----------------------------------------------------------------------------
(* Properties.                                                              *)

(* What a set of built-ins must hold to be the answer: everything wanted,   *)
(* and the candidates its members require.                                  *)
Closed(S) == \A c \in Range(Candidates) : Requested(c, S) => c \in S

(* The passes end with the least such set: no built-in is missing because   *)
(* the candidate that asks for it came later in the list, and none is there *)
(* that nobody asked for (blueprint.hpp CloseBuiltins, the finite closure   *)
(* of the blueprint documentation).  The passes allowed for are enough, so  *)
(* the requirement-cycle diagnostic never fires, not even for a cycle.      *)
BuiltinsClosed ==
    /\ stage = "compose" =>
           /\ Closed(selected)
           /\ \A S \in SUBSET Range(Candidates) : Closed(S) => selected \subseteq S
    /\ verdict # "RequirementCycle"

(* The walk refuses exactly the graphs with a cycle: a graph it lets pass   *)
(* has no knot, so the sort always finds a component that is ready and      *)
(* ends with all of them; one it refuses has a knot (graph.hpp).            *)
GraphVerdictExact ==
    /\ verdict = "DependencyCycle" => \E S \in SUBSET Range(components) : Knot(S)
    /\ stage = "sort" /\ remaining # {} => \E i \in remaining : Ready(i)

UserOwned(e) == e.owner \in {Application} \union Range(UserComponents)

Declarations(es, tag) ==
    LET of == SelectSeq(es, LAMBDA e : e.tag = tag /\ UserOwned(e))
    IN  [i \in DOMAIN of |-> of[i].decl]

(* The owner index of a catalog entry finds its owner in the component      *)
(* catalog, although the catalogs were collected from two component lists;  *)
(* and the declarations the architectures were built from are those of the  *)
(* final catalogs, in the same order (collection.hpp, blueprint.hpp).       *)
OwnersResolve ==
    stage \in {"sort", "accepted"} =>
        /\ \A e \in Range(entries) : e.owner # Application =>
               \E f \in Range(entries) :
                   f.tag = "component" /\ f.id = e.index - 1 /\ f.decl = e.owner
        /\ \A tag \in Range(CandidateTags) \ {"component"} :
               Declarations(provisional, tag) = Declarations(entries, tag)

(* Every blueprint is accepted or refused: neither an expansion nor a       *)
(* requirement nor a dependency makes the compilation run for ever.         *)
Normalised == <>(stage \in {"accepted", "rejected"})

(* What the component graph promises, together: dependencies first, the    *)
(* order of the blueprint otherwise, and a verdict that is exact.          *)
GraphSound == DependenciesFirst /\ StableOrder /\ GraphVerdictExact

=============================================================================
