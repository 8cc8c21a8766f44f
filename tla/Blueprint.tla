------------------------------ MODULE Blueprint ------------------------------
(****************************************************************************)
(* What an application writes in its Blueprint and what the facilities of   *)
(* Solar add to it: built-in facilities, the traits that decide which of    *)
(* them take part, and the dependencies they generate                       *)
(* (include/solar/system/sections.hpp, blueprint.hpp and the facilities).   *)
(*                                                                          *)
(* A blueprint is compiled, not run: every step of the modules above this   *)
(* one is a step of template instantiation, and a failed static_assert ends *)
(* the compilation (stage "rejected").                                      *)
(****************************************************************************)
EXTENDS Integers, Sequences, FiniteSets, Functions

CONSTANT Blueprints     \* the blueprints to normalise

SystemWorkQueue == "SystemWorkQueue"
Inline          == "Inline"
Application     == "ApplicationOwner"

(* The elements of a TypeList at some of its places, in their order. *)
Pick(s, places) ==
    [k \in 1 .. Cardinality(places) |->
        s[CHOOSE i \in places : Cardinality({j \in places : j < i}) = k - 1]]

(* TypeLists without repetition: unique_t keeps the first occurrence. *)
Distinct(s) == Pick(s, {i \in DOMAIN s : \A j \in DOMAIN s : j < i => s[j] # s[i]})

(* Several TypeLists, one after the other. *)
Concatenated(lists) ==
    MapThenFoldSet(LAMBDA s, t : s \o t, <<>>, LAMBDA i : lists[i],
                   LAMBDA I : CHOOSE i \in I : \A j \in I : i <= j, DOMAIN lists)

(* Values of a function that is defined for some arguments only. *)
At(f, x, otherwise) == IF x \in DOMAIN f THEN f[x] ELSE otherwise

GeneratedBuiltins ==
    <<"Bus", "Parameters", "Events", "Metrics", "Log", "Inspection", "Remote", "Health">>

CoreTags == <<"component", "execution", "message", "subscription", "parameter", "change",
              "event", "processor", "metric", "check", "schema", "link">>

(* The parts of a blueprint the normalisation looks at. *)
IsBlueprint(b) ==
    /\ b.keys \in Seq(STRING)                          \* the sections, by key
    /\ {b.devices, b.facilities, b.services, b.executors} \subseteq Seq(STRING)
    /\ {b.candidates, b.explicit, b.extensions} \subseteq Seq(STRING)
    /\ Range(b.depends) \subseteq Seq(STRING)          \* authored Dependencies
    /\ \A c \in DOMAIN b.traits :                      \* traits of the custom built-ins
           /\ {b.traits[c].enabled, b.traits[c].always} \subseteq BOOLEAN
           /\ b.traits[c].requires \in Seq(STRING)
    /\ b.enabled \subseteq Range(GeneratedBuiltins)    \* Kconfig
    /\ b.supervisor \in BOOLEAN
    /\ Range(b.direct) \subseteq Seq(STRING)           \* tag -> declarations
    /\ Range(b.expands) \subseteq Seq(STRING)          \* declaration -> its expansion
    /\ b.configured \subseteq Range(GeneratedBuiltins) \* has a Configuration section
    /\ {b.logOn, b.eventsOn, b.savesOn} \subseteq STRING
    /\ b.stores \in Seq(STRING) /\ b.deferred \in BOOLEAN
    /\ b.routes \in Seq([subscriber : STRING, target : STRING, task : STRING])
    /\ \A p \in Range(b.policies) : {p.recognized, p.available} \subseteq BOOLEAN

ASSUME BlueprintAssumption == \A b \in Blueprints : IsBlueprint(b)

VARIABLES
    bp,         \* the blueprint being compiled
    stage,      \* how far its normalisation has come
    verdict     \* the diagnostic that ended it, "none" before that

Reject(diagnostic) == stage' = "rejected" /\ verdict' = diagnostic

UserComponents == bp.devices \o bp.facilities \o bp.services \o bp.executors

-----------------------------------------------------------------------------
(* builtin_traits: disabled unless specialised.  "Present" is what the     *)
(* architecture of a generated facility is built from: catalog entries or   *)
(* a configuration section.                                                 *)

Enabled(c) ==
    IF c \in Range(GeneratedBuiltins) THEN c \in bp.enabled
                                      ELSE c \in DOMAIN bp.traits /\ bp.traits[c].enabled

AlwaysPresent(c) ==
    IF c \in Range(GeneratedBuiltins) THEN c \in {"Log", "Inspection", "Health"} \cap bp.enabled
                                      ELSE c \in DOMAIN bp.traits /\ bp.traits[c].always

DemandTags(c) ==
    CASE c = "Bus"        -> {"message", "subscription"}
      [] c = "Parameters" -> {"parameter", "change"}
      [] c = "Events"     -> {"event", "processor"}
      [] c = "Metrics"    -> {"metric"}
      [] c = "Remote"     -> {"link"}
      [] OTHER            -> IF c \in DOMAIN bp.traits THEN bp.traits[c].demand ELSE {}

Demanded(c, entries) ==
    \/ c \in bp.configured \cap {"Parameters", "Events", "Metrics", "Log"}
    \/ \E i \in DOMAIN entries : entries[i].tag \in DemandTags(c)

Requirements(c) == IF c \in DOMAIN bp.traits THEN Range(bp.traits[c].requires) ELSE {}

-----------------------------------------------------------------------------
(* Dependencies the facilities declare: an executor or a store that must   *)
(* run before the facility does.                                            *)

OnExecutor(target) == IF target = SystemWorkQueue THEN <<>> ELSE <<target>>

ComponentStores == Pick(bp.stores, {i \in DOMAIN bp.stores : bp.stores[i] \in Range(UserComponents)})

(* Subscribers, and the executors that deliver to them. *)
RouteDependencies ==
    LET named == [k \in 1 .. 2 * Len(bp.routes) |->
                     IF k % 2 = 1 THEN bp.routes[(k + 1) \div 2].subscriber
                                  ELSE bp.routes[k \div 2].target]
    IN  Pick(named, {k \in DOMAIN named : named[k] \notin {Inline, SystemWorkQueue}})

Bootstrap(c) ==
    CASE c = "Log"        -> OnExecutor(bp.logOn)
      [] c = "Events"     -> OnExecutor(bp.eventsOn)
      [] c = "Parameters" -> Distinct(ComponentStores \o
                                        IF bp.deferred THEN OnExecutor(bp.savesOn) ELSE <<>>)
      [] OTHER            -> <<>>

DependenciesOf(c) ==
    CASE c = "Bus"           -> Distinct(RouteDependencies)
      [] c = "RemoteService" -> <<"Remote">>
      [] c = "Supervisor"    -> <<"Health">>
      [] c \in {"Log", "Events", "Parameters"} -> Bootstrap(c)
      [] OTHER               -> At(bp.depends, c, <<>>)

(* generated_component_dependency: which components a facility puts itself *)
(* in front of.  Log takes every component, generated ones included.        *)
Precedes(f, c) ==
    /\ f # c
    /\ f \in {"Log", "Events", "Parameters", "Metrics"}
    /\ c \notin Range(Bootstrap(f))
    /\ f = "Log" \/ c \in Range(UserComponents)

(* The execution registrations of the generated components. *)
BuiltinTasks(c) ==
    CASE c = "Log"           -> <<"LogProcessor">>
      [] c = "Events"        -> <<"EventProcessor">>
      [] c = "Parameters"    -> IF bp.deferred THEN <<"DeferredSave">> ELSE <<>>
      [] c = "RemoteService" -> <<"RemotePump">>
      [] c = "Bus"           ->
             LET tasks == SelectSeq(bp.routes, LAMBDA r : r.target # Inline)
             IN  [i \in DOMAIN tasks |-> tasks[i].task]
      [] OTHER               -> <<>>

=============================================================================
