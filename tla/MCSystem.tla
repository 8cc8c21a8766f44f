------------------------------- MODULE MCSystem -------------------------------
(* Blueprints to normalise: every dependency relation over three components, *)
(* and one blueprint per way in which the parts of a blueprint can meet.     *)
EXTENDS Composition, SequencesExt

None == [x \in {} |-> x]

Plain ==
    [keys |-> <<"Devices", "Services", "Executors">>,
     devices |-> <<"D">>, facilities |-> <<>>, services |-> <<"S">>, executors |-> <<"E">>,
     depends |-> None, candidates |-> <<>>, explicit |-> <<>>, traits |-> None,
     enabled |-> {}, supervisor |-> FALSE, extensions |-> <<>>, tagDepends |-> None,
     direct |-> None, contributes |-> None, expands |-> None, names |-> None, ids |-> None,
     configured |-> {}, logOn |-> SystemWorkQueue, eventsOn |-> SystemWorkQueue,
     savesOn |-> SystemWorkQueue, deferred |-> FALSE, stores |-> <<>>, routes |-> <<>>,
     policies |-> <<>>, ceilings |-> None]

(* Every dependency relation over three components, self-loops included. *)
ListOf(S) == SetToSortSeq(S, LAMBDA x, y : x = "D" \/ (x = "S" /\ y = "E"))
Relations ==
    {[Plain EXCEPT !.depends = [c \in {"D", "S", "E"} |-> ListOf(r[c])]] :
        r \in [{"D", "S", "E"} -> SUBSET {"D", "S", "E"}]}

(* Everything switched on and asked for. *)
Full == [Plain EXCEPT
    !.enabled = {"Bus", "Parameters", "Events", "Metrics", "Log", "Remote", "Health"},
    !.supervisor = TRUE, !.facilities = <<"F">>, !.executors = <<"E", "G">>,
    !.direct = ("parameter" :> <<"p1">> @@ "event" :> <<"e1">>),
    !.contributes = ("D" :> <<[tag |-> "parameter", decl |-> "p2"]>>
                     @@ "S" :> <<[tag |-> "metric", decl |-> "m1"],
                                 [tag |-> "execution", decl |-> "work"],
                                 [tag |-> "link", decl |-> "uart"]>>
                     @@ "E" :> <<[tag |-> "message", decl |-> "tick"]>>)]

(* Where the processing of Log, Events and deferred saves runs. *)
Targets == {SystemWorkQueue, "E", "G"}
Hosted == {[Full EXCEPT !.logOn = l, !.eventsOn = e, !.savesOn = s, !.deferred = TRUE] :
               l \in Targets, e \in Targets, s \in Targets}
          \union {[Full EXCEPT !.logOn = "H"],
                  [Full EXCEPT !.stores = <<"F", "Flash">>, !.eventsOn = "E"],
                  [Full EXCEPT !.stores = <<"F">>, !.depends = ("F" :> <<"D">>)],
                  [Full EXCEPT !.logOn = "E", !.depends = ("E" :> <<"D">>)]}

(* Routes of the bus. *)
Routed == {[Full EXCEPT !.routes = <<[subscriber |-> s, target |-> t, task |-> "route"]>>] :
               s \in {"S", "X"}, t \in {Inline, SystemWorkQueue, "G"}}

(* Custom built-ins that require one another, in every order of candidates. *)
Chain == "K1" :> [enabled |-> TRUE, always |-> FALSE, demand |-> {"parameter"}, requires |-> <<"K2">>]
      @@ "K2" :> [enabled |-> TRUE, always |-> FALSE, demand |-> {}, requires |-> <<"K3">>]
      @@ "K3" :> [enabled |-> TRUE, always |-> FALSE, demand |-> {}, requires |-> <<"K1">>]
      @@ "K4" :> [enabled |-> TRUE, always |-> FALSE, demand |-> {"check"}, requires |-> <<"K1">>]
Asking == [Plain EXCEPT !.traits = Chain, !.enabled = {"Parameters"},
                        !.direct = ("parameter" :> <<"p1">>)]
Orders == {f \in [1 .. 4 -> {"K1", "K2", "K3", "K4"}] : ~Repeats(f)}
Required == {[Asking EXCEPT !.candidates = o] : o \in Orders}
    \union {[Asking EXCEPT !.candidates = <<"K1">>],
            [Asking EXCEPT !.candidates = <<"K2", "K1">>, !.explicit = <<"K2", "K3">>],
            [Asking EXCEPT !.explicit = <<"K5">>],
            [Asking EXCEPT !.candidates = <<"K4">>, !.explicit = <<"K3", "K2", "K1">>],
            [Asking EXCEPT !.candidates = <<"K3", "K2", "K1">>,
                           !.contributes = ("K2" :> <<[tag |-> "parameter", decl |-> "p1"]>>)],
            [Asking EXCEPT !.candidates = <<"K3", "K2", "K1">>,
                           !.contributes = ("K2" :> <<[tag |-> "custom", decl |-> "x"]>>)]}

(* Declarations: expansions, duplicates, tags, ceilings, policies. *)
Group == [Plain EXCEPT !.enabled = {"Parameters"}, !.direct = ("parameter" :> <<"g">>),
                       !.expands = ("g" :> <<"h", "p1">> @@ "h" :> <<"p2", "p3">>)]
Declaring ==
    {Group,
     [Group EXCEPT !.expands = ("g" :> <<"h">> @@ "h" :> <<"g">>)],
     [Group EXCEPT !.expands = ("g" :> <<"h", "h">> @@ "h" :> <<"p1">>)],
     [Group EXCEPT !.names = ("p1" :> "same" @@ "p3" :> "same")],
     [Group EXCEPT !.ids = ("p1" :> 7 @@ "p2" :> 7)],
     [Group EXCEPT !.ceilings = ("parameter" :> 2)],
     [Group EXCEPT !.ceilings = ("parameter" :> 3), !.configured = {"Parameters"}],
     [Group EXCEPT !.enabled = {}],
     [Group EXCEPT !.extensions = <<"custom", "check">>, !.tagDepends = ("custom" :> {"parameter"})],
     [Group EXCEPT !.extensions = <<"custom">>, !.tagDepends = ("custom" :> {"custom"})],
     [Group EXCEPT !.extensions = <<"custom">>, !.tagDepends = ("custom" :> {"missing"})],
     [Group EXCEPT !.contributes = ("S" :> <<[tag |-> "custom", decl |-> "x"]>>)],
     [Group EXCEPT !.contributes = ("S" :> <<[tag |-> "check", decl |-> "x"]>>)],
     [Plain EXCEPT !.contributes = ("S" :> <<[tag |-> "link", decl |-> "x"]>>)],
     [Plain EXCEPT !.contributes = ("S" :> <<[tag |-> "schema", decl |-> "x"]>>)],
     [Plain EXCEPT !.keys = <<"Devices", "Devices">>],
     [Plain EXCEPT !.keys = <<"Devices", "Nonsense">>],
     [Plain EXCEPT !.services = <<"S", "D">>],
     [Plain EXCEPT !.supervisor = TRUE],
     [Plain EXCEPT !.explicit = <<"S">>, !.traits =
         ("S" :> [enabled |-> TRUE, always |-> FALSE, demand |-> {}, requires |-> <<>>])]}
    \union {[Plain EXCEPT !.policies = ps] : ps \in
        {<<[subsystem |-> "Log", axis |-> "Stop", recognized |-> r, available |-> a],
           [subsystem |-> "Log", axis |-> x, recognized |-> TRUE, available |-> TRUE]>> :
            r \in BOOLEAN, a \in BOOLEAN, x \in {"Stop", "Executor"}}}

MCBlueprints == Relations \union Hosted \union Routed \union Required \union Declaring

=============================================================================
