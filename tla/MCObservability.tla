--------------------------- MODULE MCObservability ---------------------------
(***************************************************************************)
(* Small systems for Events and Logging: a fault, the recovery that        *)
(* resolves it, one thread and one interrupt; a console and a history.     *)
(* Each question has a system of its own, with the other facility idle;    *)
(* in the last ones both work.                                             *)
(***************************************************************************)
EXTENDS Observability

Catalog == <<"fault", "recovery">>

Every ==
    [capture |-> "EveryOccurrence", period |-> 0, keys |-> 0, retention |-> "Buffered",
     slots |-> 0, panic |-> FALSE, resolves |-> NoEvent, size |-> 1]
Recovering == [Every EXCEPT !.resolves = "fault"]
CriticalOf(n) == [Every EXCEPT !.retention = "Critical", !.slots = n]
Counting(n) == [Every EXCEPT !.capture = "AggregateCount", !.period = 1, !.keys = n]

Base ==
    [events |-> [fault |-> Every, recovery |-> Recovering], threadDepth |-> 2, isrDepth |-> 1,
     historyBytes |-> 2, stop |-> "Drain", early |-> FALSE, failing |-> FALSE,
     reader |-> FALSE, sources |-> {1},
     calls |-> [app |-> {"recovery"}, irq |-> {"fault"}],
     attempts |-> [fault |-> 2, recovery |-> 1]]

(* A fault in an interrupt and its recovery in a thread                    *)
Merge == Base
Failing == [Base EXCEPT !.attempts.fault = 1, !.failing = TRUE]
(* Sources of their own                                                    *)
TwoSources == [Base EXCEPT !.sources = {1, 2}, !.calls.app = {"fault", "recovery"},
                           !.calls.irq = {}, !.attempts.fault = 1]
(* A critical fault, raised from both                                      *)
Reserved == [Base EXCEPT !.events.fault = CriticalOf(2), !.calls.app = {"fault"},
                         !.attempts.fault = 3]
Panics == [Reserved EXCEPT !.events.fault = [CriticalOf(1) EXCEPT !.panic = TRUE],
                           !.calls.app = {}]
(* Aggregates with keys, and without                                       *)
KeyedCounts == [Base EXCEPT !.events.fault = Counting(1), !.events.recovery = Counting(2),
                            !.calls.app = {"fault", "recovery"}, !.calls.irq = {},
                            !.attempts = [fault |-> 2, recovery |-> 1]]
Counts == [Base EXCEPT !.events.fault = Counting(0), !.calls.app = {"fault"},
                       !.attempts.fault = 3]
CriticalCounts == [Counts EXCEPT !.events.fault =
                      [Counting(0) EXCEPT !.retention = "Critical", !.slots = 1]]
(* Samples, rates and persistence                                          *)
Sampled ==
    [Base EXCEPT
        !.events.fault = [Every EXCEPT !.capture = "SampleEvery", !.period = 2,
                                       !.retention = "Transient"],
        !.calls.app = {}, !.attempts.fault = 3]
Limited ==
    [Base EXCEPT
        !.events.recovery = [Every EXCEPT !.capture = "RateLimited", !.period = 1,
                                          !.retention = "Persistent"],
        !.calls.irq = {}, !.failing = TRUE, !.attempts.recovery = 3]
(* Pressure on the rings, and records too large for the history            *)
Pressed == [Base EXCEPT !.threadDepth = 1, !.events.recovery = [Every EXCEPT !.size = 3],
                        !.calls.irq = {}, !.attempts.recovery = 4]
(* A reader behind an evicting history                                     *)
Paged == [Base EXCEPT !.reader = TRUE, !.calls.irq = {}, !.historyBytes = 1,
                      !.attempts.recovery = 3]
(* Pending work is cancelled by stop()                                     *)
Cancelled == [Merge EXCEPT !.stop = "CancelPending", !.events.fault = Counting(0)]
(* Facts recorded by component hooks                                       *)
Early == [Base EXCEPT !.early = TRUE, !.calls = [app |-> {"fault"}, irq |-> {}]]

Systems == {Merge, Failing, TwoSources, Reserved, Panics, KeyedCounts, Counts, CriticalCounts,
            Sampled, Limited, Pressed, Paged, Cancelled}
BootSystems == {Early}

(*-------------------------------------------------------------------------*)
MCSinks == <<"console", "history">>
None == [w \in Writers |-> {}]

LBase ==
    [ingress |-> 3, elevated |-> 1, emergency |-> 1, historyBytes |-> 2, earlyRecords |-> 1,
     routes |-> [console |-> [minimum |-> Info, history |-> FALSE, safe |-> FALSE],
                 history |-> [minimum |-> Info, history |-> TRUE, safe |-> FALSE]],
     stop |-> "Drain", calls |-> [None EXCEPT !["task"] = Levels], records |-> 3,
     early |-> FALSE, panics |-> FALSE, fatal |-> FALSE, filters |-> FALSE]

LReserves == LBase
LPlatform == [LBase EXCEPT !.calls = [None EXCEPT !["driver"] = {Warning}, !["irq"] = {Info}],
                           !.early = TRUE, !.records = 1]
LEarly == [LBase EXCEPT !.calls = [None EXCEPT !["driver"] = {Info}], !.early = TRUE,
                        !.records = 3]
LPanic == [LBase EXCEPT !.calls = [None EXCEPT !["driver"] = {Info}],
                        !.panics = TRUE, !.early = TRUE, !.records = 1]
LFatal == [LBase EXCEPT !.calls = [None EXCEPT !["task"] = {Info, Fatal}], !.fatal = TRUE,
                        !.records = 2]
LFiltered == [LBase EXCEPT !.calls = [None EXCEPT !["task"] = {Info}], !.filters = TRUE,
                           !.records = 1]
LCancel == [LBase EXCEPT !.stop = "CancelPending", !.records = 2]
LInterrupted == [LEarly EXCEPT !.calls = [None EXCEPT !["irq"] = {Warning}], !.records = 1]

LSystems == {LReserves, LPlatform, LEarly, LPanic, LFatal, LFiltered, LCancel}
LEarlySystems == {LInterrupted}


(*-------------------------------------------------------------------------*)
IdleEvents == [Base EXCEPT !.calls = [app |-> {}, irq |-> {}]]
IdleLog == [LBase EXCEPT !.calls = None]

(* The processing of a fault writes to the log, in the work or in stop()   *)
Adapting == [Base EXCEPT !.calls.app = {}, !.attempts.fault = 1]
LAdapters == [LBase EXCEPT !.calls = [None EXCEPT !["work"] = {Warning}, !["stop"] = {Warning}]]

Pairs ==
    ((Systems \cup {Early}) \X {IdleLog}) \cup ({IdleEvents} \X LSystems) \cup {<<Adapting, LAdapters>>}
BootPairs == {<<Early, IdleLog>>}
EarlyPairs == {<<IdleEvents, LInterrupted>>}
EDesigns == Systems \cup {IdleEvents, Adapting, Early}
LDesigns == LSystems \cup {IdleLog, LAdapters, LInterrupted}

(* A system that has come to its end, or is rolled back                    *)
Ended ==
    /\ \/ phase \in {"InitFailed", "Preserved", "Panicked"} \/ lPhase \in {"Down", "Panicked"}
       \/ phase = "Down" /\ lPhase = "Started"
    /\ UNCHANGED obsVars

Init(pairs) == ObsInit /\ <<eDesign, lDesign>> \in pairs
Spec == Init(Pairs) /\ [][ObsNext \/ Ended]_obsVars /\ ObsFairness
BootSpec == Init(BootPairs) /\ [][ObsNext \/ Ended]_obsVars
EarlySpec == Init(EarlyPairs) /\ [][ObsNext \/ Ended]_obsVars
=============================================================================
