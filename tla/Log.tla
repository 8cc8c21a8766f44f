--------------------------------- MODULE Log ---------------------------------
(***************************************************************************)
(* The Logging facility (log/runtime.hpp, log/facility.hpp, log/api.hpp)   *)
(* and the Zephyr frontend under it (log/frontend.cpp): writers put whole  *)
(* records into one byte ring whose upper part is reserved for the higher  *)
(* levels, a work item or a flush drains it through the routes to the      *)
(* sinks, and what the platform logs before the facility is active waits   *)
(* in a small buffer of its own.                                           *)
(*                                                                         *)
(* A step is a section under a lock, an atomic access, or a call of a      *)
(* sink.  A call that the first checks refuse changes nothing.             *)
(***************************************************************************)
EXTENDS Integers, Sequences, FiniteSets, SequencesExt, FiniteSetsExt

CONSTANTS
    LogDesigns,     \* the systems to consider
    Sinks           \* the sinks, in route order

Levels == 1..3      \* Info, Warning, Fatal: one level of each admission class
Info == 1
Warning == 2
Fatal == 3

(* Who captures: a task, the platform from a thread and from an interrupt, *)
(* the engine while it installs the bridge, and the event adapters, in the *)
(* event work and in the stop hook of the Events facility.                 *)
Platform == {"driver", "irq"}
Adapters == {"work", "stop"}
Writers == {"task", "boot"} \cup Platform \cup Adapters
Carriers == {"work", "engine", "panic"} \* who can be draining

(* A route: the level it starts at, whether it goes to the history,        *)
(* whether its sink is safe in a panic                                     *)
Routes == [minimum : Levels, history : BOOLEAN, safe : BOOLEAN]

LogDesignType ==
    [ingress : Nat, elevated : Nat, emergency : Nat, historyBytes : Nat, earlyRecords : Nat,
     routes : [ToSet(Sinks) -> Routes], stop : {"Drain", "CancelPending"},
     calls : [Writers -> SUBSET Levels], records : Nat,
     early : BOOLEAN,       \* the platform logs before the facility is active
     panics : BOOLEAN,      \* the platform panics
     fatal : BOOLEAN,       \* a task calls fatal()
     filters : BOOLEAN]     \* someone changes the level of a sink

(* The static assertions: a sink has one route, the reserves fit           *)
ValidateRoutes(d) ==
    /\ IsInjective(Sinks)
    /\ d.elevated + d.emergency <= d.ingress /\ d.ingress > 0

ASSUME LogAssumption == \A d \in LogDesigns : d \in LogDesignType /\ ValidateRoutes(d)

VARIABLES
    lDesign,        \* the system
    lPhase,         \* where the lifecycle engine is with the facility
    lAccepting,     \* Facility::accepting (ready is LogReady below)
    lPending,       \* Facility::processor_pending
    lScheduler,     \* schedule_processor and process_record are set
    lRegAccepting,  \* the registration "log.processor" accepts submissions
    lQueued,        \* its work item is queued
    lIngress,       \* ByteRing: its records, of one size
    lLoss,          \* FacilityRecord::preceding_loss
    lNext,          \* FacilityRecord::next_sequence
    lHistory,       \* CompactHistory: its records, the oldest first
    minimum,        \* RouteRuntime::minimum
    panicMode,      \* Facility::panic_mode
    early,          \* early_records
    earlyLoss,      \* early_loss
    earlyPanic,     \* early_panic
    bridge,         \* capture_callback is set
    panicBridge,    \* panic_callback is set
    writer,         \* each writer: where it is, its level, CaptureRequest::context is Isr
    carrier,        \* each drainer: where it is, its record, its route
    panicker,       \* log_frontend_panic: where it is
    lSeen           \* what the properties need to remember (LogSeenType)

(* Records written by a writer; the next sequence when the panic came;     *)
(* whether two drains overlapped, a record was captured after the close,   *)
(* a record of the early buffer was offered in vain                        *)
LogSeenType ==
    [written : [Writers -> Nat], mark : Nat, overlapped : BOOLEAN, late : BOOLEAN,
     unheard : BOOLEAN]

lEngineVars == <<lDesign, lPhase, lAccepting, lScheduler, lRegAccepting>>
lRequestVars == <<lPending, lQueued>>
lIngressVars == <<lIngress, lLoss, lNext>>
earlyVars == <<early, earlyLoss, earlyPanic, bridge, panicBridge>>
lDrainVars == <<carrier, lHistory>>
logVars == <<lEngineVars, lRequestVars, lIngressVars, earlyVars, lDrainVars, minimum, panicMode,
             writer, panicker, lSeen>>

LogReady == lPhase \notin {"Off", "Down"}
NoLog == [level |-> Info, sequence |-> 0, flagged |-> FALSE]
NoWriter == [at |-> "idle", level |-> Info, isr |-> FALSE]
NoCarrier == [at |-> "idle", record |-> NoLog, route |-> 0]
Raise(w, at) == writer' = [writer EXCEPT ![w].at = at]
Return(w) == writer' = [writer EXCEPT ![w] = NoWriter]
----------------------------------------------------------------------------
(***************************************************************************)
(* capture_resolved and request_processing.                                *)
(***************************************************************************)
RouteAccepts(level) == \E s \in ToSet(Sinks) : level >= minimum[s]
AdmissionLimit(level) ==
    lDesign.ingress - (IF level = Fatal THEN 0
                       ELSE IF level >= Warning THEN lDesign.emergency
                       ELSE lDesign.elevated + lDesign.emergency)

(* The checks before the lock: the facility is open, the context is the    *)
(* one the operation is for, a route wants the level                       *)
Heard(isr, here, level) == LogReady /\ lAccepting /\ isr = here /\ RouteAccepts(level)

(* A native call.  fatal() panics whether or not it is heard.              *)
Write(w) ==
    /\ w = "task" /\ writer[w].at = "idle"
    /\ (lDesign.early /\ LogReady) \/ lPhase \in {"Active", "Closing", "Stopping", "Stopped"}
    /\ lSeen.written[w] < lDesign.records
    /\ \E level \in lDesign.calls[w] :
         /\ Heard(FALSE, FALSE, level) \/ (level = Fatal /\ lDesign.fatal)
         /\ writer' = [writer EXCEPT ![w] =
                 [at |-> IF Heard(FALSE, FALSE, level) THEN "lock" ELSE "panic",
                  level |-> level, isr |-> FALSE]]
    /\ lSeen' = [lSeen EXCEPT !.written[w] = @ + 1]
    /\ UNCHANGED <<lEngineVars, lRequestVars, lIngressVars, earlyVars, lDrainVars, minimum,
                   panicMode, panicker>>

(* try_acquire() of a TryCapture or IsrCapture                             *)
LogContended(w) ==
    /\ w # "task" /\ writer[w].at = "lock"
    /\ \/ \E v \in Writers \ {w} : writer[v].at = "lock"
       \/ \E c \in Carriers : carrier[c].at # "idle"
    /\ Return(w)
    /\ lSeen' = [lSeen EXCEPT !.unheard = @ \/ w = "boot"]
    /\ UNCHANGED <<lEngineVars, lRequestVars, lIngressVars, earlyVars, lDrainVars, minimum,
                   panicMode, panicker>>

(* fatal() goes on to panic mode once its capture returned                 *)
Leave(w) ==
    IF w = "task" /\ writer[w].level = Fatal /\ lDesign.fatal THEN Raise(w, "panic")
    ELSE Return(w)

LogRefuse(w) ==
    /\ writer[w].at = "lock" /\ Len(lIngress) + 1 > AdmissionLimit(writer[w].level)
    /\ lLoss' = TRUE
    /\ Leave(w)
    /\ UNCHANGED <<lEngineVars, lRequestVars, lIngress, lNext, earlyVars, lDrainVars, minimum,
                   panicMode, panicker, lSeen>>

LogAdmit(w) ==
    /\ writer[w].at = "lock" /\ Len(lIngress) + 1 <= AdmissionLimit(writer[w].level)
    /\ lIngress' = Append(lIngress, [level |-> writer[w].level, sequence |-> lNext,
                                     flagged |-> lLoss])
    /\ lNext' = lNext + 1
    /\ lLoss' = FALSE
    /\ lSeen' = [lSeen EXCEPT !.late = @ \/ ~lAccepting]
    /\ Raise(w, "request")
    /\ UNCHANGED <<lEngineVars, lRequestVars, earlyVars, lDrainVars, minimum, panicMode,
                   panicker>>

LogRequest(w) ==
    /\ writer[w].at = "request"
    /\ lPending' = TRUE
    /\ IF lPending THEN Leave(w) ELSE Raise(w, "schedule")
    /\ UNCHANGED <<lEngineVars, lQueued, lIngressVars, earlyVars, lDrainVars, minimum, panicMode,
                   panicker, lSeen>>

LogSchedule(w) ==
    /\ writer[w].at = "schedule"
    /\ IF lScheduler /\ lRegAccepting THEN Raise(w, "submit") ELSE Raise(w, "undo")
    /\ UNCHANGED <<lEngineVars, lRequestVars, lIngressVars, earlyVars, lDrainVars, minimum,
                   panicMode, panicker, lSeen>>

LogUndo(w) ==
    /\ writer[w].at = "undo"
    /\ lPending' = FALSE
    /\ Leave(w)
    /\ UNCHANGED <<lEngineVars, lQueued, lIngressVars, earlyVars, lDrainVars, minimum, panicMode,
                   panicker, lSeen>>

LogSubmit(w) ==
    /\ writer[w].at = "submit"
    /\ lQueued' = TRUE
    /\ Leave(w)
    /\ UNCHANGED <<lEngineVars, lPending, lIngressVars, earlyVars, lDrainVars, minimum,
                   panicMode, panicker, lSeen>>

LogCapture(w) ==
    LogContended(w) \/ LogRefuse(w) \/ LogAdmit(w) \/ LogRequest(w) \/ LogSchedule(w)
    \/ LogUndo(w) \/ LogSubmit(w)
----------------------------------------------------------------------------
(***************************************************************************)
(* The Zephyr frontend: submit, install and the panic notification.        *)
(***************************************************************************)
(* The bridge's capture callback, in a context that is or is not an        *)
(* interrupt: the operation is chosen by the context the record was made   *)
(* in.                                                                     *)
Offered(w, isr, here, level) ==
    writer' = [writer EXCEPT ![w] = IF Heard(isr, here, level)
                                    THEN [at |-> "lock", level |-> level, isr |-> isr]
                                    ELSE NoWriter]

(* submit(): the first look at the callback                                *)
PlatformLog(w) ==
    /\ w \in Platform /\ writer[w].at = "idle"
    /\ lDesign.early \/ bridge
    /\ lSeen.written[w] < lDesign.records
    /\ \E level \in lDesign.calls[w] :
         IF bridge THEN Offered(w, w = "irq", w = "irq", level)
         ELSE writer' = [writer EXCEPT ![w] = [at |-> "early", level |-> level,
                                               isr |-> w = "irq"]]
    /\ lSeen' = [lSeen EXCEPT !.written[w] = @ + 1]
    /\ UNCHANGED <<lEngineVars, lRequestVars, lIngressVars, earlyVars, lDrainVars, minimum,
                   panicMode, panicker>>

(* The first look is trusted.                                              *)
EarlyAsSeen(w) == TRUE

(* and the second, under the lock of the buffer                            *)
StillEarly(w) == ~bridge
SubmitEarly(w) ==
    /\ w \in Platform /\ writer[w].at = "early" /\ StillEarly(w)
    /\ IF Len(early) < lDesign.earlyRecords
       THEN /\ early' = Append(early, [level |-> writer[w].level, isr |-> writer[w].isr])
            /\ earlyLoss' = FALSE
       ELSE earlyLoss' = TRUE /\ UNCHANGED early
    /\ Return(w)
    /\ UNCHANGED <<lEngineVars, lRequestVars, lIngressVars, earlyPanic, bridge, panicBridge,
                   lDrainVars, minimum, panicMode, panicker, lSeen>>
SubmitLate(w) ==
    /\ w \in Platform /\ writer[w].at = "early" /\ ~StillEarly(w)
    /\ Offered(w, writer[w].isr, w = "irq", writer[w].level)
    /\ UNCHANGED <<lEngineVars, lRequestVars, lIngressVars, earlyVars, lDrainVars, minimum,
                   panicMode, panicker, lSeen>>

(* install(): the callbacks, then the buffered records one by one          *)
InstallPanic ==
    /\ lPhase = "Activating" /\ ~panicBridge
    /\ panicBridge' = TRUE
    /\ UNCHANGED <<lEngineVars, lRequestVars, lIngressVars, early, earlyLoss, earlyPanic, bridge,
                   lDrainVars, minimum, panicMode, writer, panicker, lSeen>>
InstallCapture ==
    /\ lPhase = "Activating" /\ panicBridge /\ ~bridge
    /\ bridge' = TRUE
    /\ UNCHANGED <<lEngineVars, lRequestVars, lIngressVars, early, earlyLoss, earlyPanic,
                   panicBridge, lDrainVars, minimum, panicMode, writer, panicker, lSeen>>
Installing == lPhase = "Activating" /\ bridge /\ writer["boot"].at = "idle"
InstallNext ==
    /\ Installing /\ early # <<>>
    /\ early' = Tail(early)
    /\ LET r == Head(early) IN
       /\ Offered("boot", r.isr, FALSE, r.level)
       /\ lSeen' = [lSeen EXCEPT !.unheard = @ \/ ~Heard(r.isr, FALSE, r.level)]
    /\ UNCHANGED <<lEngineVars, lRequestVars, lIngressVars, earlyLoss, earlyPanic, bridge,
                   panicBridge, lDrainVars, minimum, panicMode, panicker>>

(* The buffer is empty: a panic that came early is served, and the end of  *)
(* activate_runtime() requests processing.                                 *)
InstallEnd ==
    /\ Installing /\ early = <<>>
    /\ earlyPanic' = FALSE
    /\ IF earlyPanic
       THEN /\ lPhase' = "EarlyPanic" /\ panicMode' = TRUE
            /\ carrier' = [carrier EXCEPT !.engine.at = "pop"]
            /\ lSeen' = [lSeen EXCEPT !.overlapped = @ \/ \E c \in Carriers :
                                                            carrier[c].at # "idle"]
            /\ UNCHANGED writer
       ELSE /\ lPhase' = "Requesting" /\ Raise("boot", "request")
            /\ UNCHANGED <<panicMode, carrier, lSeen>>
    /\ UNCHANGED <<lDesign, lAccepting, lScheduler, lRegAccepting, lRequestVars, lIngressVars,
                   early, earlyLoss, bridge, panicBridge, lHistory, minimum, panicker>>
EarlyPanicServed ==
    /\ lPhase = "EarlyPanic" /\ carrier.engine.at = "idle"
    /\ lPhase' = "Requesting" /\ Raise("boot", "request")
    /\ UNCHANGED <<lDesign, lAccepting, lScheduler, lRegAccepting, lRequestVars, lIngressVars,
                   earlyVars, lDrainVars, minimum, panicMode, panicker, lSeen>>

(* log_frontend_panic(): a look at the callback; without one, the flag     *)
PlatformPanic ==
    /\ lDesign.panics /\ panicker = "idle" /\ (lDesign.early \/ bridge)
    /\ panicker' = IF panicBridge THEN "mode" ELSE "early"
    /\ UNCHANGED <<lEngineVars, lRequestVars, lIngressVars, earlyVars, lDrainVars, minimum,
                   panicMode, writer, lSeen>>
PanicEarly ==
    /\ panicker = "early"
    /\ earlyPanic' = TRUE /\ panicker' = "done"
    /\ UNCHANGED <<lEngineVars, lRequestVars, lIngressVars, early, earlyLoss, bridge,
                   panicBridge, lDrainVars, minimum, panicMode, writer, lSeen>>
Fatality == writer["task"].at = "panic"
EnterPanic ==
    /\ panicker = "mode" \/ (Fatality /\ panicker = "idle")
    /\ panicMode' = TRUE /\ panicker' = "flush"
    /\ lSeen' = [lSeen EXCEPT !.mark = lNext,
                              !.overlapped = @ \/ \E c \in Carriers : carrier[c].at # "idle"]
    /\ carrier' = [carrier EXCEPT !["panic"].at = "pop"]
    /\ UNCHANGED <<lEngineVars, lRequestVars, lIngressVars, earlyVars, lHistory, minimum, writer>>
(* Sink::flush of the routes, and k_panic() of a fatal()                   *)
PanicEnds ==
    /\ panicker = "flush" /\ carrier["panic"].at = "idle"
    /\ panicker' = "done"
    /\ lPhase' = IF Fatality THEN "Panicked" ELSE lPhase
    /\ UNCHANGED <<lDesign, lAccepting, lScheduler, lRegAccepting, lRequestVars, lIngressVars,
                   earlyVars, lDrainVars, minimum, panicMode, writer, lSeen>>

Frontend ==
    \/ \E w \in Platform : PlatformLog(w) \/ SubmitEarly(w) \/ SubmitLate(w)
    \/ InstallPanic \/ InstallCapture \/ InstallNext \/ InstallEnd \/ EarlyPanicServed
    \/ PlatformPanic \/ PanicEarly \/ EnterPanic \/ PanicEnds
----------------------------------------------------------------------------
(***************************************************************************)
(* drain and process_one.                                                  *)
(***************************************************************************)
LogTakeWork ==
    /\ lQueued /\ carrier.work.at = "idle"
    /\ lQueued' = FALSE
    /\ carrier' = [carrier EXCEPT !.work.at = "pop"]
    /\ lSeen' = [lSeen EXCEPT !.overlapped = @ \/ \E c \in Carriers : carrier[c].at # "idle"]
    /\ UNCHANGED <<lEngineVars, lPending, lIngressVars, earlyVars, lHistory, minimum, panicMode,
                   writer, panicker>>

(* The flag is cleared in the section that finds the ring empty.           *)
StaysPending == UNCHANGED lPending
NoLongerPending == lPending' = FALSE
LogPop(c) ==
    /\ carrier[c].at = "pop"
    /\ IF lIngress = <<>>
       THEN /\ NoLongerPending
            /\ carrier' = [carrier EXCEPT ![c] = NoCarrier]
            /\ UNCHANGED lIngress
       ELSE /\ lIngress' = Tail(lIngress)
            /\ carrier' = [carrier EXCEPT ![c] =
                    IF lScheduler THEN [at |-> "route", record |-> Head(lIngress), route |-> 1]
                    ELSE @]
            /\ UNCHANGED lPending
    /\ UNCHANGED <<lEngineVars, lQueued, lLoss, lNext, earlyVars, lHistory, minimum, panicMode,
                   writer, panicker, lSeen>>

(* One route: a sink that wants the record, and is safe if this is a       *)
(* panic, consumes it.  What a sink returns is only counted.               *)
Wants(sink, rec) ==
    /\ rec.level >= minimum[sink]
    /\ panicMode => lDesign.routes[sink].safe \/ lDesign.routes[sink].history

(* CompactHistory::append: the oldest make room                            *)
Retained(rec) ==
    Append(IF Len(lHistory) < lDesign.historyBytes THEN lHistory ELSE Tail(lHistory), rec)
RouteRecord(c) ==
    LET rec == carrier[c].record
        sink == Sinks[carrier[c].route]
    IN
    /\ carrier[c].at = "route" /\ carrier[c].route <= Len(Sinks)
    /\ lHistory' = IF Wants(sink, rec) /\ lDesign.routes[sink].history
                      /\ lDesign.historyBytes > 0
                   THEN Retained(rec) ELSE lHistory
    /\ carrier' = [carrier EXCEPT ![c] =
            IF carrier[c].route = Len(Sinks) THEN [NoCarrier EXCEPT !.at = "pop"]
            ELSE [@ EXCEPT !.route = @ + 1]]
    /\ UNCHANGED <<lEngineVars, lRequestVars, lIngressVars, earlyVars, minimum, panicMode,
                   writer, panicker, lSeen>>

LogDrain(c) == LogPop(c) \/ RouteRecord(c)

SetSinkLevel ==
    /\ lDesign.filters
    /\ \E s \in ToSet(Sinks), level \in Levels :
         minimum[s] # level /\ minimum' = [minimum EXCEPT ![s] = level]
    /\ UNCHANGED <<lEngineVars, lRequestVars, lIngressVars, earlyVars, lDrainVars, panicMode,
                   writer, panicker, lSeen>>
----------------------------------------------------------------------------
(***************************************************************************)
(* The lifecycle engine's calls.                                           *)
(***************************************************************************)
LogInit ==
    /\ lDesign \in LogDesigns
    /\ lPhase = "Off" /\ lAccepting = FALSE /\ lPending = FALSE /\ lScheduler = FALSE
    /\ lRegAccepting = FALSE /\ lQueued = FALSE
    /\ lIngress = <<>> /\ lLoss = FALSE /\ lNext = 1 /\ lHistory = <<>>
    /\ minimum = [s \in ToSet(Sinks) |-> lDesign.routes[s].minimum]
    /\ panicMode = FALSE /\ panicker = "idle"
    /\ early = <<>> /\ earlyLoss = FALSE /\ earlyPanic = FALSE
    /\ bridge = FALSE /\ panicBridge = FALSE
    /\ writer = [w \in Writers |-> NoWriter] /\ carrier = [c \in Carriers |-> NoCarrier]
    /\ lSeen = [written |-> [w \in Writers |-> 0], mark |-> 0, overlapped |-> FALSE,
                late |-> FALSE, unheard |-> FALSE]

(* init() and start(): the storage is as it is at reset                    *)
LogFacilityInit ==
    /\ lPhase = "Off"
    /\ lPhase' = "Initialized" /\ lAccepting' = TRUE
    /\ UNCHANGED <<lDesign, lScheduler, lRegAccepting, lRequestVars, lIngressVars, earlyVars,
                   lDrainVars, minimum, panicMode, writer, panicker, lSeen>>

LogFacilityStart ==
    /\ lPhase = "Initialized"
    /\ lPhase' = "Started" /\ lAccepting' = TRUE
    /\ UNCHANGED <<lDesign, lScheduler, lRegAccepting, lRequestVars, lIngressVars, earlyVars,
                   lDrainVars, minimum, panicMode, writer, panicker, lSeen>>

LogAcceptRegistration ==
    /\ lPhase = "Started"
    /\ lPhase' = "Running" /\ lRegAccepting' = TRUE
    /\ UNCHANGED <<lDesign, lAccepting, lScheduler, lRequestVars, lIngressVars, earlyVars,
                   lDrainVars, minimum, panicMode, writer, panicker, lSeen>>

(* activate_runtime(): the pointers, then install(), then the request      *)
LogActivate ==
    /\ lPhase = "Running"
    /\ lPhase' = "Activating" /\ lScheduler' = TRUE
    /\ UNCHANGED <<lDesign, lAccepting, lRegAccepting, lRequestVars, lIngressVars, earlyVars,
                   lDrainVars, minimum, panicMode, writer, panicker, lSeen>>
LogActivated ==
    /\ lPhase = "Requesting" /\ writer["boot"].at = "idle"
    /\ lPhase' = "Active"
    /\ UNCHANGED <<lDesign, lAccepting, lScheduler, lRegAccepting, lRequestVars, lIngressVars,
                   earlyVars, lDrainVars, minimum, panicMode, writer, panicker, lSeen>>

LogCloseRegistration ==
    /\ lPhase = "Active"
    /\ lPhase' = "Closing" /\ lRegAccepting' = FALSE
    /\ UNCHANGED <<lDesign, lAccepting, lScheduler, lRequestVars, lIngressVars, earlyVars,
                   lDrainVars, minimum, panicMode, writer, panicker, lSeen>>

(* stop(), once the work is contained: close, then clear or flush          *)
LogStop ==
    /\ lPhase = "Closing" /\ ~lQueued /\ carrier.work.at = "idle"
    /\ lAccepting' = FALSE /\ lPhase' = "Stopping"
    /\ UNCHANGED <<lDesign, lScheduler, lRegAccepting, lRequestVars, lIngressVars, earlyVars,
                   lDrainVars, minimum, panicMode, writer, panicker, lSeen>>
LogCancel ==
    /\ lPhase = "Stopping" /\ lDesign.stop = "CancelPending"
    /\ lIngress' = <<>> /\ lPhase' = "Stopped"
    /\ UNCHANGED <<lDesign, lAccepting, lScheduler, lRegAccepting, lRequestVars, lLoss, lNext,
                   earlyVars, lDrainVars, minimum, panicMode, writer, panicker, lSeen>>
LogFlush ==
    /\ lPhase = "Stopping" /\ lDesign.stop = "Drain"
    /\ lPhase' = "Flushing"
    /\ carrier' = [carrier EXCEPT !.engine.at = "pop"]
    /\ lSeen' = [lSeen EXCEPT !.overlapped = @ \/ \E c \in Carriers : carrier[c].at # "idle"]
    /\ UNCHANGED <<lDesign, lAccepting, lScheduler, lRegAccepting, lRequestVars, lIngressVars,
                   earlyVars, lHistory, minimum, panicMode, writer, panicker>>
LogStopReturns ==
    /\ lPhase = "Flushing" /\ carrier.engine.at = "idle"
    /\ lPhase' = "Stopped"
    /\ UNCHANGED <<lDesign, lAccepting, lScheduler, lRegAccepting, lRequestVars, lIngressVars,
                   earlyVars, lDrainVars, minimum, panicMode, writer, panicker, lSeen>>
LogDeinit ==
    /\ lPhase = "Stopped"
    /\ lPhase' = "Down" /\ lScheduler' = FALSE
    /\ UNCHANGED <<lDesign, lAccepting, lRegAccepting, lRequestVars, lIngressVars, earlyVars,
                   lDrainVars, minimum, panicMode, writer, panicker, lSeen>>

LogBoot == LogFacilityInit \/ LogFacilityStart \/ LogAcceptRegistration \/ LogActivate \/ LogActivated
LogShutdown ==
    LogCloseRegistration \/ LogStop \/ LogCancel \/ LogFlush \/ LogStopReturns \/ LogDeinit

LogNext ==
    /\ lPhase # "Panicked"
    /\ \/ LogBoot \/ LogShutdown \/ Frontend \/ SetSinkLevel
       \/ \E w \in Writers : Write(w) \/ LogCapture(w)
       \/ LogTakeWork \/ \E c \in Carriers : LogDrain(c)

(* A writer comes out, the work queue runs its work.                       *)
LogFairness ==
    /\ \A w \in Writers : WF_logVars(lPhase # "Panicked" /\ LogCapture(w))
    /\ WF_logVars(lPhase # "Panicked" /\ (LogTakeWork \/ LogDrain("work")))
----------------------------------------------------------------------------
(***************************************************************************)
(* Properties.                                                             *)
(***************************************************************************)
(* The variables have their types and nothing exceeds its capacity         *)
(* (ByteRing, CompactHistory, early_records).                              *)
LogTypeOK ==
    /\ lDesign \in LogDesigns
    /\ lPhase \in {"Off", "Initialized", "Started", "Running", "Activating", "EarlyPanic",
                   "Requesting", "Active", "Closing", "Stopping", "Flushing", "Stopped", "Down",
                   "Panicked"}
    /\ {lAccepting, lPending, lScheduler, lRegAccepting, lQueued, lLoss, panicMode, earlyLoss,
        earlyPanic, bridge, panicBridge} \subseteq BOOLEAN
    /\ Len(lIngress) <= lDesign.ingress /\ Len(lHistory) <= lDesign.historyBytes
    /\ Len(early) <= lDesign.earlyRecords
    /\ ToSet(lIngress \o lHistory) \subseteq
         [level : Levels, sequence : 1..lNext, flagged : BOOLEAN]
    /\ minimum \in [ToSet(Sinks) -> Levels]
    /\ lSeen \in LogSeenType

(* Whatever order the levels arrive and drain in, records below Fatal      *)
(* never take the emergency bytes and those below Warning never the        *)
(* elevated reserve either (the admission limits of capture_resolved).     *)
Below(level) == Len(SelectSeq(lIngress, LAMBDA r : r.level < level))
ReservesKept ==
    /\ Below(Fatal) <= lDesign.ingress - lDesign.emergency
    /\ Below(Warning) <= lDesign.ingress - lDesign.elevated - lDesign.emergency

(* The retained history is in the order the records were captured, as long *)
(* as no two of the work item, a flush and a panic drained side by side.   *)
LogHistoryOrdered ==
    ~lSeen.overlapped =>
        \A i, j \in DOMAIN lHistory : i < j => lHistory[i].sequence < lHistory[j].sequence

(* No record is left in the early buffer: once install() has returned, the *)
(* second look at the callback, under the lock, keeps platform records     *)
(* that were on their way from being buffered where nobody looks again.    *)
EarlyEmptied == lPhase \in {"Active", "Closing", "Stopping", "Stopped", "Down"} => early = <<>>

(* Every record captured before the panic has left the ingress when the    *)
(* panic notification returns.                                             *)
PanicDrains ==
    panicker = "done" => \A i \in DOMAIN lIngress : lIngress[i].sequence >= lSeen.mark

(* stop() under the Drain policy leaves no record behind that was captured *)
(* before it closed.                                                       *)
LogStopDrains ==
    /\ lPhase = "Stopped" /\ lDesign.stop = "Drain" /\ ~lSeen.late
    => lIngress = <<>>

(* Once the facility is active every record captured is drained, as long   *)
(* as the system keeps running (systems that log nothing before: a request *)
(* that is being undone while the facility activates swallows the one of   *)
(* activate_runtime).                                                      *)
LogProcessed ==
    lPhase = "Active" /\ ~lDesign.early ~> lIngress = <<>> \/ lPhase # "Active"

(* Early Zephyr logs are captured: every record the early buffer accepted  *)
(* is handed to an open facility that hears it.                            *)
EarlyHeard == ~lSeen.unheard
=============================================================================
