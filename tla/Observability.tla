---------------------------- MODULE Observability ----------------------------
(***************************************************************************)
(* Events and Logging in one system.  Every component depends on both      *)
(* facilities and Events on Logging (lifecycle/engine.hpp runs the init    *)
(* and start hooks in that order and the stop and deinit hooks in the      *)
(* opposite one), and an event whose log adapter is declared               *)
(* (events/log.hpp) is written to the log while it is processed.           *)
(***************************************************************************)
EXTENDS Events, Log

obsVars == <<eventVars, logVars>>

(* The hooks of the two facilities, in the order of the engine: init, init,*)
(* start, start; the registrations accept; the runtimes are activated.     *)
BootOrder ==
    \/ UNCHANGED eventVars /\ LogFacilityInit
    \/ lPhase = "Initialized" /\ FacilityInit /\ UNCHANGED logVars
    \/ phase = "Initialized" /\ LogFacilityStart /\ UNCHANGED eventVars
    \/ lPhase = "Started" /\ (FacilityStart \/ StartRequest) /\ UNCHANGED logVars
    \/ phase = "Started" /\ LogAcceptRegistration /\ UNCHANGED eventVars
    \/ lPhase = "Running" /\ AcceptRegistration /\ UNCHANGED logVars
    \/ phase = "Running" /\ (LogActivate \/ LogActivated) /\ UNCHANGED eventVars
    \/ lPhase = "Active" /\ ActivateRuntime /\ UNCHANGED logVars

LogContained ==
    /\ lPhase \in {"Closing", "Stopping", "Flushing", "Stopped"}
    /\ ~lQueued /\ carrier["work"].at = "idle"

(* Both registrations are closed and contained before the first stop hook; *)
(* then stop, stop, deinit, deinit, Logging after Events.                  *)
EventsStop == CloseCapture \/ CancelPending \/ StopReturns
LogStopHook == phase \in {"Stopped", "Down"}
StopOrder ==
    \/ Active /\ LogCloseRegistration /\ UNCHANGED eventVars
    \/ lPhase = "Closing" /\ (CloseRegistration \/ PreserveFacility) /\ UNCHANGED logVars
    \/ LogContained /\ EventsStop /\ UNCHANGED logVars
    \/ LogStopHook /\ (LogStop \/ LogCancel \/ LogFlush \/ LogStopReturns) /\ UNCHANGED eventVars
    \/ (lPhase = "Stopped" \/ phase = "StartFailed") /\ FacilityDeinit /\ UNCHANGED logVars
    \/ phase = "Down" /\ LogDeinit /\ UNCHANGED eventVars

(* On::process: the observer of an adapted event captures a log record of  *)
(* its level, with TryCapture, and the processing goes on when it returns. *)
Adapted(d) ==
    IF lDesign.calls[d] = {} THEN UNCHANGED logVars
    ELSE /\ \E level \in lDesign.calls[d] : Offered(d, FALSE, FALSE, level)
         /\ UNCHANGED <<lEngineVars, lRequestVars, lIngressVars, earlyVars, lDrainVars, minimum,
                        panicMode, panicker, lSeen>>
EventsDrain(d) ==
    \/ (BeginDrain(d) \/ Pop(d) \/ EndDrain(d) \/ Unprocessed(d) \/ Retain(d)) /\ UNCHANGED logVars
    \/ Offer(d) /\ Adapted(d)
    \/ writer[d].at = "idle" /\ Settle(d) /\ UNCHANGED logVars

Running == phase # "Panicked" /\ lPhase # "Panicked"
EventsStep(A) == Running /\ A /\ UNCHANGED logVars
LogStep(A) == Running /\ A /\ UNCHANGED eventVars

ObsInit == EventsInit /\ LogInit
ObsNext ==
    /\ Running
    /\ \/ BootOrder \/ StopOrder \/ \E d \in Drainers : EventsDrain(d)
       \/ /\ \/ Tick \/ DeadlinePasses \/ ReadHistory \/ TakeWork \/ FlushAggregates
             \/ \E o \in Observers : Enter(o) \/ Capture(o) \/ RequestProcessing(o)
          /\ UNCHANGED logVars
       \/ /\ \/ Frontend \/ SetSinkLevel \/ LogTakeWork
             \/ \E w \in Writers : Write(w) \/ LogCapture(w)
             \/ \E c \in Carriers : LogDrain(c)
          /\ UNCHANGED eventVars

(* A context that entered a capture comes out, the work queues run their   *)
(* work, and the stop hook goes on; the engine is under no obligation.     *)
ObsFairness ==
    /\ \A o \in Observers : WF_obsVars(EventsStep(Capture(o) \/ RequestProcessing(o)))
    /\ \A w \in Writers : WF_obsVars(LogStep(LogCapture(w)))
    /\ WF_obsVars(Running /\ (EventsDrain("work") \/ (TakeWork /\ UNCHANGED logVars)))
    /\ WF_obsVars(LogStep(LogTakeWork \/ LogDrain("work")))
----------------------------------------------------------------------------
(* Until Events' stop hook returns, an event is offered to its log adapter *)
(* only while the log accepts: what the drain of that hook processes still *)
(* reaches the log (a work item submitted behind the close may run later). *)
LogOpenForEvents ==
    \A d \in Drainers :
        drain[d].at = "offer" /\ phase \notin {"Stopped", "Down"} => LogReady /\ lAccepting

(* What the log promises, together: reserves for severe records, a history *)
(* in order, an early buffer, a panic and a stop that leave nothing        *)
(* behind, and a log that is open for as long as Events drains into it.    *)
LogKeepsRecords ==
    /\ LogTypeOK /\ ReservesKept /\ LogHistoryOrdered
    /\ EarlyEmptied /\ PanicDrains /\ LogStopDrains /\ LogOpenForEvents

(* Whatever was captured is processed, by both facilities. *)
AllProcessed == RecordsProcessed /\ LogProcessed

=============================================================================
