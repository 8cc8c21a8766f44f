----------------------------- MODULE Lifecycle -----------------------------
(***************************************************************************)
(* The lifecycle engine of Solar (include/solar/lifecycle/engine.hpp) and  *)
(* the execution it owns: service threads (execution/service_runtime.hpp), *)
(* workqueue executors and registrations (execution/runtime.hpp), seen     *)
(* from the engine.                                                        *)
(*                                                                         *)
(* Several threads may call boot() and stop(); the operation_active flag   *)
(* lets one of them through.  That caller walks the component graph, one   *)
(* step per hook call or record mutation, while service threads run,       *)
(* return, fail and report, and clients submit work.                       *)
(*                                                                         *)
(* Components are numbered in the topological order the graph computes at  *)
(* compile time.  record.execution_contained is the negation of            *)
(* record.execution_prepared at every unlocked point, so `prepared' stands *)
(* for both.                                                               *)
(***************************************************************************)
EXTENDS Naturals

CONSTANTS
    N,              \* number of components of the effective graph
    Deps,           \* Deps[c]: the components c depends on
    Services,       \* components whose execution is a Solar thread
    Executors,      \* components whose execution is a workqueue
    R,              \* number of execution registrations
    Target,         \* Target[r]: the executor r runs on, or the system workqueue
    RegDeps,        \* RegDeps[r]: owner, target and declared dependencies of r
    AbortOnTimeout, \* services and executors with the abort_on_timeout policy
    Callers         \* threads that may call boot() and stop()

Components == 1..N
Registrations == 1..R
SystemWorkQueue == 0
NoService == 0

ASSUME GraphAssumption ==
    /\ N \in Nat
    /\ Deps \in [Components -> SUBSET Components]
    /\ \A c \in Components : \A d \in Deps[c] : d < c

ASSUME ExecutionAssumption ==
    /\ Services \subseteq Components
    /\ Executors \subseteq Components
    /\ Services \cap Executors = {}
    /\ AbortOnTimeout \subseteq Services \cup Executors
    /\ R \in Nat
    /\ Target \in [Registrations -> Executors \cup {SystemWorkQueue}]
    /\ RegDeps \in [Registrations -> SUBSET Components]

Participants == Services \cup Executors

VARIABLES
    sys,        \* Storage::system_state
    active,     \* Storage::operation_active
    pc,         \* pc[t]: where caller t is in boot() or stop()
    idx,        \* idx[t]: the component or registration t's loop is at
    bootReport, \* Storage::last_boot
    stopReport  \* Storage::last_stop

VARIABLES       \* the report of the operation under way
    op,         \* which operation: boot() or stop()
    dirty,      \* a failure was added to the report
    left,       \* some execution could not be contained
    sysLeft     \* a registration on the system workqueue could not be contained

VARIABLES       \* ComponentRecord, one function per field
    state,      \* record.state
    inited,     \* record.init_succeeded
    started,    \* record.start_succeeded
    prepared,   \* record.execution_prepared
    blocked,    \* record.cleanup_blocked
    failed,     \* record.first_failure is set
    calls       \* record.{init,start,stop,deinit}.attempts

VARIABLES       \* the execution the system owns
    thread,     \* kernel::Thread state of each service
    stopReq,    \* ServiceState::stop_source
    runStatus,  \* ServiceRecord::run_status
    lockHolder, \* the service inside report_execution_failure's critical section
    queue,      \* kernel::WorkQueue of each executor
    accepting,  \* RegistrationState::accepting
    submitter,  \* a client of r between the admission check and the native submit
    work,       \* whether r is queued or its behaviour is in flight
    regLeft     \* RegistrationState::uncontained

rep == <<op, dirty, left, sysLeft>>
engineVars == <<active, pc, idx, rep, bootReport, stopReport>>
recordVars == <<state, inited, started, prepared, blocked, failed, calls>>
serviceVars == <<thread, stopReq, runStatus, lockHolder>>
workVars == <<queue, accepting, submitter, work, regLeft>>
vars == <<sys, engineVars, recordVars, serviceVars, workVars>>

SystemStates == {"Dormant", "Initializing", "Starting", "Running", "Stopping",
                 "Deinitializing", "RollingBack", "Stopped", "Failed"}
ComponentStates == {"Registered", "Initializing", "Initialized", "Starting",
                    "Running", "Stopping", "Stopped", "Deinitializing",
                    "Deinitialized", "Failed"}
Hooks == {"init", "start", "stop", "deinit"}
ThreadStates == {"Empty", "Prepared", "Scheduled", "Running", "Failing",
                 "Reporting", "Reported", "Exited", "Aborted"}
QueueStates == {"Empty", "Started", "Plugged", "Stopped"}

BootPcs == {"Init", "InitHook", "Start", "StartHook", "Prepare", "SysPrepare",
            "Validate", "SysValidate", "Commit", "Run", "SysActivate", "Activate"}
CleanupPcs == {"SysRequest", "SysContain", "Request", "Contain", "Abort",
               "Forced", "Drain", "QueueStop", "Stop", "StopHook", "Deinit", "DeinitHook"}

BootReports == [final : {"None", "Running", "Failed"}, completed : BOOLEAN]
StopReports == {"None", "Stopped", "Failed"}
----------------------------------------------------------------------------
(* mark_dependency_closure: the components that reach the least set that   *)
(* holds S and, with a component, its dependencies.                        *)
DependencyClosed(T) == \A c \in T : Deps[c] \subseteq T

Closure(S) ==
    {d \in Components : \A T \in SUBSET Components :
                            S \subseteq T /\ DependencyClosed(T) => d \in T}

(* has_resources: a stop of a failed system has something to do.           *)
HasResources == \E c \in Components : inited[c] \/ started[c] \/ prepared[c]

TargetedAt(e) == {r \in Registrations : Target[r] = e}

(* RegistrationState::accepting as constructed                             *)
AdmissionAtConstruction == FALSE

Init ==
    /\ sys = "Dormant"
    /\ active = FALSE
    /\ pc = [t \in Callers |-> "Idle"]
    /\ idx = [t \in Callers |-> 0]
    /\ op = "boot" /\ dirty = FALSE /\ left = FALSE /\ sysLeft = FALSE
    /\ bootReport = [final |-> "None", completed |-> FALSE]
    /\ stopReport = "None"
    /\ state = [c \in Components |-> "Registered"]
    /\ inited = [c \in Components |-> FALSE]
    /\ started = [c \in Components |-> FALSE]
    /\ prepared = [c \in Components |-> FALSE]
    /\ blocked = [c \in Components |-> FALSE]
    /\ failed = [c \in Components |-> FALSE]
    /\ calls = [c \in Components |-> [h \in Hooks |-> 0]]
    /\ thread = [s \in Services |-> "Empty"]
    /\ stopReq = [s \in Services |-> FALSE]
    /\ runStatus = [s \in Services |-> "NotReady"]
    /\ lockHolder = NoService
    /\ queue = [e \in Executors |-> "Empty"]
    /\ accepting = [r \in Registrations |-> AdmissionAtConstruction]
    /\ submitter = [r \in Registrations |-> FALSE]
    /\ work = [r \in Registrations |-> FALSE]
    /\ regLeft = [r \in Registrations |-> FALSE]
----------------------------------------------------------------------------
Goto(t, p, i) == pc' = [pc EXCEPT ![t] = p] /\ idx' = [idx EXCEPT ![t] = i]

(* with_records: every record mutation takes records_mutex.                *)
RecordsFree == lockHolder = NoService

Called(c, h) == calls' = [calls EXCEPT ![c][h] = @ + 1]

(* record_failure                                                          *)
RecordFailure(c) ==
    /\ state' = [state EXCEPT ![c] = "Failed"]
    /\ failed' = [failed EXCEPT ![c] = TRUE]

(* for_each_type over the reverse topological order goes on.               *)
MoreBeforeLast(c) == c >= 2

More(c) == c >= 1

NewReport(o) == op' = o /\ dirty' = FALSE /\ left' = FALSE /\ sysLeft' = FALSE

(* OperationGuard: test_and_set; a caller that finds it set returns Busy.  *)
GuardFree == ~active

(* The states stop() accepts.                                              *)
StopAllowed == sys = "Running" \/ (sys = "Failed" /\ HasResources)

(***************************************************************************)
(* boot().  A call refused as Busy, AlreadyRunning or RebootUnsupported    *)
(* changes nothing and is no step.                                         *)
(***************************************************************************)
Boot(t) ==
    /\ pc[t] = "Idle" /\ GuardFree /\ sys = "Dormant"
    /\ active' = TRUE
    /\ sys' = "Initializing"
    /\ NewReport("boot")
    /\ Goto(t, "Init", 1)
    /\ UNCHANGED <<bootReport, stopReport, recordVars, serviceVars, workVars>>

(* A failure before Running: the primary failure is recorded on its        *)
(* component and rollback begins.                                          *)
BeginRollback(t, p, i) ==
    /\ sys' = "RollingBack"
    /\ Goto(t, p, i)

(* initialize_component, up to the call of the hook                        *)
InitBegin(t) ==
    LET c == idx[t] IN
    /\ pc[t] = "Init" /\ c <= N /\ RecordsFree
    /\ state' = [state EXCEPT ![c] = "Initializing"]
    /\ Called(c, "init")
    /\ Goto(t, "InitHook", c)
    /\ UNCHANGED <<sys, active, rep, bootReport, stopReport, inited, started,
                   prepared, blocked, failed, serviceVars, workVars>>

InitSucceeds(t) ==
    LET c == idx[t] IN
    /\ pc[t] = "InitHook" /\ RecordsFree
    /\ inited' = [inited EXCEPT ![c] = TRUE]
    /\ state' = [state EXCEPT ![c] = "Initialized"]
    /\ Goto(t, "Init", c + 1)
    /\ UNCHANGED <<sys, active, rep, bootReport, stopReport, started, prepared,
                   blocked, failed, calls, serviceVars, workVars>>

InitFails(t) ==
    /\ pc[t] = "InitHook" /\ RecordsFree
    /\ RecordFailure(idx[t])
    /\ BeginRollback(t, "Deinit", N)
    /\ UNCHANGED <<active, rep, bootReport, stopReport, inited, started, prepared,
                   blocked, calls, serviceVars, workVars>>

InitDone(t) ==
    /\ pc[t] = "Init" /\ idx[t] > N
    /\ sys' = "Starting"
    /\ Goto(t, "Start", 1)
    /\ UNCHANGED <<active, rep, bootReport, stopReport, recordVars, serviceVars,
                   workVars>>

(* start_component                                                         *)
StartBegin(t) ==
    LET c == idx[t] IN
    /\ pc[t] = "Start" /\ c <= N /\ RecordsFree
    /\ state' = [state EXCEPT ![c] = "Starting"]
    /\ Called(c, "start")
    /\ Goto(t, "StartHook", c)
    /\ UNCHANGED <<sys, active, rep, bootReport, stopReport, inited, started,
                   prepared, blocked, failed, serviceVars, workVars>>

StartSucceeds(t) ==
    LET c == idx[t] IN
    /\ pc[t] = "StartHook" /\ RecordsFree
    /\ IF c \in Participants
       THEN Goto(t, "Prepare", c) /\ UNCHANGED started
       ELSE Goto(t, "Start", c + 1) /\ started' = [started EXCEPT ![c] = TRUE]
    /\ UNCHANGED <<sys, active, rep, bootReport, stopReport, state, inited,
                   prepared, blocked, failed, calls, serviceVars, workVars>>

StartFails(t) ==
    /\ pc[t] = "StartHook" /\ RecordsFree
    /\ RecordFailure(idx[t])
    /\ BeginRollback(t, "SysRequest", 0)
    /\ UNCHANGED <<active, rep, bootReport, stopReport, inited, started, prepared,
                   blocked, calls, serviceVars, workVars>>

(* ExecutionProtocol::prepare (prepare_service, prepare_executor) and the  *)
(* record mutations that follow its success                                *)
LaunchedThread == "Scheduled"

PreparedThread == "Prepared"

PrepareSucceeds(t) ==
    LET c == idx[t] IN
    /\ pc[t] = "Prepare" /\ RecordsFree
    /\ thread' = [s \in Services |-> IF s = c THEN PreparedThread ELSE thread[s]]
    /\ queue' = [e \in Executors |-> IF e = c THEN "Started" ELSE queue[e]]
    /\ prepared' = [prepared EXCEPT ![c] = TRUE]
    /\ started' = [started EXCEPT ![c] = TRUE]
    /\ Goto(t, "Start", c + 1)
    /\ UNCHANGED <<sys, active, rep, bootReport, stopReport, state, inited, blocked,
                   failed, calls, stopReq, runStatus, lockHolder, accepting,
                   submitter, work, regLeft>>

PrepareFails(t) ==
    /\ pc[t] = "Prepare" /\ RecordsFree
    /\ RecordFailure(idx[t])
    /\ BeginRollback(t, "SysRequest", 0)
    /\ UNCHANGED <<active, rep, bootReport, stopReport, inited, started, prepared,
                   blocked, calls, serviceVars, workVars>>

StartDone(t) ==
    /\ pc[t] = "Start" /\ idx[t] > N
    /\ Goto(t, "SysPrepare", 0)
    /\ UNCHANGED <<sys, active, rep, bootReport, stopReport, recordVars, serviceVars,
                   workVars>>

(* SystemExecutionProtocol::prepare and validate_activation, and the       *)
(* catalogs' commit: each lets boot go on or fails it                      *)
GatePasses(t) ==
    /\ \/ pc[t] = "SysPrepare" /\ Goto(t, "Validate", 0)
       \/ pc[t] = "SysValidate" /\ Goto(t, "Commit", 0)
       \/ pc[t] = "Commit" /\ Goto(t, "Run", 0)
    /\ UNCHANGED <<sys, active, rep, bootReport, stopReport, recordVars, serviceVars,
                   workVars>>

GateFails(t) ==
    /\ pc[t] \in {"SysPrepare", "SysValidate", "Commit"}
    /\ BeginRollback(t, "SysRequest", 0)
    /\ UNCHANGED <<active, rep, bootReport, stopReport, recordVars, serviceVars,
                   workVars>>

(* validate_service, validate_executor                                     *)
Validates(c) ==
    /\ c \in Services => thread[c] = "Prepared"
    /\ c \in Executors => queue[c] = "Started"

(* validate_execution of every component that prepared one                 *)
Validate(t) ==
    /\ pc[t] = "Validate" /\ RecordsFree
    /\ IF \A c \in Components : prepared[c] => Validates(c)
       THEN Goto(t, "SysValidate", 0) /\ UNCHANGED <<sys, state, failed>>
       ELSE /\ \E c \in Components : prepared[c] /\ ~Validates(c) /\ RecordFailure(c)
            /\ BeginRollback(t, "SysRequest", 0)
    /\ UNCHANGED <<active, rep, bootReport, stopReport, inited, started, prepared,
                   blocked, calls, serviceVars, workVars>>

(* The commit to Running: records, system state, report.  The activation   *)
(* barrier is still closed.                                                *)
Run(t) ==
    /\ pc[t] = "Run" /\ RecordsFree
    /\ state' = [c \in Components |-> "Running"]
    /\ sys' = "Running"
    /\ bootReport' = [final |-> "Running", completed |-> FALSE]
    /\ Goto(t, "SysActivate", 0)
    /\ UNCHANGED <<active, rep, stopReport, inited, started, prepared, blocked,
                   failed, calls, serviceVars, workVars>>

(* activate_registrations opens every admission gate.                      *)
SysActivate(t) ==
    /\ pc[t] = "SysActivate"
    /\ accepting' = [r \in Registrations |-> TRUE]
    /\ Goto(t, "Activate", 1)
    /\ UNCHANGED <<sys, active, rep, bootReport, stopReport, recordVars, serviceVars,
                   queue, submitter, work, regLeft>>

(* activate_execution: a service's thread is started.  An executor's       *)
(* activation only sets flags of its record.                               *)
Activate(t) ==
    LET c == idx[t] IN
    /\ pc[t] = "Activate" /\ c <= N /\ RecordsFree
    /\ thread' = [s \in Services |-> IF s = c /\ prepared[c] /\ thread[s] = "Prepared"
                                     THEN "Scheduled" ELSE thread[s]]
    /\ Goto(t, "Activate", c + 1)
    /\ UNCHANGED <<sys, active, rep, bootReport, stopReport, recordVars, stopReq,
                   runStatus, lockHolder, workVars>>

(* activate_catalog_runtime, and the guard is released.                    *)
ActivateDone(t) ==
    /\ pc[t] = "Activate" /\ idx[t] > N
    /\ active' = FALSE
    /\ Goto(t, "Idle", 0)
    /\ UNCHANGED <<sys, rep, bootReport, stopReport, recordVars, serviceVars,
                   workVars>>
----------------------------------------------------------------------------
(***************************************************************************)
(* stop() and rollback() share their steps.                                *)
(***************************************************************************)
Stop(t) ==
    /\ pc[t] = "Idle" /\ GuardFree /\ RecordsFree
    /\ StopAllowed
    /\ active' = TRUE
    /\ sys' = "Stopping"
    /\ NewReport("stop")
    /\ Goto(t, "SysRequest", 0)
    /\ UNCHANGED <<bootReport, stopReport, recordVars, serviceVars, workVars>>

(* request_registrations_stop, begin_registration_containment              *)
SysRequest(t) ==
    /\ pc[t] = "SysRequest"
    /\ accepting' = [r \in Registrations |-> FALSE]
    /\ Goto(t, "SysContain", 1)
    /\ UNCHANGED <<sys, active, rep, bootReport, stopReport, recordVars, serviceVars,
                   queue, submitter, work, regLeft>>

(* contain_registrations: wait for each registration to be quiescent ...   *)
SysQuiescent(t) ==
    LET r == idx[t] IN
    /\ pc[t] = "SysContain" /\ r <= R
    /\ ~work[r]
    /\ Goto(t, "SysContain", r + 1)
    /\ UNCHANGED <<sys, active, rep, bootReport, stopReport, recordVars, serviceVars,
                   workVars>>

(* ... until the deadline.  One that misses it on the system workqueue is  *)
(* uncontained; one on an executor is left to contain_executor.            *)
SysTimeout(t) ==
    LET r == idx[t] IN
    /\ pc[t] = "SysContain" /\ r <= R
    /\ work[r]
    /\ IF Target[r] = SystemWorkQueue
       THEN /\ regLeft' = [regLeft EXCEPT ![r] = TRUE]
            /\ sysLeft' = TRUE
       ELSE UNCHANGED <<regLeft, sysLeft>>
    /\ Goto(t, "SysContain", r + 1)
    /\ UNCHANGED <<sys, active, op, dirty, left, bootReport, stopReport, recordVars, serviceVars,
                   queue, accepting, submitter, work>>

PreserveDirect(S) == blocked' = [c \in Components |-> blocked[c] \/ c \in S]

Preserve(S) == blocked' = [c \in Components |-> blocked[c] \/ c \in Closure(S)]

(* contain_system_execution, after the loop                                *)
SysContainDone(t) ==
    /\ pc[t] = "SysContain" /\ idx[t] > R /\ RecordsFree
    /\ IF sysLeft
       THEN /\ Preserve(UNION {RegDeps[r] : r \in {q \in TargetedAt(SystemWorkQueue) : regLeft[q]}})
            /\ left' = TRUE /\ dirty' = TRUE
       ELSE UNCHANGED <<blocked, left, dirty>>
    /\ Goto(t, "Request", N)
    /\ UNCHANGED <<sys, active, op, sysLeft, bootReport, stopReport, state, inited, started,
                   prepared, failed, calls, serviceVars, workVars>>

(* request_execution_stop, dependants first                                *)
Request(t) ==
    LET c == idx[t] IN
    /\ pc[t] = "Request" /\ More(c) /\ RecordsFree
    /\ stopReq' = [s \in Services |-> stopReq[s] \/ (s = c /\ prepared[c])]
    /\ Goto(t, "Request", c - 1)
    /\ UNCHANGED <<sys, active, rep, bootReport, stopReport, recordVars, thread,
                   runStatus, lockHolder, workVars>>

RequestDone(t) ==
    /\ pc[t] = "Request" /\ idx[t] = 0
    /\ Goto(t, "Contain", N)
    /\ UNCHANGED <<sys, active, rep, bootReport, stopReport, recordVars, serviceVars,
                   workVars>>

(* contain_execution passes over a component that has no live execution.   *)
ContainSkip(t) ==
    LET c == idx[t] IN
    /\ pc[t] = "Contain" /\ More(c) /\ RecordsFree
    /\ ~prepared[c]
    /\ Goto(t, "Contain", c - 1)
    /\ UNCHANGED <<sys, active, rep, bootReport, stopReport, recordVars, serviceVars,
                   workVars>>

(* The outcome `contained' of contain(): the execution is over.            *)
Contained(t, c, ok) ==
    /\ prepared' = [prepared EXCEPT ![c] = FALSE]
    /\ IF ok
       THEN UNCHANGED <<dirty, state, failed>>
       ELSE /\ dirty' = TRUE
            /\ RecordFailure(c)
    /\ Goto(t, "Contain", c - 1)
    /\ UNCHANGED <<sys, active, op, left, sysLeft, bootReport, stopReport, inited,
                   started, blocked, calls>>

(* The outcome `not contained': what the execution can reach is preserved. *)
Uncontained(t, c, reach) ==
    /\ left' = TRUE /\ dirty' = TRUE
    /\ Preserve(reach)
    /\ RecordFailure(c)
    /\ Goto(t, "Contain", c - 1)
    /\ UNCHANGED <<sys, active, op, sysLeft, bootReport, stopReport, inited, started,
                   prepared, calls>>

(* contain_service: the join succeeds.                                     *)
Join(t) ==
    LET c == idx[t] IN
    /\ pc[t] = "Contain" /\ c \in Services /\ RecordsFree
    /\ prepared[c] /\ thread[c] = "Exited"
    /\ Contained(t, c, runStatus[c] = "Ok")
    /\ UNCHANGED <<serviceVars, workVars>>

(* contain_service: kernel::Thread::join refuses a thread that was never   *)
(* started with NotReady, which contain_service takes for uncontained.     *)
JoinUnstarted(t) ==
    LET c == idx[t] IN
    /\ pc[t] = "Contain" /\ c \in Services /\ RecordsFree
    /\ prepared[c] /\ thread[c] = "Prepared"
    /\ Uncontained(t, c, {c})
    /\ UNCHANGED <<serviceVars, workVars>>

(* Bug: a join that timed out is taken for the end of the service. *)
JoinTimeoutEnds(t) ==
    LET c == idx[t] IN
    /\ pc[t] = "Contain" /\ c \in Services /\ RecordsFree
    /\ prepared[c] /\ thread[c] \notin {"Prepared", "Exited"}
    /\ IF c \in AbortOnTimeout
       THEN /\ Goto(t, "Abort", c)
            /\ UNCHANGED <<sys, active, rep, bootReport, stopReport, recordVars>>
       ELSE Contained(t, c, FALSE)
    /\ UNCHANGED <<serviceVars, workVars>>

(* contain_service: the join times out.                                    *)
JoinTimeout(t) ==
    LET c == idx[t] IN
    /\ pc[t] = "Contain" /\ c \in Services /\ RecordsFree
    /\ prepared[c] /\ thread[c] \notin {"Prepared", "Exited"}
    /\ IF c \in AbortOnTimeout
       THEN /\ Goto(t, "Abort", c)
            /\ UNCHANGED <<sys, active, rep, bootReport, stopReport, recordVars>>
       ELSE Uncontained(t, c, {c})
    /\ UNCHANGED <<serviceVars, workVars>>

(* kernel::Thread::abort; a thread that exited meanwhile counts as aborted.*)
(* A mutex the thread holds stays locked.                                  *)
Abort(t) ==
    LET c == idx[t] IN
    /\ pc[t] = "Abort"
    /\ thread' = [thread EXCEPT ![c] = IF @ = "Exited" THEN "Exited" ELSE "Aborted"]
    /\ Goto(t, "Forced", c)
    /\ UNCHANGED <<sys, active, rep, bootReport, stopReport, recordVars, stopReq,
                   runStatus, lockHolder, workVars>>

Forced(t) ==
    /\ pc[t] = "Forced" /\ RecordsFree
    /\ Contained(t, idx[t], FALSE)
    /\ UNCHANGED <<serviceVars, workVars>>

(* contain_executor: every registration on the queue was seen quiescent.   *)
QueueQuiescent(t) ==
    LET c == idx[t] IN
    /\ pc[t] = "Contain" /\ c \in Executors /\ RecordsFree
    /\ prepared[c]
    /\ \A r \in TargetedAt(c) : ~work[r]
    /\ Goto(t, "Drain", c)
    /\ UNCHANGED <<sys, active, rep, bootReport, stopReport, recordVars, serviceVars,
                   workVars>>

(* What an executor that is not contained can still reach.                 *)
QueueReach(c) == {c} \cup UNION {RegDeps[r] : r \in TargetedAt(c)}

(* contain_executor: the deadline has passed; abort the queue's thread if  *)
(* the policy allows it.                                                   *)
QueueTimesOut(t, c) ==
    IF c \in AbortOnTimeout
    THEN /\ queue' = [queue EXCEPT ![c] = "Stopped"]
         /\ work' = [r \in Registrations |-> work[r] /\ Target[r] # c]
         /\ Contained(t, c, FALSE)
    ELSE /\ UNCHANGED <<queue, work>>
         /\ Uncontained(t, c, QueueReach(c))

QueueTimeout(t) ==
    LET c == idx[t] IN
    /\ pc[t] = "Contain" /\ c \in Executors /\ RecordsFree
    /\ prepared[c]
    /\ \E r \in TargetedAt(c) : work[r]
    /\ QueueTimesOut(t, c)
    /\ UNCHANGED <<serviceVars, accepting, submitter, regLeft>>

(* WorkQueue::drain(plug): from now on submissions from outside fail ...   *)
Drain(t) ==
    LET c == idx[t] IN
    /\ pc[t] = "Drain"
    /\ queue' = [queue EXCEPT ![c] = "Plugged"]
    /\ Goto(t, "QueueStop", c)
    /\ UNCHANGED <<sys, active, rep, bootReport, stopReport, recordVars, serviceVars,
                   accepting, submitter, work, regLeft>>

(* ... and drain returns, without a bound, once the queue is empty; then   *)
(* WorkQueue::stop joins the queue's thread, or finds the deadline passed. *)
QueueStopped(t) ==
    LET c == idx[t] IN
    /\ pc[t] = "QueueStop" /\ RecordsFree
    /\ \A r \in TargetedAt(c) : ~work[r]
    /\ queue' = [queue EXCEPT ![c] = "Stopped"]
    /\ Contained(t, c, TRUE)
    /\ UNCHANGED <<serviceVars, accepting, submitter, work, regLeft>>

QueueStopTimeout(t) ==
    LET c == idx[t] IN
    /\ pc[t] = "QueueStop" /\ RecordsFree
    /\ \A r \in TargetedAt(c) : ~work[r]
    /\ QueueTimesOut(t, c)
    /\ UNCHANGED <<serviceVars, accepting, submitter, regLeft>>

ContainDone(t) ==
    /\ pc[t] = "Contain" /\ idx[t] = 0
    /\ Goto(t, "Stop", N)
    /\ UNCHANGED <<sys, active, rep, bootReport, stopReport, recordVars, serviceVars,
                   workVars>>

(* stop_component: only a component that was started and is not preserved  *)
Stops(c) == started[c] /\ ~blocked[c]

StopBegin(t) ==
    LET c == idx[t] IN
    /\ pc[t] = "Stop" /\ More(c) /\ RecordsFree
    /\ IF Stops(c)
       THEN /\ state' = [state EXCEPT ![c] = "Stopping"]
            /\ Called(c, "stop")
            /\ Goto(t, "StopHook", c)
       ELSE Goto(t, "Stop", c - 1) /\ UNCHANGED <<state, calls>>
    /\ UNCHANGED <<sys, active, rep, bootReport, stopReport, inited, started,
                   prepared, blocked, failed, serviceVars, workVars>>

(* A cleanup hook returns: the stage is given up whatever it answers, and  *)
(* a failure is recorded and reported.                                     *)
Cleaned(c, ok, calm) ==
    /\ state' = [state EXCEPT ![c] = IF ok /\ ~failed[c] THEN calm ELSE "Failed"]
    /\ failed' = [failed EXCEPT ![c] = @ \/ ~ok]
    /\ dirty' = (dirty \/ ~ok)

StageAfterCleanup(ok) == FALSE

StopReturns(t) ==
    LET c == idx[t] IN
    /\ pc[t] = "StopHook" /\ RecordsFree
    /\ \E ok \in BOOLEAN :
          /\ started' = [started EXCEPT ![c] = StageAfterCleanup(ok)]
          /\ Cleaned(c, ok, "Stopped")
    /\ Goto(t, "Stop", c - 1)
    /\ UNCHANGED <<sys, active, op, left, sysLeft, bootReport, stopReport, inited, prepared, blocked,
                   calls, serviceVars, workVars>>

StopDone(t) ==
    /\ pc[t] = "Stop" /\ idx[t] = 0
    /\ sys' = IF op = "stop" THEN "Deinitializing" ELSE sys
    /\ Goto(t, "Deinit", N)
    /\ UNCHANGED <<active, rep, bootReport, stopReport, recordVars, serviceVars,
                   workVars>>

(* deinitialize_component                                                  *)
DeinitsHealthy(c) == inited[c] /\ ~blocked[c] /\ ~failed[c]

Deinits(c) == inited[c] /\ ~blocked[c]

DeinitBegin(t) ==
    LET c == idx[t] IN
    /\ pc[t] = "Deinit" /\ More(c) /\ RecordsFree
    /\ IF Deinits(c)
       THEN /\ state' = [state EXCEPT ![c] = "Deinitializing"]
            /\ Called(c, "deinit")
            /\ Goto(t, "DeinitHook", c)
       ELSE Goto(t, "Deinit", c - 1) /\ UNCHANGED <<state, calls>>
    /\ UNCHANGED <<sys, active, rep, bootReport, stopReport, inited, started,
                   prepared, blocked, failed, serviceVars, workVars>>

DeinitReturns(t) ==
    LET c == idx[t] IN
    /\ pc[t] = "DeinitHook" /\ RecordsFree
    /\ \E ok \in BOOLEAN :
          /\ inited' = [inited EXCEPT ![c] = StageAfterCleanup(ok)]
          /\ Cleaned(c, ok, "Deinitialized")
    /\ Goto(t, "Deinit", c - 1)
    /\ UNCHANGED <<sys, active, op, left, sysLeft, bootReport, stopReport, started, prepared, blocked,
                   calls, serviceVars, workVars>>

(* The end of rollback(): the boot report is published.                    *)
RollbackDone(t) ==
    /\ pc[t] = "Deinit" /\ idx[t] = 0 /\ op = "boot" /\ RecordsFree
    /\ sys' = "Failed"
    /\ bootReport' = [final |-> "Failed", completed |-> ~left]
    /\ active' = FALSE
    /\ Goto(t, "Idle", 0)
    /\ UNCHANGED <<rep, stopReport, recordVars, serviceVars, workVars>>

(* The end of stop(): Stopped if nothing failed and nothing is left.       *)
FinalState == IF dirty \/ left THEN "Failed" ELSE "Stopped"

StopFinished(t) ==
    /\ pc[t] = "Deinit" /\ idx[t] = 0 /\ op = "stop" /\ RecordsFree
    /\ sys' = FinalState
    /\ stopReport' = FinalState
    /\ active' = FALSE
    /\ Goto(t, "Idle", 0)
    /\ UNCHANGED <<rep, bootReport, recordVars, serviceVars, workVars>>
----------------------------------------------------------------------------
(***************************************************************************)
(* service_entry                                                           *)
(***************************************************************************)
ThreadRun(s) ==
    /\ thread[s] = "Scheduled"
    /\ thread' = [thread EXCEPT ![s] = "Running"]
    /\ UNCHANGED <<sys, engineVars, recordVars, stopReq, runStatus, lockHolder,
                   workVars>>

(* run() returns, with or without an error; returning before a stop was    *)
(* requested is a failure of its own.                                      *)
ExitStatus(s, ok) == IF ~ok THEN "Error" ELSE IF stopReq[s] THEN "Ok" ELSE "UnexpectedExit"

RunReturns(s) ==
    /\ thread[s] = "Running"
    /\ \E ok \in BOOLEAN :
          /\ runStatus' = [runStatus EXCEPT ![s] = ExitStatus(s, ok)]
          /\ thread' = [thread EXCEPT ![s] = IF runStatus'[s] = "Ok" THEN "Exited"
                                             ELSE "Failing"]
    /\ UNCHANGED <<sys, engineVars, recordVars, stopReq, lockHolder, workVars>>

(* report_execution_failure: take records_mutex, ...                       *)
ReportLock(s) ==
    /\ thread[s] = "Failing" /\ RecordsFree
    /\ lockHolder' = s
    /\ thread' = [thread EXCEPT ![s] = "Reporting"]
    /\ UNCHANGED <<sys, engineVars, recordVars, stopReq, runStatus, workVars>>

(* ... record the failure and release the mutex, ...                       *)
ReportRecord(s) ==
    /\ thread[s] = "Reporting"
    /\ RecordFailure(s)
    /\ lockHolder' = NoService
    /\ thread' = [thread EXCEPT ![s] = "Reported"]
    /\ UNCHANGED <<sys, engineVars, inited, started, prepared, blocked, calls,
                   stopReq, runStatus, workVars>>

(* ... and move a system that is running to Failed.                        *)
ReportedStates == {"Running", "Starting"}

ReportSystem(s) ==
    /\ thread[s] = "Reported"
    /\ sys' = IF sys \in ReportedStates THEN "Failed" ELSE sys
    /\ thread' = [thread EXCEPT ![s] = "Exited"]
    /\ UNCHANGED <<engineVars, recordVars, stopReq, runStatus, lockHolder, workVars>>

(***************************************************************************)
(* Clients of registrations.  submit_registration reads `accepting' and    *)
(* submits to the native queue in a later step.                            *)
(***************************************************************************)
SubmitCheck(r) ==
    /\ accepting[r] /\ ~submitter[r]
    /\ submitter' = [submitter EXCEPT ![r] = TRUE]
    /\ UNCHANGED <<sys, engineVars, recordVars, serviceVars, queue, accepting, work,
                   regLeft>>

(* k_work_submit_to_queue: a queue that is plugged or stopped refuses.     *)
QueueTakes(r) == IF Target[r] = SystemWorkQueue THEN TRUE ELSE queue[Target[r]] = "Started"

SubmitNative(r) ==
    /\ submitter[r]
    /\ submitter' = [submitter EXCEPT ![r] = FALSE]
    /\ work' = [work EXCEPT ![r] = @ \/ QueueTakes(r)]
    /\ UNCHANGED <<sys, engineVars, recordVars, serviceVars, queue, accepting, regLeft>>

(* The behaviour returns, or queued work is cancelled.                     *)
WorkDone(r) ==
    /\ work[r]
    /\ work' = [work EXCEPT ![r] = FALSE]
    /\ UNCHANGED <<sys, engineVars, recordVars, serviceVars, queue, accepting,
                   submitter, regLeft>>
----------------------------------------------------------------------------
BootStep(t) ==
    \/ InitBegin(t) \/ InitSucceeds(t) \/ InitFails(t) \/ InitDone(t)
    \/ StartBegin(t) \/ StartSucceeds(t) \/ StartFails(t)
    \/ PrepareSucceeds(t) \/ PrepareFails(t) \/ StartDone(t)
    \/ GatePasses(t) \/ GateFails(t) \/ Validate(t) \/ Run(t)
    \/ SysActivate(t) \/ Activate(t) \/ ActivateDone(t)

ContainStep(t) ==
    \/ SysRequest(t) \/ SysQuiescent(t) \/ SysTimeout(t) \/ SysContainDone(t)
    \/ Request(t) \/ RequestDone(t)
    \/ ContainSkip(t) \/ Join(t) \/ JoinUnstarted(t) \/ JoinTimeout(t)
    \/ Abort(t) \/ Forced(t)
    \/ QueueQuiescent(t) \/ QueueTimeout(t) \/ Drain(t)
    \/ QueueStopped(t) \/ QueueStopTimeout(t) \/ ContainDone(t)

CleanupStep(t) ==
    \/ StopBegin(t) \/ StopReturns(t) \/ StopDone(t)
    \/ DeinitBegin(t) \/ DeinitReturns(t) \/ RollbackDone(t) \/ StopFinished(t)

EngineStep(t) == BootStep(t) \/ ContainStep(t) \/ CleanupStep(t)

ReportStep(s) == ReportLock(s) \/ ReportRecord(s) \/ ReportSystem(s)

ServiceStep(s) == ThreadRun(s) \/ RunReturns(s) \/ ReportStep(s)

WorkStep(r) == SubmitCheck(r) \/ SubmitNative(r) \/ WorkDone(r)

Next ==
    \/ \E t \in Callers : Boot(t) \/ Stop(t) \/ EngineStep(t)
    \/ \E s \in Services : ServiceStep(s)
    \/ \E r \in Registrations : WorkStep(r)

Spec == Init /\ [][Next]_vars

(* Hooks return, a caller inside boot() or stop() goes on, a thread that   *)
(* has left run() finishes its report, a submitter finishes its call and   *)
(* behaviours on a workqueue return.  Nothing makes a service leave run(). *)
Fairness ==
    /\ \A t \in Callers : WF_vars(EngineStep(t))
    /\ \A s \in Services : WF_vars(ReportStep(s))
    /\ \A r \in Registrations : WF_vars(SubmitNative(r)) /\ WF_vars(WorkDone(r))

FairSpec == Spec /\ Fairness
----------------------------------------------------------------------------
Pcs == {"Idle"} \cup BootPcs \cup CleanupPcs

EngineTypeOK ==
    /\ sys \in SystemStates
    /\ active \in BOOLEAN
    /\ pc \in [Callers -> Pcs]
    /\ idx \in [Callers -> Nat]
    /\ op \in {"boot", "stop"} /\ dirty \in BOOLEAN /\ left \in BOOLEAN /\ sysLeft \in BOOLEAN
    /\ bootReport \in BootReports
    /\ stopReport \in StopReports

RecordTypeOK ==
    /\ state \in [Components -> ComponentStates]
    /\ inited \in [Components -> BOOLEAN]
    /\ started \in [Components -> BOOLEAN]
    /\ prepared \in [Components -> BOOLEAN]
    /\ blocked \in [Components -> BOOLEAN]
    /\ failed \in [Components -> BOOLEAN]
    /\ calls \in [Components -> [Hooks -> Nat]]

ExecutionTypeOK ==
    /\ thread \in [Services -> ThreadStates]
    /\ stopReq \in [Services -> BOOLEAN]
    /\ runStatus \in [Services -> {"NotReady", "Ok", "Error", "UnexpectedExit"}]
    /\ lockHolder \in Services \cup {NoService}
    /\ queue \in [Executors -> QueueStates]
    /\ accepting \in [Registrations -> BOOLEAN]
    /\ submitter \in [Registrations -> BOOLEAN]
    /\ work \in [Registrations -> BOOLEAN]
    /\ regLeft \in [Registrations -> BOOLEAN]

(* The type of every variable: a caller is at one of the places of boot()  *)
(* or stop() and its loop index never runs below zero.                     *)
TypeOK == EngineTypeOK /\ RecordTypeOK /\ ExecutionTypeOK

Usable(c) == inited[c] /\ started[c] /\ calls[c]["stop"] = 0 /\ calls[c]["deinit"] = 0

(* While a service is inside run(), it and everything it depends on is     *)
(* started and no stop() or deinit() hook of theirs was called: what can   *)
(* still be reached is preserved, whatever timed out and however often     *)
(* stop() is called (contain_service, mark_dependency_closure).            *)
RunningServiceKeepsDependencies ==
    \A s \in Services : thread[s] = "Running" =>
        \A c \in Closure({s}) : Usable(c)

(* The same for the behaviours on an executor's queue, late submissions    *)
(* included (contain_executor plugs the queue before it stops it).         *)
ExecutorWorkKeepsDependencies ==
    \A r \in Registrations : work[r] /\ Target[r] # SystemWorkQueue =>
        \A c \in Closure(RegDeps[r]) : Usable(c)

(* A hook runs when the graph allows it: init() and start() after the      *)
(* dependencies', stop() and deinit() after the dependants', counting the  *)
(* components whose execution could not be contained.                      *)
HookOrder ==
    \A t \in Callers : LET c == idx[t] IN
        /\ pc[t] = "InitHook" => \A d \in Deps[c] : inited[d]
        /\ pc[t] \in {"StartHook", "Prepare"} => \A d \in Deps[c] : inited[d] /\ started[d]
        /\ pc[t] = "StopHook" => \A d \in Components : c \in Deps[d] => ~started[d] /\ ~prepared[d]
        /\ pc[t] = "DeinitHook" => \A d \in Components : c \in Deps[d] => ~inited[d] /\ ~prepared[d]

(* No hook is called twice, however boot() and stop() calls race or are    *)
(* repeated and whatever cleanup hooks answer.                             *)
HooksCalledOnce == \A c \in Components : \A h \in Hooks : calls[c][h] <= 1

(* No service body and no registered behaviour runs before the system has  *)
(* committed to Running with every component started.                      *)
ActivationBarrier ==
    (\/ \E s \in Services : thread[s] \notin {"Empty", "Prepared"}
     \/ \E r \in Registrations : work[r]) =>
        /\ bootReport.final = "Running"
        /\ \A c \in Components : calls[c]["start"] = 1

(* Once a service thread has ended in failure the system does not pass for *)
(* Running, and the component's record says Failed.                        *)
ServiceFailureVisible ==
    \A s \in Services : thread[s] = "Exited" /\ runStatus[s] # "Ok" =>
        sys \notin {"Starting", "Running"} /\ failed[s]

(* A boot report that says its rollback completed leaves nothing behind.   *)
RollbackCompletedMeansClean ==
    bootReport.final = "Failed" /\ bootReport.completed => ~HasResources

(* What a change of the system state may be.                               *)
AlongLifecycle ==
    /\ sys' = "Running" /\ sys # "Running" => sys = "Starting"
    /\ sys = "Stopped" => sys' = "Stopped"
    /\ sys' = "Dormant" => sys = "Dormant"
    /\ sys = "Failed" => sys' \in {"Failed", "Stopping"}

(* The system state only moves along the lifecycle: Running is entered     *)
(* from Starting, Stopped is final, and nothing returns to Dormant.        *)
SystemStateProgress == [][AlongLifecycle]_sys

(* Every boot() and stop() returns, unless the thread that was aborted     *)
(* held the lock of the records (Thread::abort does not release it).       *)
OperationsReturn ==
    \A t \in Callers : pc[t] # "Idle" ~>
        \/ pc[t] = "Idle"
        \/ lockHolder # NoService /\ thread[lockHolder] = "Aborted"

(* Whatever can still run finds what it depends on usable: services, and   *)
(* work on an executor's queue.                                            *)
DependenciesUsable == RunningServiceKeepsDependencies /\ ExecutorWorkKeepsDependencies

(* Hooks are called in the order of the graph, each of them once.          *)
HooksSound == HookOrder /\ HooksCalledOnce

(* The reports tell the truth about failures: a service that failed is     *)
(* visible, and a rollback that completed left nothing behind.             *)
FailuresVisible == ServiceFailureVisible /\ RollbackCompletedMeansClean

(* An operation takes the system along its lifecycle, and ends.            *)
OperationsSound == SystemStateProgress /\ OperationsReturn

(* A stopped system holds no resources: every component that was           *)
(* initialized was deinitialized.                                          *)
StoppedMeansTornDown == sys = "Stopped" => ~HasResources

(* Work on the system workqueue finds its dependencies alive too.          *)
SystemWorkKeepsDependencies ==
    \A r \in Registrations : work[r] /\ Target[r] = SystemWorkQueue =>
        \A c \in Closure(RegDeps[r]) : Usable(c)
----------------------------------------------------------------------------
(***************************************************************************)
(* The inductive invariant behind the theorems of LifecycleProofs.  Its    *)
(* parts are stated of a caller at place p of its operation, loop index i. *)
(***************************************************************************)
ContainPcs == {"Contain", "Abort", "Forced", "Drain", "QueueStop"}
TeardownPcs == {"Stop", "StopHook", "Deinit", "DeinitHook"}
LiveThread == {"Scheduled", "Running", "Failing", "Reporting", "Reported"}

(* Loop indices stay in their loops.                                       *)
PlaceOK(p, i) ==
    /\ p \in Pcs /\ i \in Nat
    /\ p \in {"Init", "Start", "Activate"} => i \in 1..(N + 1)
    /\ p \in {"InitHook", "StartHook", "StopHook", "DeinitHook"} => i \in Components
    /\ p = "Prepare" => i \in Participants
    /\ p \in {"Abort", "Forced"} => i \in Services
    /\ p \in {"Drain", "QueueStop"} => i \in Executors
    /\ p \in {"Request", "Contain", "Stop", "Deinit"} => i \in 0..N
    /\ p = "SysContain" => i \in 1..(R + 1)

(* How far boot() has come: component c against the loop index.            *)
Untouched(c) == calls[c]["stop"] = 0 /\ calls[c]["deinit"] = 0

BootAt(p, i) ==
    \A c \in Components :
        /\ p \in {"Init", "InitHook"} =>
              /\ Untouched(c) /\ ~prepared[c] /\ calls[c]["start"] = 0
              /\ c < i => inited[c]
              /\ c > i \/ (c = i /\ p = "Init") => calls[c]["init"] = 0
        /\ p \in {"Start", "StartHook", "Prepare"} =>
              /\ Untouched(c) /\ inited[c]
              /\ c < i => started[c]
              /\ c > i \/ (c = i /\ p = "Start") => calls[c]["start"] = 0
        /\ p \in {"SysPrepare", "Validate", "SysValidate", "Commit", "Run", "SysActivate",
                  "Activate"} => Usable(c)

(* Containment has passed the components above i: an execution it could    *)
(* not end has what it reaches preserved.                                  *)
ContainAt(p, i) ==
    /\ p \in ContainPcs \cup TeardownPcs =>
          \A s \in Components : (p \in TeardownPcs \/ s > i) /\ prepared[s] =>
              \A c \in Closure({s}) : blocked[c]
    /\ p = "Forced" => thread[i] \notin LiveThread

(* Teardown has passed the components above i.                             *)
TeardownAt(p, i) ==
    /\ p \in {"StopHook", "DeinitHook"} => ~blocked[i]
    /\ p \in {"Stop", "StopHook"} =>
          \A c \in Components : c > i => ~started[c] \/ blocked[c]
    /\ p \in {"Deinit", "DeinitHook"} =>
          \A c \in Components : c > i => ~inited[c] \/ blocked[c]

PlacesOK == \A t \in Callers : PlaceOK(pc[t], idx[t])
BootProgress == \A t \in Callers : BootAt(pc[t], idx[t])
ContainProgress == \A t \in Callers : ContainAt(pc[t], idx[t])
TeardownProgress == \A t \in Callers : TeardownAt(pc[t], idx[t])

(* One caller at a time is past the operation guard.                       *)
OneOperation ==
    /\ \A t \in Callers : pc[t] # "Idle" => active
    /\ \A t, u \in Callers : pc[t] # "Idle" /\ pc[u] # "Idle" => t = u

Dormancy ==
    sys = "Dormant" =>
        /\ \A t \in Callers : pc[t] = "Idle"
        /\ \A c \in Components : ~prepared[c] /\ \A h \in Hooks : calls[c][h] = 0

(* What is preserved is preserved with its dependencies.                   *)
BlockedClosed == \A c \in Components : blocked[c] => \A d \in Deps[c] : blocked[d]

(* A live thread is prepared, and what it can reach is usable.             *)
LiveReach ==
    \A s \in Services : thread[s] \in LiveThread =>
        prepared[s] /\ \A c \in Closure({s}) : Usable(c)

(* A stage whose cleanup hook was called is over once the hook returned.   *)
StageOver ==
    \A c \in Components :
        /\ started[c] /\ calls[c]["stop"] # 0 =>
              \E t \in Callers : pc[t] = "StopHook" /\ idx[t] = c
        /\ inited[c] /\ calls[c]["deinit"] # 0 =>
              \E t \in Callers : pc[t] = "DeinitHook" /\ idx[t] = c

(* Everything above, and no hook called twice.                             *)
IInv ==
    /\ TypeOK /\ PlacesOK /\ OneOperation /\ Dormancy /\ BlockedClosed
    /\ BootProgress /\ ContainProgress /\ TeardownProgress
    /\ LiveReach /\ StageOver /\ HooksCalledOnce

(***************************************************************************)
(* What else the theorems of LifecycleOutcomeProofs need, relative to      *)
(* IInv: the phase the system state stands for, the closed barrier, the    *)
(* reach of executors, and what a rollback leaves.                         *)
(***************************************************************************)
BootStates == {"Dormant", "Initializing", "Starting", "RollingBack"}
ActivationPcs == {"SysActivate", "Activate"}

(* The system state and the boot report a caller's place allows.           *)
PhaseAt(p) ==
    /\ p \in {"Init", "InitHook"} => sys = "Initializing"
    /\ p \in BootPcs \ (ActivationPcs \cup {"Init", "InitHook"}) => sys = "Starting"
    /\ p \in ActivationPcs => sys \in {"Running", "Failed"} /\ bootReport.final = "Running"
    /\ p \in CleanupPcs => \/ op = "boot" /\ sys = "RollingBack"
                           \/ op = "stop" /\ sys \in {"Stopping", "Deinitializing"}

Phase ==
    /\ bootReport.final = "None" <=> sys \in BootStates
    /\ bootReport.final = "None" => op = "boot"
    /\ \A t \in Callers : PhaseAt(pc[t])

(* Nothing runs and nothing is admitted before the commit to Running, by   *)
(* which every start() was called.                                         *)
Quiet ==
    /\ \A s \in Services : thread[s] \in {"Empty", "Prepared"}
    /\ \A r \in Registrations : ~accepting[r] /\ ~submitter[r] /\ ~work[r]

Barrier ==
    /\ bootReport.final = "Running" \/ Quiet
    /\ bootReport.final = "Running" => \A c \in Components : calls[c]["start"] = 1
    /\ \A c \in Components : started[c] => calls[c]["start"] = 1
    /\ \A t \in Callers : pc[t] \in {"StartHook", "Prepare"} => calls[idx[t]]["start"] = 1
    /\ \A s \in Services : prepared[s] => thread[s] # "Empty"
    /\ \A t \in Callers : pc[t] = "Abort" => thread[idx[t]] \notin {"Empty", "Prepared"}

(* A failed service's report reached its record before the system state.   *)
Reported ==
    /\ \A s \in Services : thread[s] = "Reported" => failed[s]
    /\ ServiceFailureVisible

(* A queue that can run work belongs to a prepared executor, ...           *)
OpenQueue == {"Started", "Plugged"}

QueueLive ==
    /\ \A e \in Executors : queue[e] \in OpenQueue => prepared[e]
    /\ \A t \in Callers : pc[t] \in {"Drain", "QueueStop"} => prepared[idx[t]]
    /\ \A r \in Registrations : work[r] /\ Target[r] # SystemWorkQueue =>
           queue[Target[r]] \in OpenQueue

(* ... whose reach is preserved once containment has passed it, ...        *)
QueueAt(p, i) ==
    p \in ContainPcs \cup TeardownPcs =>
        \A e \in Executors : (p \in TeardownPcs \/ e > i) /\ prepared[e] =>
            \A c \in Closure(QueueReach(e)) : blocked[c]

(* ... and usable from the commit on.                                      *)
QueueUsable ==
    bootReport.final = "Running" =>
        /\ \A e \in Executors : prepared[e] => \A c \in Closure(QueueReach(e)) : Usable(c)
        /\ \A t \in Callers : QueueAt(pc[t], idx[t])

(* As long as a rollback reports nothing left, it preserved nothing.       *)
CleanRollback ==
    /\ bootReport.final = "None" /\ (sys = "Dormant" \/ ~left) =>
           \A c \in Components : ~blocked[c]
    /\ \A t \in Callers : pc[t] \in {"Deinit", "DeinitHook"} =>
           \A c \in Components : ~started[c] \/ blocked[c]
    /\ RollbackCompletedMeansClean

OutcomeInv == Phase /\ Barrier /\ Reported /\ QueueLive /\ QueueUsable /\ CleanRollback
============================================================================
