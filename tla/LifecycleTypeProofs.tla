------------------------ MODULE LifecycleTypeProofs ------------------------
(***************************************************************************)
(* Proofs about the lifecycle engine for every component graph, every      *)
(* assignment of services, executors and registrations, and any callers.   *)
(***************************************************************************)
EXTENDS Lifecycle, TLAPS

(***************************************************************************)
(* Types.                                                                  *)
(***************************************************************************)
LEMMA Sizes == N \in Nat /\ R \in Nat
BY Zenon, GraphAssumption, ExecutionAssumption

(* Executions belong to components.                                        *)
LEMMA OwnersAreComponents == Services \subseteq Components /\ Executors \subseteq Components
BY Zenon, ExecutionAssumption

(* A caller that goes to a place with an index of its loop is well typed.  *)
LEMMA GotoType ==
    ASSUME TypeOK, PlacesOK, NEW t \in Callers, NEW p, NEW i, PlaceOK(p, i), Goto(t, p, i)
    PROVE  pc' \in [Callers -> Pcs] /\ idx' \in [Callers -> Nat] /\ PlacesOK'
<1>1. PlaceOK(p, i)' BY Zenon DEF PlaceOK
<1> QED BY Zenon, <1>1 DEF TypeOK, EngineTypeOK, Goto, PlacesOK, PlaceOK

(* Every step of a caller goes to a place with an index of its loop: the   *)
(* loops that count down check More(c) first.                              *)
LEMMA BootGoes ==
    ASSUME TypeOK, PlacesOK, NEW t \in Callers, Boot(t) \/ BootStep(t)
    PROVE  \E p, i : Goto(t, p, i) /\ PlaceOK(p, i)
<1> DEFINE c == idx[t]
<1>1. PlaceOK(pc[t], c) BY Zenon DEF PlacesOK
<1> USE Sizes, OwnersAreComponents DEF Pcs, BootPcs, CleanupPcs, Participants, Components
<1>2. /\ PlaceOK("Init", 1) /\ PlaceOK("Start", 1) /\ PlaceOK("SysPrepare", 0)
      /\ PlaceOK("Validate", 0) /\ PlaceOK("SysValidate", 0) /\ PlaceOK("Commit", 0) /\ PlaceOK("Run", 0)
      /\ PlaceOK("SysActivate", 0) /\ PlaceOK("Activate", 1) /\ PlaceOK("Idle", 0)
      /\ PlaceOK("SysRequest", 0) /\ PlaceOK("Deinit", N)
    BY DEF PlaceOK
<1>3. pc[t] = "Init" /\ c <= N => PlaceOK("InitHook", c)
    BY <1>1 DEF PlaceOK
<1>4. pc[t] = "Start" /\ c <= N => PlaceOK("StartHook", c)
    BY <1>1 DEF PlaceOK
<1>5. pc[t] = "InitHook" => PlaceOK("Init", c + 1)
    BY <1>1 DEF PlaceOK
<1>6. pc[t] = "StartHook" => PlaceOK("Start", c + 1) /\ (c \in Participants => PlaceOK("Prepare", c))
    BY <1>1 DEF PlaceOK
<1>7. pc[t] = "Prepare" => PlaceOK("Start", c + 1)
    BY <1>1 DEF PlaceOK
<1>8. pc[t] = "Activate" /\ c <= N => PlaceOK("Activate", c + 1)
    BY <1>1 DEF PlaceOK
<1> HIDE DEF c
<1> QED BY Zenon, <1>2, <1>3, <1>4, <1>5, <1>6, <1>7, <1>8 DEF Boot, BootStep, InitBegin, InitSucceeds, InitFails, InitDone, StartBegin,
        StartSucceeds, StartFails, PrepareSucceeds, PrepareFails, StartDone, GatePasses,
        GateFails, Validate, Run, SysActivate, Activate, ActivateDone, BeginRollback, c

(* The same for the steps of containment.                                  *)
LEMMA ContainGoes ==
    ASSUME TypeOK, PlacesOK, NEW t \in Callers, Stop(t) \/ ContainStep(t)
    PROVE  \E p, i : Goto(t, p, i) /\ PlaceOK(p, i)
<1> DEFINE c == idx[t]
<1>1. PlaceOK(pc[t], c) BY Zenon DEF PlacesOK
<1> USE Sizes, OwnersAreComponents DEF Pcs, BootPcs, CleanupPcs, Participants, Components
<1>2. /\ PlaceOK("SysRequest", 0) /\ PlaceOK("SysContain", 1) /\ PlaceOK("Request", N)
      /\ PlaceOK("Contain", N) /\ PlaceOK("Stop", N)
    BY DEF PlaceOK
<1>3. pc[t] = "SysContain" /\ c <= R => PlaceOK("SysContain", c + 1)
    BY <1>1 DEF PlaceOK
<1>4. /\ pc[t] = "Request" /\ More(c) => PlaceOK("Request", c - 1)
      /\ pc[t] = "Contain" /\ More(c) => PlaceOK("Contain", c - 1)
    BY <1>1 DEF PlaceOK, More
<1>5. c \in Services => PlaceOK("Contain", c - 1) /\ PlaceOK("Abort", c) /\ PlaceOK("Forced", c)
    BY <1>1 DEF PlaceOK
<1>6. c \in Executors => PlaceOK("Contain", c - 1) /\ PlaceOK("Drain", c) /\ PlaceOK("QueueStop", c)
    BY <1>1 DEF PlaceOK
<1>7. /\ pc[t] \in {"Abort", "Forced"} => c \in Services
      /\ pc[t] \in {"Drain", "QueueStop"} => c \in Executors
    BY Zenon, <1>1 DEF PlaceOK
<1> QED BY Zenon, <1>2, <1>3, <1>4, <1>5, <1>6, <1>7 DEF Stop, ContainStep, SysRequest, SysQuiescent, SysTimeout, SysContainDone,
        Request, RequestDone, ContainSkip, Join, JoinUnstarted, JoinTimeout, Abort, Forced,
        QueueQuiescent, QueueTimeout, Drain, QueueStopped, QueueStopTimeout, ContainDone,
        Contained, Uncontained, QueueTimesOut

(* The same for the steps of teardown.                                     *)
LEMMA CleanupGoes ==
    ASSUME TypeOK, PlacesOK, NEW t \in Callers, CleanupStep(t)
    PROVE  \E p, i : Goto(t, p, i) /\ PlaceOK(p, i)
<1> DEFINE c == idx[t]
<1>1. PlaceOK(pc[t], c) BY Zenon DEF PlacesOK
<1> USE Sizes, OwnersAreComponents DEF Pcs, BootPcs, CleanupPcs, Participants, Components
<1>2. PlaceOK("Idle", 0) /\ PlaceOK("Deinit", N)
    BY DEF PlaceOK
<1>3. /\ pc[t] = "Stop" /\ More(c) => PlaceOK("StopHook", c) /\ PlaceOK("Stop", c - 1)
      /\ pc[t] = "StopHook" => PlaceOK("Stop", c - 1)
    BY <1>1 DEF PlaceOK, More
<1>4. /\ pc[t] = "Deinit" /\ More(c) => PlaceOK("DeinitHook", c) /\ PlaceOK("Deinit", c - 1)
      /\ pc[t] = "DeinitHook" => PlaceOK("Deinit", c - 1)
    BY <1>1 DEF PlaceOK, More
<1> QED BY Zenon, <1>2, <1>3, <1>4 DEF CleanupStep, StopBegin, StopReturns, StopDone, DeinitBegin, DeinitReturns,
        RollbackDone, StopFinished, FinalState, Cleaned

(* The rest of the engine's variables.                                     *)
LEMMA ReportType ==
    ASSUME TypeOK, NEW t \in Callers, Boot(t) \/ Stop(t) \/ EngineStep(t)
    PROVE  /\ sys' \in SystemStates /\ active' \in BOOLEAN
           /\ op' \in {"boot", "stop"} /\ dirty' \in BOOLEAN
           /\ left' \in BOOLEAN /\ sysLeft' \in BOOLEAN
           /\ bootReport' \in BootReports /\ stopReport' \in StopReports
<1>1. /\ sys \in SystemStates /\ active \in BOOLEAN
      /\ op \in {"boot", "stop"} /\ dirty \in BOOLEAN
      /\ left \in BOOLEAN /\ sysLeft \in BOOLEAN
      /\ bootReport \in BootReports /\ stopReport \in StopReports
    BY Zenon DEF TypeOK, EngineTypeOK
<1>5. /\ [final |-> "Running", completed |-> FALSE] \in BootReports
      /\ [final |-> "Failed", completed |-> ~left] \in BootReports
    BY Zenon, <1>1 DEF BootReports
<1> USE DEF rep, NewReport
<1>2. CASE Boot(t) \/ BootStep(t)
    BY Zenon, <1>1, <1>2, <1>5 DEF Boot, BootStep, InitBegin, InitSucceeds, InitFails, InitDone, StartBegin,
        StartSucceeds, StartFails, PrepareSucceeds, PrepareFails, StartDone, GatePasses,
        GateFails, Validate, Run, SysActivate, Activate, ActivateDone, BeginRollback,
        SystemStates
<1>3. CASE Stop(t) \/ ContainStep(t)
    BY Zenon, <1>1, <1>3 DEF Stop, ContainStep, SysRequest, SysQuiescent, SysTimeout, SysContainDone,
        Request, RequestDone, ContainSkip, Join, JoinUnstarted, JoinTimeout, Abort, Forced,
        QueueQuiescent, QueueTimeout, Drain, QueueStopped, QueueStopTimeout, ContainDone,
        Contained, Uncontained, QueueTimesOut,
        SystemStates
<1>6. FinalState \in SystemStates /\ FinalState \in StopReports
    BY Zenon DEF FinalState, SystemStates, StopReports
<1>4. CASE CleanupStep(t)
  <2>1. CASE RollbackDone(t) \/ StopFinished(t)
    BY Zenon, <1>1, <1>5, <1>6, <2>1 DEF RollbackDone, StopFinished, SystemStates
  <2>2. CASE StopBegin(t) \/ StopDone(t) \/ DeinitBegin(t)
    BY Zenon, <1>1, <2>2 DEF StopBegin, StopDone, DeinitBegin, SystemStates
  <2>3. CASE StopReturns(t) \/ DeinitReturns(t)
    BY Zenon, <1>1, <2>3 DEF StopReturns, DeinitReturns, Cleaned
  <2> QED BY Zenon, <1>4, <2>1, <2>2, <2>3 DEF CleanupStep
<1> QED BY Zenon, <1>2, <1>3, <1>4 DEF EngineStep

(* The variables of the engine keep their types.                           *)
LEMMA EngineType ==
    ASSUME TypeOK, PlacesOK, NEW t \in Callers, Boot(t) \/ Stop(t) \/ EngineStep(t)
    PROVE  EngineTypeOK' /\ PlacesOK'
<1>1. \E p, i : Goto(t, p, i) /\ PlaceOK(p, i)
    BY Zenon, BootGoes, ContainGoes, CleanupGoes DEF EngineStep
<1>2. pc' \in [Callers -> Pcs] /\ idx' \in [Callers -> Nat] /\ PlacesOK'
    BY Zenon, <1>1, GotoType
<1> QED BY Zenon, <1>2, ReportType DEF EngineTypeOK

(* The component records.                                                  *)
LEMMA CalledType ==
    ASSUME calls \in [Components -> [Hooks -> Nat]], NEW c, NEW h \in Hooks, Called(c, h)
    PROVE  calls' \in [Components -> [Hooks -> Nat]]
<1>1. CASE c \in Components
  <2>1. [calls[c] EXCEPT ![h] = @ + 1] \in [Hooks -> Nat] BY <1>1
  <2> QED BY Zenon, <1>1, <2>1 DEF Called
<1>2. CASE c \notin Components BY Zenon, <1>2 DEF Called
<1> QED BY Zenon, <1>1, <1>2

(* The component records keep their types.                                 *)
LEMMA RecordType ==
    ASSUME TypeOK, NEW t \in Callers, Boot(t) \/ Stop(t) \/ EngineStep(t)
    PROVE  RecordTypeOK'
<1>1. RecordTypeOK BY Zenon DEF TypeOK
<1>2. state' \in [Components -> ComponentStates]
  <2>1. CASE Boot(t) \/ BootStep(t)
    BY Zenon, <1>1, <2>1 DEF Boot, BootStep, InitBegin, InitSucceeds, InitFails, InitDone, StartBegin,
        StartSucceeds, StartFails, PrepareSucceeds, PrepareFails, StartDone, GatePasses,
        GateFails, Validate, Run, SysActivate, Activate, ActivateDone, BeginRollback, RecordTypeOK, recordVars, RecordFailure, ComponentStates
  <2>2. CASE Stop(t) \/ ContainStep(t)
    BY Zenon, <1>1, <2>2 DEF Stop, ContainStep, SysRequest, SysQuiescent, SysTimeout, SysContainDone,
        Request, RequestDone, ContainSkip, Join, JoinUnstarted, JoinTimeout, Abort, Forced,
        QueueQuiescent, QueueTimeout, Drain, QueueStopped, QueueStopTimeout, ContainDone,
        Contained, Uncontained, QueueTimesOut, RecordTypeOK, recordVars, RecordFailure, ComponentStates
  <2>3. CASE CleanupStep(t)
    BY Zenon, <1>1, <2>3 DEF CleanupStep, StopBegin, StopReturns, StopDone, DeinitBegin, DeinitReturns,
        RollbackDone, StopFinished, FinalState, Cleaned, RecordTypeOK, recordVars, RecordFailure, ComponentStates
  <2> QED BY Zenon, <2>1, <2>2, <2>3 DEF EngineStep
<1>3. /\ inited' \in [Components -> BOOLEAN] /\ started' \in [Components -> BOOLEAN]
      /\ prepared' \in [Components -> BOOLEAN]
  <2>1. CASE Boot(t) \/ BootStep(t)
    BY Zenon, <1>1, <2>1 DEF Boot, BootStep, InitBegin, InitSucceeds, InitFails, InitDone, StartBegin,
        StartSucceeds, StartFails, PrepareSucceeds, PrepareFails, StartDone, GatePasses,
        GateFails, Validate, Run, SysActivate, Activate, ActivateDone, BeginRollback, RecordTypeOK, recordVars
  <2>2. CASE Stop(t) \/ ContainStep(t)
    BY Zenon, <1>1, <2>2 DEF Stop, ContainStep, SysRequest, SysQuiescent, SysTimeout, SysContainDone,
        Request, RequestDone, ContainSkip, Join, JoinUnstarted, JoinTimeout, Abort, Forced,
        QueueQuiescent, QueueTimeout, Drain, QueueStopped, QueueStopTimeout, ContainDone,
        Contained, Uncontained, QueueTimesOut, RecordTypeOK, recordVars
  <2>3. CASE CleanupStep(t)
    BY Zenon, <1>1, <2>3 DEF CleanupStep, StopBegin, StopReturns, StopDone, DeinitBegin, DeinitReturns,
        RollbackDone, StopFinished, FinalState, Cleaned, RecordTypeOK, recordVars, StageAfterCleanup
  <2> QED BY Zenon, <2>1, <2>2, <2>3 DEF EngineStep
<1>4. blocked' \in [Components -> BOOLEAN]
  <2>1. ASSUME NEW S, Preserve(S) PROVE blocked' \in [Components -> BOOLEAN]
    BY Zenon, <1>1, <2>1 DEF Preserve, RecordTypeOK
  <2>2. blocked' = blocked \/ \E S : Preserve(S)
    BY Zenon DEF EngineStep, Boot, BootStep, InitBegin, InitSucceeds, InitFails, InitDone, StartBegin,
        StartSucceeds, StartFails, PrepareSucceeds, PrepareFails, StartDone, GatePasses,
        GateFails, Validate, Run, SysActivate, Activate, ActivateDone, BeginRollback,
        Stop, ContainStep, SysRequest, SysQuiescent, SysTimeout, SysContainDone,
        Request, RequestDone, ContainSkip, Join, JoinUnstarted, JoinTimeout, Abort, Forced,
        QueueQuiescent, QueueTimeout, Drain, QueueStopped, QueueStopTimeout, ContainDone,
        Contained, Uncontained, QueueTimesOut,
        CleanupStep, StopBegin, StopReturns, StopDone, DeinitBegin, DeinitReturns,
        RollbackDone, StopFinished, FinalState, Cleaned, recordVars
  <2> QED BY Zenon, <1>1, <2>1, <2>2 DEF RecordTypeOK
<1>5. failed' \in [Components -> BOOLEAN]
  <2>1. CASE Boot(t) \/ BootStep(t)
    BY Zenon, <1>1, <2>1 DEF Boot, BootStep, InitBegin, InitSucceeds, InitFails, InitDone, StartBegin,
        StartSucceeds, StartFails, PrepareSucceeds, PrepareFails, StartDone, GatePasses,
        GateFails, Validate, Run, SysActivate, Activate, ActivateDone, BeginRollback, RecordTypeOK, recordVars, RecordFailure
  <2>2. CASE Stop(t) \/ ContainStep(t)
    BY Zenon, <1>1, <2>2 DEF Stop, ContainStep, SysRequest, SysQuiescent, SysTimeout, SysContainDone,
        Request, RequestDone, ContainSkip, Join, JoinUnstarted, JoinTimeout, Abort, Forced,
        QueueQuiescent, QueueTimeout, Drain, QueueStopped, QueueStopTimeout, ContainDone,
        Contained, Uncontained, QueueTimesOut, RecordTypeOK, recordVars, RecordFailure
  <2>3. CASE CleanupStep(t)
    BY Zenon, <1>1, <2>3 DEF CleanupStep, StopBegin, StopReturns, StopDone, DeinitBegin, DeinitReturns,
        RollbackDone, StopFinished, FinalState, Cleaned, RecordTypeOK, recordVars
  <2> QED BY Zenon, <2>1, <2>2, <2>3 DEF EngineStep
<1>6. calls' \in [Components -> [Hooks -> Nat]]
  <2>1. calls' = calls \/ \E c : \E h \in Hooks : Called(c, h)
    BY Zenon DEF EngineStep, Boot, BootStep, InitBegin, InitSucceeds, InitFails, InitDone, StartBegin,
        StartSucceeds, StartFails, PrepareSucceeds, PrepareFails, StartDone, GatePasses,
        GateFails, Validate, Run, SysActivate, Activate, ActivateDone, BeginRollback,
        Stop, ContainStep, SysRequest, SysQuiescent, SysTimeout, SysContainDone,
        Request, RequestDone, ContainSkip, Join, JoinUnstarted, JoinTimeout, Abort, Forced,
        QueueQuiescent, QueueTimeout, Drain, QueueStopped, QueueStopTimeout, ContainDone,
        Contained, Uncontained, QueueTimesOut,
        CleanupStep, StopBegin, StopReturns, StopDone, DeinitBegin, DeinitReturns,
        RollbackDone, StopFinished, FinalState, Cleaned, recordVars, Hooks
  <2> QED BY Zenon, <1>1, <2>1, CalledType DEF RecordTypeOK
<1> QED BY Zenon, <1>2, <1>3, <1>4, <1>5, <1>6 DEF RecordTypeOK

(* The execution.                                                          *)
LEMMA ExecutionType ==
    ASSUME TypeOK, NEW t \in Callers, Boot(t) \/ Stop(t) \/ EngineStep(t)
    PROVE  ExecutionTypeOK'
<1>1. ExecutionTypeOK BY Zenon DEF TypeOK
<1>2. CASE Boot(t) \/ BootStep(t)
  <2>1. thread' \in [Services -> ThreadStates]
    <3>1. CASE PrepareSucceeds(t)
        BY Zenon, <1>1, <3>1 DEF PrepareSucceeds, ExecutionTypeOK, ThreadStates, PreparedThread
    <3>2. CASE Activate(t)
        BY Zenon, <1>1, <3>2 DEF Activate, ExecutionTypeOK, ThreadStates
    <3>3. PrepareSucceeds(t) \/ Activate(t) \/ UNCHANGED thread
        BY Zenon, <1>2 DEF Boot, BootStep, InitBegin, InitSucceeds, InitFails, InitDone,
            StartBegin, StartSucceeds, StartFails, PrepareFails, StartDone, GatePasses,
            GateFails, Validate, Run, SysActivate, ActivateDone, serviceVars
    <3> QED BY Zenon, <1>1, <3>1, <3>2, <3>3 DEF ExecutionTypeOK
  <2>2. queue' \in [Executors -> QueueStates]
    BY Zenon, <1>1, <1>2 DEF Boot, BootStep, InitBegin, InitSucceeds, InitFails, InitDone, StartBegin,
        StartSucceeds, StartFails, PrepareSucceeds, PrepareFails, StartDone, GatePasses,
        GateFails, Validate, Run, SysActivate, Activate, ActivateDone, BeginRollback, ExecutionTypeOK, workVars, QueueStates
  <2>3. accepting' \in [Registrations -> BOOLEAN]
    BY Zenon, <1>1, <1>2 DEF Boot, BootStep, InitBegin, InitSucceeds, InitFails, InitDone, StartBegin,
        StartSucceeds, StartFails, PrepareSucceeds, PrepareFails, StartDone, GatePasses,
        GateFails, Validate, Run, SysActivate, Activate, ActivateDone, BeginRollback, ExecutionTypeOK, workVars
  <2>4. UNCHANGED <<stopReq, runStatus, lockHolder, submitter, work, regLeft>>
    BY Zenon, <1>2 DEF Boot, BootStep, InitBegin, InitSucceeds, InitFails, InitDone, StartBegin,
        StartSucceeds, StartFails, PrepareSucceeds, PrepareFails, StartDone, GatePasses,
        GateFails, Validate, Run, SysActivate, Activate, ActivateDone, BeginRollback, serviceVars, workVars
  <2> QED BY Zenon, <1>1, <2>1, <2>2, <2>3, <2>4 DEF ExecutionTypeOK
<1>3. CASE Stop(t) \/ ContainStep(t)
  <2>1. thread' \in [Services -> ThreadStates] /\ stopReq' \in [Services -> BOOLEAN]
    BY Zenon, <1>1, <1>3 DEF Stop, ContainStep, SysRequest, SysQuiescent, SysTimeout, SysContainDone,
        Request, RequestDone, ContainSkip, Join, JoinUnstarted, JoinTimeout, Abort, Forced,
        QueueQuiescent, QueueTimeout, Drain, QueueStopped, QueueStopTimeout, ContainDone,
        Contained, Uncontained, QueueTimesOut, ExecutionTypeOK, serviceVars, ThreadStates
  <2>2. UNCHANGED <<runStatus, lockHolder, submitter>>
    BY Zenon, <1>3 DEF Stop, ContainStep, SysRequest, SysQuiescent, SysTimeout, SysContainDone,
        Request, RequestDone, ContainSkip, Join, JoinUnstarted, JoinTimeout, Abort, Forced,
        QueueQuiescent, QueueTimeout, Drain, QueueStopped, QueueStopTimeout, ContainDone,
        Contained, Uncontained, QueueTimesOut, serviceVars, workVars
  <2>3. queue' \in [Executors -> QueueStates] /\ work' \in [Registrations -> BOOLEAN]
    BY Zenon, <1>1, <1>3 DEF Stop, ContainStep, SysRequest, SysQuiescent, SysTimeout, SysContainDone,
        Request, RequestDone, ContainSkip, Join, JoinUnstarted, JoinTimeout, Abort, Forced,
        QueueQuiescent, QueueTimeout, Drain, QueueStopped, QueueStopTimeout, ContainDone,
        Contained, Uncontained, QueueTimesOut, ExecutionTypeOK, workVars, QueueStates
  <2>4. accepting' \in [Registrations -> BOOLEAN] /\ regLeft' \in [Registrations -> BOOLEAN]
    BY Zenon, <1>1, <1>3 DEF Stop, ContainStep, SysRequest, SysQuiescent, SysTimeout, SysContainDone,
        Request, RequestDone, ContainSkip, Join, JoinUnstarted, JoinTimeout, Abort, Forced,
        QueueQuiescent, QueueTimeout, Drain, QueueStopped, QueueStopTimeout, ContainDone,
        Contained, Uncontained, QueueTimesOut, ExecutionTypeOK, workVars
  <2> QED BY Zenon, <1>1, <2>1, <2>2, <2>3, <2>4 DEF ExecutionTypeOK
<1>4. CASE CleanupStep(t)
    BY Zenon, <1>1, <1>4 DEF CleanupStep, StopBegin, StopReturns, StopDone, DeinitBegin, DeinitReturns,
        RollbackDone, StopFinished, FinalState, Cleaned, ExecutionTypeOK, serviceVars, workVars
<1> QED BY Zenon, <1>2, <1>3, <1>4 DEF EngineStep

(* The steps of service threads and of clients.                            *)
LEMMA ServiceType ==
    ASSUME TypeOK, NEW s \in Services, ServiceStep(s)
    PROVE  TypeOK'
<1>1. sys' \in SystemStates
    BY Zenon DEF ServiceStep, ReportStep, ThreadRun, RunReturns, ReportLock, ReportRecord,
        ReportSystem, TypeOK, EngineTypeOK, SystemStates
<1>2. state' \in [Components -> ComponentStates] /\ failed' \in [Components -> BOOLEAN]
    BY Zenon DEF ServiceStep, ReportStep, ThreadRun, RunReturns, ReportLock, ReportRecord,
        ReportSystem, TypeOK, RecordTypeOK, recordVars, RecordFailure, ComponentStates
<1>3. thread' \in [Services -> ThreadStates]
    BY Zenon DEF ServiceStep, ReportStep, ThreadRun, RunReturns, ReportLock, ReportRecord,
        ReportSystem, TypeOK, ExecutionTypeOK, ThreadStates
<1>4. runStatus' \in [Services -> {"NotReady", "Ok", "Error", "UnexpectedExit"}]
    BY Zenon DEF ServiceStep, ReportStep, ThreadRun, RunReturns, ReportLock, ReportRecord,
        ReportSystem, TypeOK, ExecutionTypeOK, ExitStatus
<1>5. lockHolder' \in Services \cup {NoService}
    BY Zenon DEF ServiceStep, ReportStep, ThreadRun, RunReturns, ReportLock, ReportRecord,
        ReportSystem, TypeOK, ExecutionTypeOK
<1>6. UNCHANGED <<engineVars, inited, started, prepared, blocked, calls, stopReq, workVars>>
    BY Zenon DEF ServiceStep, ReportStep, ThreadRun, RunReturns, ReportLock, ReportRecord,
        ReportSystem, recordVars
<1>7. EngineTypeOK' BY Zenon, <1>1, <1>6 DEF TypeOK, EngineTypeOK, engineVars, rep
<1>8. RecordTypeOK' BY Zenon, <1>2, <1>6 DEF TypeOK, RecordTypeOK
<1>9. ExecutionTypeOK' BY Zenon, <1>3, <1>4, <1>5, <1>6 DEF TypeOK, ExecutionTypeOK, workVars
<1> QED BY Zenon, <1>7, <1>8, <1>9 DEF TypeOK

(* A step of a client keeps the types.                                     *)
LEMMA WorkType ==
    ASSUME TypeOK, NEW r \in Registrations, WorkStep(r)
    PROVE  TypeOK'
<1>1. submitter' \in [Registrations -> BOOLEAN] /\ work' \in [Registrations -> BOOLEAN]
    BY Zenon DEF WorkStep, SubmitCheck, SubmitNative, WorkDone, TypeOK, ExecutionTypeOK, QueueTakes
<1>2. UNCHANGED <<sys, engineVars, recordVars, serviceVars, queue, accepting, regLeft>>
    BY Zenon DEF WorkStep, SubmitCheck, SubmitNative, WorkDone
<1> QED BY Zenon, <1>1, <1>2 DEF TypeOK, EngineTypeOK, RecordTypeOK, ExecutionTypeOK, engineVars,
        rep, recordVars, serviceVars

(* Every step keeps the types.                                             *)
LEMMA TypeStep ==
    ASSUME TypeOK, PlacesOK, [Next]_vars
    PROVE  TypeOK' /\ PlacesOK'
<1>1. ASSUME NEW t \in Callers, Boot(t) \/ Stop(t) \/ EngineStep(t)
      PROVE  TypeOK' /\ PlacesOK'
    BY Zenon, <1>1, EngineType, RecordType, ExecutionType DEF TypeOK
<1>2. ASSUME UNCHANGED <<pc, idx>>
      PROVE  PlacesOK'
    BY Zenon, <1>2 DEF PlacesOK, PlaceOK
<1>3. ASSUME NEW s \in Services, ServiceStep(s)
      PROVE  TypeOK' /\ PlacesOK'
  <2>1. UNCHANGED <<pc, idx>>
    BY Zenon, <1>3 DEF ServiceStep, ReportStep, ThreadRun, RunReturns, ReportLock, ReportRecord,
        ReportSystem, engineVars
  <2> QED BY Zenon, <1>2, <1>3, <2>1, ServiceType
<1>4. ASSUME NEW r \in Registrations, WorkStep(r)
      PROVE  TypeOK' /\ PlacesOK'
  <2>1. UNCHANGED <<pc, idx>>
    BY Zenon, <1>4 DEF WorkStep, SubmitCheck, SubmitNative, WorkDone, engineVars
  <2> QED BY Zenon, <1>2, <1>4, <2>1, WorkType
<1>5. CASE UNCHANGED vars
  <2>1. TypeOK'
    BY Zenon, <1>5 DEF vars, engineVars, rep, recordVars, serviceVars, workVars, TypeOK,
        EngineTypeOK, RecordTypeOK, ExecutionTypeOK
  <2> QED BY Zenon, <1>2, <1>5, <2>1 DEF vars, engineVars
<1> QED BY Zenon, <1>1, <1>3, <1>4, <1>5 DEF Next

(* The initial state is well typed.                                        *)
LEMMA TypeInit ==
    ASSUME Init
    PROVE  TypeOK /\ PlacesOK
<1> USE DEF Init
<1>1. EngineTypeOK
    BY Zenon DEF EngineTypeOK, SystemStates, Pcs, BootReports, StopReports
<1>2. RecordTypeOK
    BY Zenon DEF RecordTypeOK, ComponentStates
<1>3. ExecutionTypeOK
    BY Zenon DEF ExecutionTypeOK, ThreadStates, QueueStates, AdmissionAtConstruction
<1>4. PlacesOK
    BY Zenon DEF PlacesOK, PlaceOK, Pcs
<1> QED BY Zenon, <1>1, <1>2, <1>3, <1>4 DEF TypeOK

(* Type correctness: every variable keeps its type, whatever the graph.    *)
THEOREM TypeCorrect == Spec => []TypeOK
<1>1. Init => TypeOK /\ PlacesOK BY Zenon, TypeInit
<1>2. TypeOK /\ PlacesOK /\ [Next]_vars => TypeOK' /\ PlacesOK' BY Zenon, TypeStep
<1> QED BY <1>1, <1>2, PTL DEF Spec
----------------------------------------------------------------------------
(***************************************************************************)
(* Dependency closures.                                                    *)
(***************************************************************************)
LEMMA ClosureContains ==
    ASSUME NEW S \in SUBSET Components
    PROVE  S \subseteq Closure(S)
BY Zenon DEF Closure

(* The closure holds the dependencies of its members.                      *)
LEMMA ClosureClosed ==
    ASSUME NEW S, NEW c \in Closure(S), NEW d \in Deps[c]
    PROVE  d \in Closure(S)
<1>1. c \in Components /\ d \in Components BY Zenon, GraphAssumption DEF Closure
<1>2. ASSUME NEW T \in SUBSET Components, S \subseteq T, DependencyClosed(T)
      PROVE  d \in T
    BY Zenon, <1>2 DEF Closure, DependencyClosed
<1> QED BY Zenon, <1>1, <1>2 DEF Closure

(* What is preserved stays closed under dependencies.                      *)
LEMMA PreserveClosed ==
    ASSUME RecordTypeOK, BlockedClosed, NEW S, Preserve(S)
    PROVE  BlockedClosed'
BY Zenon, ClosureClosed, GraphAssumption DEF BlockedClosed, Preserve, RecordTypeOK
----------------------------------------------------------------------------
(***************************************************************************)
(* Mutual exclusion.                                                       *)
(***************************************************************************)
LEMMA StepNotIdle ==
    ASSUME NEW t \in Callers, EngineStep(t)
    PROVE  pc[t] # "Idle"
BY Zenon DEF EngineStep, Boot, BootStep, InitBegin, InitSucceeds, InitFails, InitDone, StartBegin,
        StartSucceeds, StartFails, PrepareSucceeds, PrepareFails, StartDone, GatePasses,
        GateFails, Validate, Run, SysActivate, Activate, ActivateDone, BeginRollback,
        Stop, ContainStep, SysRequest, SysQuiescent, SysTimeout, SysContainDone,
        Request, RequestDone, ContainSkip, Join, JoinUnstarted, JoinTimeout, Abort, Forced,
        QueueQuiescent, QueueTimeout, Drain, QueueStopped, QueueStopTimeout, ContainDone,
        Contained, Uncontained, QueueTimesOut,
        CleanupStep, StopBegin, StopReturns, StopDone, DeinitBegin, DeinitReturns,
        RollbackDone, StopFinished, FinalState, Cleaned

(* The operation flag keeps a second caller out.                           *)
LEMMA GuardKept ==
    ASSUME NEW t \in Callers, EngineStep(t)
    PROVE  active' = active \/ Goto(t, "Idle", 0)
BY Zenon DEF EngineStep, Boot, BootStep, InitBegin, InitSucceeds, InitFails, InitDone, StartBegin,
        StartSucceeds, StartFails, PrepareSucceeds, PrepareFails, StartDone, GatePasses,
        GateFails, Validate, Run, SysActivate, Activate, ActivateDone, BeginRollback,
        Stop, ContainStep, SysRequest, SysQuiescent, SysTimeout, SysContainDone,
        Request, RequestDone, ContainSkip, Join, JoinUnstarted, JoinTimeout, Abort, Forced,
        QueueQuiescent, QueueTimeout, Drain, QueueStopped, QueueStopTimeout, ContainDone,
        Contained, Uncontained, QueueTimesOut,
        CleanupStep, StopBegin, StopReturns, StopDone, DeinitBegin, DeinitReturns,
        RollbackDone, StopFinished, FinalState, Cleaned

(* While one caller moves, the others are outside boot() and stop().       *)
LEMMA OthersIdle ==
    ASSUME TypeOK, PlacesOK, OneOperation, NEW t \in Callers,
           Boot(t) \/ Stop(t) \/ EngineStep(t)
    PROVE  /\ \A u \in Callers \ {t} : pc[u] = "Idle" /\ pc'[u] = "Idle"
           /\ OneOperation'
<1>1. \E p, i : Goto(t, p, i)
    BY Zenon, BootGoes, ContainGoes, CleanupGoes DEF EngineStep
<1>2. \A u \in Callers \ {t} : pc[u] = "Idle"
    BY Zenon, StepNotIdle DEF OneOperation, Boot, Stop, GuardFree
<1>3. \A u \in Callers \ {t} : pc'[u] = "Idle"
    BY Zenon, <1>1, <1>2 DEF Goto, TypeOK, EngineTypeOK
<1>4. pc'[t] # "Idle" => active'
    BY Zenon, StepNotIdle, GuardKept DEF OneOperation, Boot, Stop, Goto, TypeOK, EngineTypeOK
<1> QED BY Zenon, <1>2, <1>3, <1>4 DEF OneOperation
============================================================================
