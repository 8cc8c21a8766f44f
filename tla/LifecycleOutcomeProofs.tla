---------------------- MODULE LifecycleOutcomeProofs ----------------------
(***************************************************************************)
(* What the operations of the lifecycle engine leave behind, for every     *)
(* component graph and any callers: the activation barrier, the reach of   *)
(* work on executors, visible failures and rollbacks that clean up.        *)
(* OutcomeInv is inductive relative to IInv.                               *)
(***************************************************************************)
EXTENDS LifecycleProofs

StartPcs == BootPcs \ (ActivationPcs \cup {"Init", "InitHook"})

(* How a caller's step moves it between the phases of boot() and stop().   *)
Move(t) ==
    \/ /\ pc[t] \in {"Init", "InitHook"} /\ pc'[t] \in {"Init", "InitHook"}
       /\ UNCHANGED <<sys, op, bootReport>>
    \/ /\ pc[t] = "Init" /\ pc'[t] = "Start" /\ sys' = "Starting"
       /\ UNCHANGED <<op, bootReport>>
    \/ /\ pc[t] \in BootPcs \ ActivationPcs /\ pc'[t] \in CleanupPcs /\ sys' = "RollingBack"
       /\ UNCHANGED <<op, bootReport>>
    \/ /\ pc[t] \in StartPcs /\ pc'[t] \in StartPcs
       /\ UNCHANGED <<sys, op, bootReport>>
    \/ /\ pc[t] = "Run" /\ pc'[t] \in ActivationPcs /\ sys' = "Running"
       /\ bootReport'.final = "Running" /\ UNCHANGED op
    \/ /\ pc[t] \in ActivationPcs /\ pc'[t] \in ActivationPcs \cup {"Idle"}
       /\ UNCHANGED <<sys, op, bootReport>>
    \/ /\ pc[t] \in CleanupPcs /\ pc'[t] \in CleanupPcs
       /\ sys' = sys \/ (op = "stop" /\ sys' = "Deinitializing")
       /\ UNCHANGED <<op, bootReport>>
    \/ /\ pc[t] = "Deinit" /\ pc'[t] = "Idle" /\ op = "boot" /\ sys' = "Failed"
       /\ bootReport'.final = "Failed" /\ UNCHANGED op
    \/ /\ pc[t] = "Deinit" /\ pc'[t] = "Idle" /\ op = "stop" /\ sys' \in {"Failed", "Stopped"}
       /\ UNCHANGED <<op, bootReport>>

(* Goto moves only the caller it names.                                    *)
LEMMA GoesTo ==
    ASSUME TypeOK, NEW t \in Callers, NEW p, NEW i, Goto(t, p, i)
    PROVE  pc'[t] = p /\ idx'[t] = i
BY Zenon DEF Goto, TypeOK, EngineTypeOK

(* boot(), up to its commit and through activation.                        *)
LEMMA BootMoves ==
    ASSUME TypeOK, NEW t \in Callers, BootStep(t)
    PROVE  Move(t)
<1> USE GoesTo DEF Move, BootPcs, ActivationPcs, StartPcs, CleanupPcs, rep
<1>1. CASE InitBegin(t) \/ InitSucceeds(t)
    BY Zenon, <1>1 DEF InitBegin, InitSucceeds
<1>2. CASE InitDone(t)
    BY Zenon, <1>2 DEF InitDone
<1>3. CASE InitFails(t) \/ StartFails(t) \/ PrepareFails(t) \/ GateFails(t)
  <2>1. /\ pc[t] \in BootPcs \ ActivationPcs /\ sys' = "RollingBack" /\ UNCHANGED <<op, bootReport>>
        /\ \E p \in {"Deinit", "SysRequest"} : \E i : Goto(t, p, i)
    BY Zenon, <1>3 DEF InitFails, StartFails, PrepareFails, GateFails, BeginRollback
  <2> QED BY Zenon, <2>1
<1>4. CASE StartBegin(t) \/ StartSucceeds(t) \/ PrepareSucceeds(t) \/ StartDone(t) \/ GatePasses(t)
  <2>1. /\ pc[t] \in StartPcs /\ UNCHANGED <<sys, op, bootReport>>
        /\ \E p \in StartPcs : \E i : Goto(t, p, i)
    <3>1. CASE StartBegin(t) \/ StartSucceeds(t) \/ PrepareSucceeds(t) \/ StartDone(t)
      BY Zenon, <3>1 DEF StartBegin, StartSucceeds, PrepareSucceeds, StartDone
    <3>2. CASE GatePasses(t)
      BY Zenon, <3>2 DEF GatePasses
    <3> QED BY Zenon, <1>4, <3>1, <3>2
  <2>2. pc'[t] \in StartPcs BY Zenon, <2>1
  <2> QED BY Zenon, <2>1, <2>2
<1>5. CASE Validate(t)
  <2>1. CASE Goto(t, "SysValidate", 0) /\ UNCHANGED sys
    BY Zenon, <1>5, <2>1 DEF Validate
  <2>2. CASE Goto(t, "SysRequest", 0) /\ sys' = "RollingBack"
    BY Zenon, <1>5, <2>2 DEF Validate
  <2> QED BY Zenon, <1>5, <2>1, <2>2 DEF Validate, BeginRollback
<1>6. CASE Run(t)
  <2>1. bootReport'.final = "Running" BY <1>6 DEF Run
  <2> QED BY Zenon, <1>6, <2>1 DEF Run
<1>7. CASE SysActivate(t) \/ Activate(t) \/ ActivateDone(t)
    BY Zenon, <1>7 DEF SysActivate, Activate, ActivateDone
<1> QED BY Zenon, <1>1, <1>2, <1>3, <1>4, <1>5, <1>6, <1>7 DEF BootStep

(* Containment stays inside a rollback or a stop().                        *)
LEMMA ContainMoves ==
    ASSUME TypeOK, NEW t \in Callers, ContainStep(t)
    PROVE  /\ pc[t] \in CleanupPcs /\ pc'[t] \in CleanupPcs
           /\ UNCHANGED <<sys, op, bootReport>>
<1> USE GoesTo DEF CleanupPcs, rep, Contained, Uncontained, QueueTimesOut
<1>1. CASE SysRequest(t) \/ SysQuiescent(t) \/ SysTimeout(t) \/ SysContainDone(t) \/ Request(t) \/ RequestDone(t)
    BY Zenon, <1>1 DEF SysRequest, SysQuiescent, SysTimeout, SysContainDone, Request, RequestDone
<1>2. CASE ContainSkip(t) \/ Join(t) \/ JoinUnstarted(t) \/ JoinTimeout(t) \/ Abort(t) \/ Forced(t)
    BY Zenon, <1>2 DEF ContainSkip, Join, JoinUnstarted, JoinTimeout, Abort, Forced
<1>3. CASE QueueQuiescent(t) \/ QueueTimeout(t) \/ Drain(t) \/ QueueStopped(t) \/ QueueStopTimeout(t) \/ ContainDone(t)
    BY Zenon, <1>3 DEF QueueQuiescent, QueueTimeout, Drain, QueueStopped, QueueStopTimeout, ContainDone
<1> QED BY Zenon, <1>1, <1>2, <1>3 DEF ContainStep

(* Every step of a caller is one of those moves.                           *)
LEMMA EngineMoves ==
    ASSUME TypeOK, NEW t \in Callers, EngineStep(t)
    PROVE  Move(t)
<1>1. CASE BootStep(t) BY Zenon, <1>1, BootMoves
<1>2. CASE ContainStep(t) BY Zenon, <1>2, ContainMoves DEF Move
<1>3. CASE CleanupStep(t)
  <2> USE GoesTo DEF Move, CleanupPcs, rep
  <2>1. CASE StopBegin(t) \/ StopReturns(t) \/ StopDone(t) \/ DeinitBegin(t) \/ DeinitReturns(t)
    BY Zenon, <2>1 DEF StopBegin, StopReturns, StopDone, DeinitBegin, DeinitReturns
  <2>2. CASE RollbackDone(t)
    <3>1. bootReport'.final = "Failed" BY <2>2 DEF RollbackDone
    <3> QED BY Zenon, <2>2, <3>1 DEF RollbackDone
  <2>3. CASE StopFinished(t)
    BY Zenon, <2>3 DEF StopFinished, FinalState
  <2> QED BY Zenon, <1>3, <2>1, <2>2, <2>3 DEF CleanupStep
<1> QED BY Zenon, <1>1, <1>2, <1>3 DEF EngineStep

(* The system state only moves with a caller, or to Failed under one that  *)
(* left it running.                                                        *)
LEMMA OutsideMoves ==
    ASSUME \/ \E s \in Services : ServiceStep(s)
           \/ \E r \in Registrations : WorkStep(r)
           \/ UNCHANGED vars
    PROVE  /\ UNCHANGED <<pc, idx, op, left, bootReport>>
           /\ UNCHANGED <<inited, started, prepared, blocked, calls, queue>>
           /\ sys' = sys \/ (sys \in ReportedStates /\ sys' = "Failed")
BY Zenon DEF ServiceStep, ReportStep, ThreadRun, RunReturns, ReportLock, ReportRecord,
    ReportSystem, WorkStep, SubmitCheck, SubmitNative, WorkDone,
    vars, engineVars, rep, recordVars, serviceVars, workVars

(* The phase follows a caller, ...                                         *)
LEMMA PhaseEngine ==
    ASSUME IInv, Phase, NEW t \in Callers, Boot(t) \/ Stop(t) \/ EngineStep(t)
    PROVE  Phase'
<1>1. \A u \in Callers \ {t} : pc'[u] = "Idle"
    BY Zenon, OthersIdle DEF IInv
<1>2. TypeOK /\ PhaseAt(pc[t]) BY Zenon DEF IInv, Phase
<1>3. PhaseAt("Idle")'
    BY Zenon DEF PhaseAt, BootPcs, CleanupPcs, ActivationPcs
<1>4. /\ PhaseAt(pc[t])'
      /\ bootReport'.final = "None" <=> sys' \in BootStates
      /\ bootReport'.final = "None" => op' = "boot"
  <2> USE <1>2 DEF Phase, PhaseAt, BootPcs, CleanupPcs, ActivationPcs, StartPcs, BootStates
  <2>1. CASE Boot(t)
    <3>1. pc'[t] = "Init" BY Zenon, <2>1, GoesTo DEF Boot
    <3> QED BY <2>1, <3>1 DEF Boot, NewReport
  <2>2. CASE Stop(t)
    <3>1. pc'[t] = "SysRequest" BY Zenon, <2>2, GoesTo DEF Stop
    <3> QED BY <2>2, <3>1 DEF Stop, NewReport, StopAllowed
  <2>3. CASE EngineStep(t)
    <3>1. Move(t) BY Zenon, <2>3, EngineMoves
    <3> QED BY <3>1 DEF Move
  <2> QED BY Zenon, <2>1, <2>2, <2>3
<1> QED BY Zenon, <1>1, <1>3, <1>4 DEF Phase

(* ... and what services report in between.                                *)
LEMMA PhaseStep ==
    ASSUME IInv, Phase, Barrier, [Next]_vars
    PROVE  Phase'
<1>1. CASE \E t \in Callers : Boot(t) \/ Stop(t) \/ EngineStep(t)
    BY Zenon, <1>1, PhaseEngine
<1>2. CASE \/ \E s \in Services : ServiceStep(s)
           \/ \E r \in Registrations : WorkStep(r)
           \/ UNCHANGED vars
  <2>1. UNCHANGED <<pc, op, bootReport>>
    BY Zenon, <1>2, OutsideMoves
  <2>2. CASE sys' = sys
    BY Zenon, <2>1, <2>2 DEF Phase, PhaseAt
  <2>3. CASE sys' # sys
    <3>1. sys \in ReportedStates /\ sys' = "Failed"
      BY Zenon, <1>2, <2>3, OutsideMoves
    <3>2. bootReport.final = "Running"
      <4>1. PICK s \in Services : thread[s] = "Reported"
        BY Zenon, <1>2, <2>3 DEF ServiceStep, ReportStep, ThreadRun, RunReturns, ReportLock,
            ReportRecord, ReportSystem, WorkStep, SubmitCheck, SubmitNative, WorkDone, vars
      <4> QED BY <4>1 DEF Barrier, Quiet
    <3>3. sys = "Running" /\ sys' = "Failed"
      BY <3>1, <3>2 DEF Phase, BootStates, ReportedStates
    <3>4. ASSUME NEW t \in Callers PROVE PhaseAt(pc[t])'
      <4>1. PhaseAt(pc[t]) BY Zenon DEF Phase
      <4> QED BY <2>1, <3>2, <3>3, <4>1 DEF PhaseAt, BootPcs, CleanupPcs, ActivationPcs
    <3> QED BY <2>1, <3>2, <3>3, <3>4 DEF Phase, BootStates
  <2> QED BY Zenon, <2>2, <2>3
<1> QED BY Zenon, <1>1, <1>2 DEF Next
----------------------------------------------------------------------------
(***************************************************************************)
(* Which steps of a caller change what.                                    *)
(***************************************************************************)
(* A hook call is counted for its component and hook alone.                *)
LEMMA OtherCalls ==
    ASSUME TypeOK, NEW c, NEW h \in Hooks \ {"start"}, Called(c, h)
    PROVE  \A d \in Components : calls'[d]["start"] = calls[d]["start"]
<1>1. CASE c \in Components
    BY <1>1, CalledEffect DEF Hooks
<1>2. CASE c \notin Components
    BY Zenon, <1>2 DEF Called, TypeOK, RecordTypeOK
<1> QED BY Zenon, <1>1, <1>2

(* Which steps of a caller change a service thread.                        *)
LEMMA ThreadEffect ==
    ASSUME NEW t \in Callers, Boot(t) \/ Stop(t) \/ EngineStep(t)
    PROVE  \/ UNCHANGED thread
           \/ PrepareSucceeds(t) \/ Activate(t) \/ Abort(t)
BY Zenon DEF Boot, Stop, EngineStep, BootStep, InitBegin, InitSucceeds, InitFails, InitDone,
    StartBegin, StartSucceeds, StartFails, PrepareFails, StartDone, GatePasses, GateFails,
    Validate, Run, SysActivate, ActivateDone, ContainStep, SysRequest, SysQuiescent, SysTimeout,
    SysContainDone, Request, RequestDone, ContainSkip, Join, JoinUnstarted, JoinTimeout, Forced,
    QueueQuiescent, QueueTimeout, Drain, QueueStopped, QueueStopTimeout, ContainDone,
    CleanupStep, StopBegin, StopReturns, StopDone, DeinitBegin, DeinitReturns,
    RollbackDone, StopFinished, serviceVars

(* Which steps of a caller change admission and work.                      *)
LEMMA WorkEffect ==
    ASSUME TypeOK, NEW t \in Callers, Boot(t) \/ Stop(t) \/ EngineStep(t)
    PROVE  /\ UNCHANGED submitter
           /\ UNCHANGED accepting \/ SysActivate(t) \/ SysRequest(t)
           /\ UNCHANGED work \/ ((QueueTimeout(t) \/ QueueStopTimeout(t)) /\ idx[t] \in AbortOnTimeout)
           /\ \/ UNCHANGED queue
              \/ PrepareSucceeds(t) \/ Drain(t) \/ QueueStopped(t)
              \/ ((QueueTimeout(t) \/ QueueStopTimeout(t)) /\ idx[t] \in AbortOnTimeout)
BY Zenon DEF Boot, Stop, EngineStep, BootStep, InitBegin, InitSucceeds, InitFails, InitDone,
    StartBegin, StartSucceeds, PrepareSucceeds, StartFails, PrepareFails, StartDone, GatePasses,
    GateFails, Validate, Run, SysActivate, Activate, ActivateDone, ContainStep, SysRequest,
    SysQuiescent, SysTimeout, SysContainDone, Request, RequestDone, ContainSkip, Join,
    JoinUnstarted, JoinTimeout, Abort, Forced, QueueQuiescent, QueueTimeout, QueueTimesOut, Drain,
    QueueStopped, QueueStopTimeout, ContainDone, CleanupStep, StopBegin, StopReturns, StopDone,
    DeinitBegin, DeinitReturns, RollbackDone, StopFinished, workVars

(* No step of boot() but those named raises a flag of a record.            *)
LEMMA RecordEffect ==
    ASSUME TypeOK, NEW t \in Callers, Boot(t) \/ Stop(t) \/ EngineStep(t)
    PROVE  /\ (\A c \in Components : inited'[c] => inited[c]) \/ InitSucceeds(t)
           /\ \/ \A c \in Components : started'[c] => started[c]
              \/ StartSucceeds(t) /\ idx[t] \notin Participants
              \/ PrepareSucceeds(t)
           /\ (\A c \in Components : prepared'[c] => prepared[c]) \/ PrepareSucceeds(t)
           /\ (\A c \in Components : calls'[c]["start"] = calls[c]["start"]) \/ StartBegin(t)
<1>1. CASE Boot(t) \/ Stop(t)
    BY Zenon, <1>1 DEF Boot, Stop, recordVars
<1>2. CASE BootStep(t)
  <2>1. CASE InitBegin(t)
    <3>1. \A c \in Components : calls'[c]["start"] = calls[c]["start"]
      BY Zenon, <2>1, OtherCalls DEF InitBegin, Hooks
    <3> QED BY Zenon, <2>1, <3>1 DEF InitBegin
  <2>2. CASE ~InitBegin(t)
    BY Zenon, <1>2, <2>2 DEF BootStep, InitSucceeds, InitFails, InitDone,
        StartBegin, StartSucceeds, PrepareSucceeds, StartFails, PrepareFails, StartDone,
        GatePasses, GateFails, Validate, Run, SysActivate, Activate, ActivateDone, recordVars
  <2> QED BY Zenon, <2>1, <2>2
<1>3. CASE ContainStep(t)
  <2>1. UNCHANGED <<inited, started, calls>>
    BY Zenon, <1>3 DEF ContainStep, SysRequest, SysQuiescent, SysTimeout, SysContainDone, Request,
        RequestDone, ContainSkip, Join, JoinUnstarted, JoinTimeout, Abort, Forced, QueueQuiescent,
        QueueTimeout, QueueTimesOut, Drain, QueueStopped, QueueStopTimeout, ContainDone,
        Contained, Uncontained, recordVars
  <2>2. UNCHANGED prepared \/ \E c : prepared' = [prepared EXCEPT ![c] = FALSE]
    BY Zenon, <1>3 DEF ContainStep, SysRequest, SysQuiescent, SysTimeout, SysContainDone, Request,
        RequestDone, ContainSkip, Join, JoinUnstarted, JoinTimeout, Abort, Forced, QueueQuiescent,
        QueueTimeout, QueueTimesOut, Drain, QueueStopped, QueueStopTimeout, ContainDone,
        Contained, Uncontained, recordVars
  <2>3. \A c \in Components : prepared'[c] => prepared[c]
    BY Zenon, <2>2 DEF TypeOK, RecordTypeOK
  <2> QED BY Zenon, <2>1, <2>3
<1>4. CASE CleanupStep(t)
  <2>1. /\ UNCHANGED prepared
        /\ UNCHANGED started \/ \E c : started' = [started EXCEPT ![c] = FALSE]
        /\ UNCHANGED inited \/ \E c : inited' = [inited EXCEPT ![c] = FALSE]
        /\ UNCHANGED calls \/ \E c : \E h \in {"stop", "deinit"} : Called(c, h)
    BY Zenon, <1>4 DEF CleanupStep, StopBegin, StopReturns, StopDone, DeinitBegin, DeinitReturns,
        RollbackDone, StopFinished, StageAfterCleanup, recordVars
  <2>2. \A c \in Components : /\ started'[c] => started[c]
                              /\ inited'[c] => inited[c]
    BY Zenon, <2>1 DEF TypeOK, RecordTypeOK
  <2>3. \A c \in Components : calls'[c]["start"] = calls[c]["start"]
    BY Zenon, <2>1, OtherCalls DEF Hooks
  <2> QED BY Zenon, <2>1, <2>2, <2>3
<1> QED BY Zenon, <1>1, <1>2, <1>3, <1>4 DEF EngineStep
----------------------------------------------------------------------------
(***************************************************************************)
(* The activation barrier.                                                 *)
(***************************************************************************)
(* A boot that committed to Running stays committed.                       *)
LEMMA CommitKept ==
    ASSUME IInv, Phase, NEW t \in Callers, Boot(t) \/ Stop(t) \/ EngineStep(t),
           bootReport.final = "Running"
    PROVE  bootReport'.final = "Running"
<1>1. CASE Boot(t) \/ Stop(t) BY Zenon, <1>1 DEF Boot, Stop
<1>2. CASE EngineStep(t)
  <2>1. Move(t) BY Zenon, <1>2, EngineMoves DEF IInv
  <2>2. PhaseAt(pc[t]) BY Zenon DEF Phase
  <2> QED BY <2>1, <2>2 DEF Move, Phase, PhaseAt, BootStates, CleanupPcs
<1> QED BY Zenon, <1>1, <1>2

(* The steps named come before the commit, or after it.                    *)
LEMMA BeforeCommit ==
    ASSUME Phase, NEW t \in Callers
    PROVE  /\ pc[t] \in BootPcs \ ActivationPcs => bootReport.final = "None"
           /\ pc[t] \in ActivationPcs => bootReport.final = "Running"
<1>1. PhaseAt(pc[t]) BY Zenon DEF Phase
<1> QED BY <1>1 DEF Phase, PhaseAt, BootStates, BootPcs, ActivationPcs

(* Before the commit nothing starts a thread or admits work.               *)
LEMMA QuietKept ==
    ASSUME IInv, Phase, Barrier, NEW t \in Callers, Boot(t) \/ Stop(t) \/ EngineStep(t)
    PROVE  bootReport'.final = "Running" \/ Quiet'
<1>1. CASE bootReport.final = "Running" BY Zenon, <1>1, CommitKept
<1>2. CASE bootReport.final # "Running"
  <2>1. Quiet BY Zenon, <1>2 DEF Barrier
  <2>2. pc[t] \notin ActivationPcs BY Zenon, <1>2, BeforeCommit
  <2>3. \A s \in Services : thread'[s] \in {"Empty", "Prepared"}
    <3>1. CASE UNCHANGED thread BY Zenon, <2>1, <3>1 DEF Quiet
    <3>2. CASE PrepareSucceeds(t)
      BY Zenon, <2>1, <3>2 DEF Quiet, PrepareSucceeds, PreparedThread
    <3>3. ~Activate(t) BY Zenon, <2>2 DEF Activate, ActivationPcs
    <3>4. ~Abort(t)
      <4>1. SUFFICES ASSUME pc[t] = "Abort" PROVE FALSE BY Zenon DEF Abort
      <4>2. idx[t] \in Services
        BY Zenon, <4>1 DEF IInv, PlacesOK, PlaceOK
      <4> QED BY Zenon, <2>1, <4>1, <4>2 DEF Barrier, Quiet
    <3> QED BY Zenon, <3>1, <3>2, <3>3, <3>4, ThreadEffect
  <2>4. \A r \in Registrations : ~accepting'[r]
    <3>1. ~SysActivate(t) BY Zenon, <2>2 DEF SysActivate, ActivationPcs
    <3>2. CASE SysRequest(t) BY Zenon, <3>2 DEF SysRequest
    <3> QED BY Zenon, <2>1, <3>1, <3>2, WorkEffect DEF Quiet, IInv
  <2>5. \A r \in Registrations : ~work'[r]
    BY Zenon, <2>1, WorkEffect DEF Quiet, IInv, QueueTimeout, QueueStopTimeout, QueueTimesOut
  <2>6. \A r \in Registrations : ~submitter'[r]
    BY Zenon, <2>1, WorkEffect DEF Quiet, IInv
  <2> QED BY Zenon, <2>3, <2>4, <2>5, <2>6 DEF Quiet
<1> QED BY Zenon, <1>1, <1>2

(* The step by which a caller arrives at a place.                          *)
LEMMA Arrivals ==
    ASSUME IInv, NEW t \in Callers, Boot(t) \/ Stop(t) \/ EngineStep(t)
    PROVE  /\ pc'[t] = "StartHook" => StartBegin(t) /\ idx'[t] = idx[t]
           /\ pc'[t] = "Prepare" => StartSucceeds(t) /\ idx[t] \in Participants /\ idx'[t] = idx[t]
           /\ pc'[t] = "Abort" => JoinTimeout(t) /\ idx'[t] = idx[t]
           /\ pc'[t] = "Drain" => QueueQuiescent(t) /\ idx'[t] = idx[t]
           /\ pc'[t] = "QueueStop" => Drain(t) /\ idx'[t] = idx[t]
<1>1. \A p, i : Goto(t, p, i) => pc'[t] = p /\ idx'[t] = i
    BY Zenon, GoesTo DEF IInv
<1>2. CASE Boot(t) \/ Stop(t)
  <2>1. pc'[t] = "Init" \/ pc'[t] = "SysRequest"
    BY Zenon, <1>1, <1>2 DEF Boot, Stop
  <2> QED BY Zenon, <2>1
<1>3. CASE BootStep(t)
  <2>1. CASE StartBegin(t)
    <3>1. pc'[t] = "StartHook" /\ idx'[t] = idx[t] BY Zenon, <1>1, <2>1 DEF StartBegin
    <3> QED BY Zenon, <2>1, <3>1
  <2>2. CASE StartSucceeds(t)
    <3>1. \/ pc'[t] = "Prepare" /\ idx'[t] = idx[t] /\ idx[t] \in Participants
          \/ pc'[t] = "Start"
      BY Zenon, <1>1, <2>2 DEF StartSucceeds
    <3> QED BY Zenon, <2>2, <3>1
  <2>3. CASE ~StartBegin(t) /\ ~StartSucceeds(t)
    <3>1. \E p \in Pcs \ {"StartHook", "Prepare", "Abort", "Drain", "QueueStop"} : \E i : Goto(t, p, i)
      BY Zenon, <1>3, <2>3 DEF BootStep, InitBegin, InitSucceeds, InitFails, InitDone, StartFails,
          PrepareSucceeds, PrepareFails, StartDone, GatePasses, GateFails, Validate, Run,
          SysActivate, Activate, ActivateDone, BeginRollback, Pcs, BootPcs, CleanupPcs
    <3> QED BY Zenon, <1>1, <3>1
  <2> QED BY Zenon, <2>1, <2>2, <2>3
<1>4. CASE ContainStep(t)
  <2>1. CASE JoinTimeout(t)
    BY Zenon, <1>1, <2>1 DEF JoinTimeout, Uncontained
  <2>2. CASE QueueQuiescent(t) \/ Drain(t)
    <3>1. /\ QueueQuiescent(t) => pc'[t] = "Drain" /\ idx'[t] = idx[t]
          /\ Drain(t) => pc'[t] = "QueueStop" /\ idx'[t] = idx[t]
      BY Zenon, <1>1 DEF QueueQuiescent, Drain
    <3> QED BY Zenon, <2>2, <3>1
  <2>3. CASE ~JoinTimeout(t) /\ ~QueueQuiescent(t) /\ ~Drain(t)
    <3>1. \E p \in Pcs \ {"StartHook", "Prepare", "Abort", "Drain", "QueueStop"} : \E i : Goto(t, p, i)
      BY Zenon, <1>4, <2>3 DEF ContainStep, SysRequest, SysQuiescent, SysTimeout, SysContainDone,
          Request, RequestDone, ContainSkip, Join, JoinUnstarted, Abort, Forced, QueueTimeout,
          QueueTimesOut, QueueStopped, QueueStopTimeout, ContainDone, Contained, Uncontained,
          Pcs, BootPcs, CleanupPcs
    <3> QED BY Zenon, <1>1, <3>1
  <2> QED BY Zenon, <2>1, <2>2, <2>3
<1>5. CASE CleanupStep(t)
  <2>1. \E p \in Pcs \ {"StartHook", "Prepare", "Abort", "Drain", "QueueStop"} : \E i : Goto(t, p, i)
    BY Zenon, <1>5 DEF CleanupStep, StopBegin, StopReturns, StopDone, DeinitBegin, DeinitReturns,
        RollbackDone, StopFinished, Pcs, BootPcs, CleanupPcs
  <2> QED BY Zenon, <1>1, <2>1
<1> QED BY Zenon, <1>2, <1>3, <1>4, <1>5 DEF EngineStep

(* The barrier is kept by the steps of a caller, ...                       *)
LEMMA BarrierEngine ==
    ASSUME IInv, Phase, Barrier, NEW t \in Callers, Boot(t) \/ Stop(t) \/ EngineStep(t)
    PROVE  Barrier'
<1>1. bootReport'.final = "Running" \/ Quiet'
    BY Zenon, QuietKept
<1>2. PICK c : c = idx[t] OBVIOUS
<1>3. PlaceOK(pc[t], c) /\ BootAt(pc[t], c) BY Zenon, <1>2, Place
<1>4. \A u \in Callers \ {t} : pc'[u] = "Idle"
    BY Zenon, OthersIdle DEF IInv
<1>5. ASSUME StartBegin(t)
      PROVE  /\ c \in Components /\ calls[c]["start"] = 0 /\ calls'[c]["start"] = 1
             /\ \A d \in Components \ {c} : calls'[d]["start"] = calls[d]["start"]
  <2>1. c \in Components /\ pc[t] = "Start" /\ Called(c, "start")
    BY <1>2, <1>3, <1>5, Sizes DEF StartBegin, PlaceOK, Components
  <2>2. calls[c]["start"] = 0
    BY Zenon, <1>3, <2>1 DEF BootAt
  <2> QED BY <2>1, <2>2, CalledEffect DEF IInv, Hooks
<1>6. bootReport'.final = "Running" => \A d \in Components : calls'[d]["start"] = 1
  <2>1. SUFFICES ASSUME bootReport'.final = "Running" PROVE \A d \in Components : calls'[d]["start"] = 1
    BY Zenon
  <2>2. CASE bootReport.final = "Running"
    <3>1. ~StartBegin(t)
      BY Zenon, <2>2, BeforeCommit DEF StartBegin, BootPcs, ActivationPcs
    <3> QED BY Zenon, <2>2, <3>1, RecordEffect DEF Barrier, IInv
  <2>3. CASE bootReport.final # "Running"
    <3>1. EngineStep(t) /\ Move(t)
      BY Zenon, <2>1, <2>3, EngineMoves DEF Boot, Stop, IInv
    <3>2. pc[t] = "Run"
      BY <2>1, <2>3, <3>1 DEF Move
    <3>3. \A d \in Components : started[d]
      BY Zenon, <1>3, <3>2 DEF BootAt, Usable
    <3>4. ~StartBegin(t) BY Zenon, <3>2 DEF StartBegin
    <3> QED BY Zenon, <3>3, <3>4, RecordEffect DEF Barrier, IInv
  <2> QED BY Zenon, <2>2, <2>3
<1>7. \A d \in Components : started'[d] => calls'[d]["start"] = 1
  <2>1. CASE StartBegin(t)
    BY Zenon, <1>5, <2>1 DEF Barrier, StartBegin
  <2>2. CASE ~StartBegin(t)
    <3>1. \A d \in Components : started'[d] => started[d] \/ (d = c /\ pc[t] \in {"StartHook", "Prepare"})
      <4>1. CASE (StartSucceeds(t) /\ idx[t] \notin Participants) \/ PrepareSucceeds(t)
        <5>1. started' = [started EXCEPT ![c] = TRUE] /\ pc[t] \in {"StartHook", "Prepare"}
          BY Zenon, <1>2, <4>1 DEF StartSucceeds, PrepareSucceeds
        <5> QED BY Zenon, <5>1 DEF IInv, TypeOK, RecordTypeOK
      <4>2. CASE \A d \in Components : started'[d] => started[d]
        BY Zenon, <4>2
      <4> QED BY Zenon, <4>1, <4>2, RecordEffect DEF IInv
    <3>2. \A d \in Components : calls'[d]["start"] = calls[d]["start"]
      BY Zenon, <2>2, RecordEffect DEF IInv
    <3>3. pc[t] \in {"StartHook", "Prepare"} => calls[c]["start"] = 1
      BY Zenon, <1>2 DEF Barrier
    <3>4. \A d \in Components : started[d] => calls[d]["start"] = 1
      BY Zenon DEF Barrier
    <3> QED BY <3>1, <3>2, <3>3, <3>4
  <2> QED BY Zenon, <2>1, <2>2
<1>8. \A u \in Callers : pc'[u] \in {"StartHook", "Prepare"} => calls'[idx'[u]]["start"] = 1
  <2>1. ASSUME pc'[t] = "StartHook" PROVE calls'[idx'[t]]["start"] = 1
    BY Zenon, <1>2, <1>5, <2>1, Arrivals
  <2>2. ASSUME pc'[t] = "Prepare" PROVE calls'[idx'[t]]["start"] = 1
    BY Zenon, <2>2, Arrivals DEF StartSucceeds, Barrier
  <2> QED BY Zenon, <1>4, <2>1, <2>2
<1>9. \A s \in Services : prepared'[s] => thread'[s] # "Empty"
  <2>1. CASE PrepareSucceeds(t)
    BY Zenon, <2>1, OwnersAreComponents DEF PrepareSucceeds, PreparedThread, Barrier, IInv, TypeOK, RecordTypeOK
  <2>2. CASE ~PrepareSucceeds(t)
    <3>1. \A s \in Services : prepared'[s] => prepared[s]
      BY Zenon, <2>2, RecordEffect, OwnersAreComponents DEF IInv
    <3>2. \A s \in Services : thread'[s] = "Empty" => thread[s] = "Empty"
      BY Zenon, <2>2, ThreadEffect DEF Activate, Abort, IInv, TypeOK, ExecutionTypeOK
    <3> QED BY Zenon, <3>1, <3>2 DEF Barrier
  <2> QED BY Zenon, <2>1, <2>2
<1>10. \A u \in Callers : pc'[u] = "Abort" => thread'[idx'[u]] \notin {"Empty", "Prepared"}
  <2>1. SUFFICES ASSUME pc'[t] = "Abort" PROVE thread'[idx'[t]] \notin {"Empty", "Prepared"}
    BY Zenon, <1>4
  <2> QED BY Zenon, <2>1, Arrivals DEF JoinTimeout, Barrier, serviceVars
<1> QED BY Zenon, <1>1, <1>6, <1>7, <1>8, <1>9, <1>10 DEF Barrier

(* ... and by every step.                                                  *)
LEMMA BarrierStep ==
    ASSUME IInv, Phase, Barrier, [Next]_vars
    PROVE  Barrier'
<1>1. CASE \E t \in Callers : Boot(t) \/ Stop(t) \/ EngineStep(t)
    BY Zenon, <1>1, BarrierEngine
<1>2. CASE \/ \E s \in Services : ServiceStep(s)
           \/ \E r \in Registrations : WorkStep(r)
           \/ UNCHANGED vars
  <2>1. UNCHANGED <<pc, idx, bootReport, started, prepared, calls>>
    BY Zenon, <1>2, OutsideMoves
  <2>2. \A s \in Services : \/ thread'[s] = thread[s]
                            \/ thread[s] \notin {"Empty", "Prepared"} /\ thread'[s] \notin {"Empty", "Prepared"}
    BY Zenon, <1>2 DEF ServiceStep, ReportStep, ThreadRun, RunReturns, ReportLock, ReportRecord,
        ReportSystem, WorkStep, SubmitCheck, SubmitNative, WorkDone, vars, serviceVars,
        IInv, TypeOK, ExecutionTypeOK
  <2>3. Quiet => Quiet'
    <3>1. Quiet => UNCHANGED <<accepting, submitter, work>>
      BY Zenon, <1>2 DEF Quiet, ServiceStep, ReportStep, ThreadRun, RunReturns, ReportLock,
          ReportRecord, ReportSystem, WorkStep, SubmitCheck, SubmitNative, WorkDone, vars, workVars
    <3> QED BY Zenon, <2>2, <3>1 DEF Quiet
  <2>4. \A t \in Callers : pc[t] = "Abort" => idx[t] \in Services
    BY Zenon DEF IInv, PlacesOK, PlaceOK
  <2>5. \A t \in Callers : pc'[t] = "Abort" => thread'[idx'[t]] \notin {"Empty", "Prepared"}
    BY Zenon, <2>1, <2>2, <2>4 DEF Barrier
  <2>6. \A s \in Services : prepared'[s] => thread'[s] # "Empty"
    BY Zenon, <2>1, <2>2 DEF Barrier
  <2> QED BY Zenon, <2>1, <2>3, <2>5, <2>6 DEF Barrier
<1> QED BY Zenon, <1>1, <1>2 DEF Next
----------------------------------------------------------------------------
(***************************************************************************)
(* Failures of services.                                                   *)
(***************************************************************************)
(* A record that says Failed goes on saying so.                            *)
LEMMA FailedKept ==
    ASSUME TypeOK, NEW t \in Callers, Boot(t) \/ Stop(t) \/ EngineStep(t)
    PROVE  UNCHANGED runStatus /\ \A c \in Components : failed[c] => failed'[c]
<1>1. UNCHANGED runStatus
    BY Zenon DEF Boot, Stop, EngineStep, BootStep, InitBegin, InitSucceeds, InitFails, InitDone,
    StartBegin, StartSucceeds, PrepareSucceeds, StartFails, PrepareFails, StartDone, GatePasses,
    GateFails, Validate, Run, SysActivate, Activate, ActivateDone, ContainStep, SysRequest,
    SysQuiescent, SysTimeout, SysContainDone, Request, RequestDone, ContainSkip, Join,
    JoinUnstarted, JoinTimeout, Abort, Forced, QueueQuiescent, QueueTimeout, Drain,
    QueueStopped, QueueStopTimeout, ContainDone, CleanupStep, StopBegin, StopReturns, StopDone,
    DeinitBegin, DeinitReturns, RollbackDone, StopFinished, serviceVars
<1>2. \/ UNCHANGED failed
      \/ \E c : failed' = [failed EXCEPT ![c] = TRUE]
      \/ \E c : \E ok \in BOOLEAN : failed' = [failed EXCEPT ![c] = @ \/ ~ok]
    BY Zenon DEF Boot, Stop, EngineStep, BootStep, InitBegin, InitSucceeds, InitFails, InitDone,
    StartBegin, StartSucceeds, PrepareSucceeds, StartFails, PrepareFails, StartDone, GatePasses,
    GateFails, Validate, Run, SysActivate, Activate, ActivateDone, ContainStep, SysRequest,
    SysQuiescent, SysTimeout, SysContainDone, Request, RequestDone, ContainSkip, Join,
    JoinUnstarted, JoinTimeout, Abort, Forced, QueueQuiescent, QueueTimeout, QueueTimesOut, Drain,
    QueueStopped, QueueStopTimeout, ContainDone, CleanupStep, StopBegin, StopReturns, StopDone,
    DeinitBegin, DeinitReturns, RollbackDone, StopFinished, Cleaned, Contained, Uncontained,
    RecordFailure, recordVars
<1>3. \A c \in Components : failed[c] => failed'[c]
    BY Zenon, <1>2 DEF TypeOK, RecordTypeOK
<1> QED BY Zenon, <1>1, <1>3

(* Failures stay visible through the steps of a caller, ...                *)
LEMMA ReportedEngine ==
    ASSUME IInv, Phase, Barrier, Reported, NEW t \in Callers, Boot(t) \/ Stop(t) \/ EngineStep(t)
    PROVE  Reported'
<1>1. UNCHANGED runStatus /\ \A s \in Services : failed[s] => failed'[s]
    BY Zenon, FailedKept, OwnersAreComponents DEF IInv
<1>2. \A s \in Services : thread'[s] \in {"Reported", "Exited"} => thread[s] = thread'[s]
    BY Zenon, ThreadEffect DEF PrepareSucceeds, PreparedThread, Activate, Abort,
        IInv, TypeOK, ExecutionTypeOK
<1>3. ASSUME NEW s \in Services, thread[s] = "Exited", sys' \in {"Starting", "Running"}
      PROVE  sys \in {"Starting", "Running"}
  <2>1. bootReport.final = "Running"
    BY Zenon, <1>3 DEF Barrier, Quiet
  <2>2. pc[t] \notin BootPcs \ ActivationPcs
    BY Zenon, <2>1, BeforeCommit
  <2>3. EngineStep(t) BY Zenon, <1>3 DEF Boot, Stop
  <2>4. Move(t) BY Zenon, <2>3, EngineMoves DEF IInv
  <2> QED BY <1>3, <2>2, <2>4 DEF Move, BootPcs, ActivationPcs, StartPcs
<1>4. \A s \in Services : thread'[s] = "Reported" => failed'[s]
    BY Zenon, <1>1, <1>2 DEF Reported
<1>5. ServiceFailureVisible'
    BY Zenon, <1>1, <1>2, <1>3 DEF Reported, ServiceFailureVisible
<1> QED BY Zenon, <1>4, <1>5 DEF Reported

(* ... through a thread that reports its own, ...                          *)
LEMMA ReportedService ==
    ASSUME IInv, Reported, NEW s \in Services, ServiceStep(s)
    PROVE  Reported'
<1>1. \A u \in Services \ {s} : thread'[u] = thread[u] /\ runStatus'[u] = runStatus[u]
    BY Zenon DEF ServiceStep, ReportStep, ThreadRun, RunReturns, ReportLock, ReportRecord,
        ReportSystem, IInv, TypeOK, ExecutionTypeOK
<1>2. \A u \in Services : failed[u] => failed'[u]
    BY Zenon, OwnersAreComponents DEF ServiceStep, ReportStep, ThreadRun, RunReturns, ReportLock,
        ReportRecord, ReportSystem, RecordFailure, recordVars, IInv, TypeOK, RecordTypeOK
<1>3. sys' \in {"Starting", "Running"} => sys' = sys
    BY Zenon DEF ServiceStep, ReportStep, ThreadRun, RunReturns, ReportLock,
        ReportRecord, ReportSystem
<1>4. thread'[s] = "Reported" => failed'[s]
  <2>1. CASE ReportRecord(s)
    BY Zenon, <2>1, OwnersAreComponents DEF ReportRecord, RecordFailure, IInv, TypeOK, RecordTypeOK
  <2>2. CASE ThreadRun(s) \/ ReportLock(s) \/ ReportSystem(s)
    <3>1. thread'[s] # "Reported"
      BY Zenon, <2>2 DEF ThreadRun, ReportLock, ReportSystem, IInv, TypeOK, ExecutionTypeOK
    <3> QED BY Zenon, <3>1
  <2>3. CASE RunReturns(s)
    <3>1. thread'[s] # "Reported"
      BY Zenon, <2>3 DEF RunReturns, IInv, TypeOK, ExecutionTypeOK
    <3> QED BY Zenon, <3>1
  <2> QED BY Zenon, <2>1, <2>2, <2>3 DEF ServiceStep, ReportStep
<1>5. thread'[s] = "Exited" /\ runStatus'[s] # "Ok" => sys' \notin {"Starting", "Running"} /\ failed'[s]
  <2>1. CASE ReportSystem(s)
    <3>1. failed'[s] BY Zenon, <1>2, <2>1 DEF ReportSystem, Reported
    <3>2. sys' \notin {"Starting", "Running"} BY Zenon, <2>1 DEF ReportSystem, ReportedStates
    <3> QED BY Zenon, <3>1, <3>2
  <2>2. CASE ThreadRun(s) \/ ReportLock(s) \/ ReportRecord(s)
    <3>1. thread'[s] # "Exited"
      BY Zenon, <2>2 DEF ThreadRun, ReportLock, ReportRecord, IInv, TypeOK, ExecutionTypeOK
    <3> QED BY Zenon, <3>1
  <2>3. CASE RunReturns(s)
    <3>1. thread'[s] = "Exited" => runStatus'[s] = "Ok"
      BY Zenon, <2>3 DEF RunReturns, IInv, TypeOK, ExecutionTypeOK
    <3> QED BY Zenon, <3>1
  <2> QED BY Zenon, <2>1, <2>2, <2>3 DEF ServiceStep, ReportStep
<1>6. \A u \in Services \ {s} :
          /\ thread'[u] = "Reported" => failed'[u]
          /\ thread'[u] = "Exited" /\ runStatus'[u] # "Ok" =>
                 sys' \notin {"Starting", "Running"} /\ failed'[u]
    BY Zenon, <1>1, <1>2, <1>3 DEF Reported, ServiceFailureVisible
<1>7. ASSUME NEW u \in Services
      PROVE  /\ thread'[u] = "Reported" => failed'[u]
             /\ thread'[u] = "Exited" /\ runStatus'[u] # "Ok" =>
                    sys' \notin {"Starting", "Running"} /\ failed'[u]
  <2>1. CASE u = s BY Zenon, <1>4, <1>5, <2>1
  <2>2. CASE u # s
    <3>1. u \in Services \ {s} BY Zenon, <2>2
    <3> QED BY Zenon, <1>6, <3>1
  <2> QED BY Zenon, <2>1, <2>2
<1> QED BY Zenon, <1>7 DEF Reported, ServiceFailureVisible

(* ... and so through every step.                                          *)
LEMMA ReportedStep ==
    ASSUME IInv, Phase, Barrier, Reported, [Next]_vars
    PROVE  Reported'
<1>1. CASE \E t \in Callers : Boot(t) \/ Stop(t) \/ EngineStep(t)
    BY Zenon, <1>1, ReportedEngine
<1>2. CASE \E s \in Services : ServiceStep(s)
    BY Zenon, <1>2, ReportedService
<1>3. CASE (\E r \in Registrations : WorkStep(r)) \/ UNCHANGED vars
  <2>1. UNCHANGED <<sys, thread, runStatus, failed>>
    BY Zenon, <1>3 DEF WorkStep, SubmitCheck, SubmitNative, WorkDone, vars, recordVars, serviceVars
  <2> QED BY Zenon, <2>1 DEF Reported, ServiceFailureVisible
<1> QED BY Zenon, <1>1, <1>2, <1>3 DEF Next
----------------------------------------------------------------------------
(***************************************************************************)
(* Work on the queues of executors.                                        *)
(***************************************************************************)
(* Only containment takes back what prepare gave.                          *)
LEMMA PreparedEffect ==
    ASSUME NEW t \in Callers, Boot(t) \/ Stop(t) \/ EngineStep(t)
    PROVE  \/ UNCHANGED prepared
           \/ PrepareSucceeds(t) \/ Join(t) \/ Forced(t) \/ QueueStopped(t)
           \/ ((QueueTimeout(t) \/ QueueStopTimeout(t)) /\ idx[t] \in AbortOnTimeout)
BY Zenon DEF Boot, Stop, EngineStep, BootStep, InitBegin, InitSucceeds, InitFails, InitDone,
    StartBegin, StartSucceeds, StartFails, PrepareFails, StartDone, GatePasses,
    GateFails, Validate, Run, SysActivate, Activate, ActivateDone, ContainStep, SysRequest,
    SysQuiescent, SysTimeout, SysContainDone, Request, RequestDone, ContainSkip,
    JoinUnstarted, JoinTimeout, Abort, QueueQuiescent, QueueTimeout, QueueTimesOut, Drain,
    QueueStopTimeout, ContainDone, CleanupStep, StopBegin, StopReturns, StopDone,
    DeinitBegin, DeinitReturns, RollbackDone, StopFinished, Uncontained, recordVars

(* The executor whose queue is taken down has no work left.                *)
LEMMA QueueDown ==
    ASSUME IInv, NEW t \in Callers,
           \/ QueueStopped(t)
           \/ ((QueueTimeout(t) \/ QueueStopTimeout(t)) /\ idx[t] \in AbortOnTimeout)
    PROVE  /\ idx[t] \in Executors
           /\ queue' = [queue EXCEPT ![idx[t]] = "Stopped"]
           /\ prepared' = [prepared EXCEPT ![idx[t]] = FALSE]
           /\ \A r \in Registrations : work'[r] => work[r] /\ Target[r] # idx[t]
<1>1. idx[t] \in Executors
    BY Zenon DEF QueueStopped, QueueTimeout, QueueStopTimeout, IInv, PlacesOK, PlaceOK
<1>2. CASE QueueStopped(t)
    BY Zenon, <1>1, <1>2 DEF QueueStopped, Contained, TargetedAt
<1>3. CASE (QueueTimeout(t) \/ QueueStopTimeout(t)) /\ idx[t] \in AbortOnTimeout
  <2>1. QueueTimesOut(t, idx[t]) BY Zenon, <1>3 DEF QueueTimeout, QueueStopTimeout
  <2> QED BY Zenon, <1>1, <1>3, <2>1 DEF QueueTimesOut, Contained
<1> QED BY Zenon, <1>2, <1>3

(* Open queues stay with prepared executors, caller by caller, ...         *)
LEMMA QueueLiveEngine ==
    ASSUME IInv, QueueLive, NEW t \in Callers, Boot(t) \/ Stop(t) \/ EngineStep(t)
    PROVE  QueueLive'
<1>1. PICK c : c = idx[t] OBVIOUS
<1>2. TypeOK /\ PlaceOK(pc[t], c) BY Zenon, <1>1, Place DEF IInv
<1>3. \A u \in Callers \ {t} : pc'[u] = "Idle"
    BY Zenon, OthersIdle DEF IInv
<1>4. \A u \in Callers : pc'[u] \in {"Drain", "QueueStop"} => prepared'[idx'[u]]
  <2>1. SUFFICES ASSUME pc'[t] \in {"Drain", "QueueStop"} PROVE prepared'[idx'[t]]
    BY Zenon, <1>3
  <2>2. (QueueQuiescent(t) \/ Drain(t)) /\ idx'[t] = idx[t]
    BY Zenon, <2>1, Arrivals
  <2>3. prepared[idx[t]] /\ UNCHANGED prepared
    BY Zenon, <2>2 DEF QueueQuiescent, Drain, QueueLive, recordVars
  <2> QED BY Zenon, <2>1, <2>3, Arrivals
<1>5. \A e \in Executors : queue[e] \in OpenQueue => prepared[e]
    BY Zenon DEF QueueLive
<1>6. \A r \in Registrations : Target[r] # SystemWorkQueue => Target[r] \in Executors
    BY Zenon, ExecutionAssumption
<1>7. CASE UNCHANGED <<queue, prepared, work>>
    BY Zenon, <1>4, <1>7 DEF QueueLive
<1>8. CASE PrepareSucceeds(t)
  <2>1. /\ \A e \in Executors : queue'[e] = IF e = c THEN "Started" ELSE queue[e]
        /\ \A e \in Executors : prepared'[e] = (e = c \/ prepared[e])
        /\ UNCHANGED work
    BY Zenon, <1>1, <1>2, <1>8, OwnersAreComponents DEF PrepareSucceeds, TypeOK, RecordTypeOK
  <2> QED BY Zenon, <1>4, <1>6, <2>1 DEF QueueLive, OpenQueue
<1>9. CASE Drain(t)
  <2>1. /\ \A e \in Executors : queue'[e] = IF e = c THEN "Plugged" ELSE queue[e]
        /\ UNCHANGED <<prepared, work>> /\ prepared[c]
    BY Zenon, <1>1, <1>2, <1>9 DEF Drain, QueueLive, recordVars, TypeOK, ExecutionTypeOK
  <2> QED BY Zenon, <1>4, <1>6, <2>1 DEF QueueLive, OpenQueue
<1>10. CASE \/ QueueStopped(t)
            \/ ((QueueTimeout(t) \/ QueueStopTimeout(t)) /\ idx[t] \in AbortOnTimeout)
  <2>0. /\ queue' = [queue EXCEPT ![c] = "Stopped"]
        /\ prepared' = [prepared EXCEPT ![c] = FALSE]
        /\ \A r \in Registrations : work'[r] => work[r] /\ Target[r] # c
    BY Zenon, <1>1, <1>10, QueueDown
  <2>1. /\ \A e \in Executors : queue'[e] = IF e = c THEN "Stopped" ELSE queue[e]
        /\ \A e \in Executors \ {c} : prepared'[e] = prepared[e]
        /\ \A r \in Registrations : work'[r] => work[r] /\ Target[r] # c
    BY Zenon, <1>2, <2>0, OwnersAreComponents DEF TypeOK, RecordTypeOK, ExecutionTypeOK
  <2> QED BY Zenon, <1>4, <1>6, <2>1 DEF QueueLive, OpenQueue
<1>11. CASE (Join(t) \/ Forced(t)) /\ UNCHANGED <<queue, work>>
  <2>1. c \notin Executors /\ prepared' = [prepared EXCEPT ![c] = FALSE]
    BY Zenon, <1>1, <1>2, <1>11, ExecutionAssumption DEF Join, Forced, Contained, PlaceOK
  <2>2. \A e \in Executors : prepared'[e] = prepared[e]
    BY Zenon, <1>2, <2>1, OwnersAreComponents DEF TypeOK, RecordTypeOK
  <2> QED BY Zenon, <1>4, <1>11, <2>2 DEF QueueLive
<1>12. Join(t) \/ Forced(t) => UNCHANGED <<queue, work>>
    BY Zenon DEF Join, Forced, workVars
<1> QED BY Zenon, <1>2, <1>7, <1>8, <1>9, <1>10, <1>11, <1>12, PreparedEffect, WorkEffect

(* ... and in every step.                                                  *)
LEMMA QueueLiveStep ==
    ASSUME IInv, QueueLive, [Next]_vars
    PROVE  QueueLive'
<1>1. CASE \E t \in Callers : Boot(t) \/ Stop(t) \/ EngineStep(t)
    BY Zenon, <1>1, QueueLiveEngine
<1>2. CASE \/ \E s \in Services : ServiceStep(s)
           \/ \E r \in Registrations : WorkStep(r)
           \/ UNCHANGED vars
  <2>1. UNCHANGED <<pc, idx, prepared, queue>>
    BY Zenon, <1>2, OutsideMoves
  <2>2. \A r \in Registrations : work'[r] => work[r] \/ QueueTakes(r)
    BY Zenon, <1>2 DEF ServiceStep, ReportStep, ThreadRun, RunReturns, ReportLock, ReportRecord,
        ReportSystem, WorkStep, SubmitCheck, SubmitNative, WorkDone, vars, workVars,
        IInv, TypeOK, ExecutionTypeOK
  <2> QED BY Zenon, <2>1, <2>2 DEF QueueLive, QueueTakes, OpenQueue
<1> QED BY Zenon, <1>1, <1>2 DEF Next

(* A component stops being usable only by a teardown that may reach it.    *)
LEMMA UsableKept ==
    ASSUME IInv, Phase, NEW t \in Callers, Boot(t) \/ Stop(t) \/ EngineStep(t),
           bootReport.final = "Running", NEW d \in Components, Usable(d)
    PROVE  Usable(d)' \/ (pc[t] \in TeardownPcs /\ ~blocked[d])
<1>1. PICK c : c = idx[t] OBVIOUS
<1>2. TypeOK /\ PlaceOK(pc[t], c) /\ TeardownAt(pc[t], c) BY Zenon, <1>1, Place DEF IInv
<1>3. CASE UNCHANGED <<inited, started, calls>>
    BY Zenon, <1>3 DEF Usable
<1>4. CASE BootStep(t)
  <2>1. pc[t] \notin BootPcs \ ActivationPcs BY Zenon, BeforeCommit
  <2>2. SysActivate(t) \/ Activate(t) \/ ActivateDone(t)
    BY Zenon, <1>4, <2>1 DEF BootStep, BootPcs, ActivationPcs, InitBegin, InitSucceeds, InitFails,
        InitDone, StartBegin, StartSucceeds, StartFails, PrepareSucceeds, PrepareFails, StartDone,
        GatePasses, GateFails, Validate, Run
  <2> QED BY Zenon, <1>3, <2>2 DEF SysActivate, Activate, ActivateDone, recordVars
<1>5. CASE ContainStep(t) \/ Boot(t) \/ Stop(t)
    BY Zenon, <1>3, <1>5 DEF Boot, Stop, ContainStep, SysRequest, SysQuiescent, SysTimeout,
        SysContainDone, Request, RequestDone, ContainSkip, Join, JoinUnstarted, JoinTimeout, Abort,
        Forced, QueueQuiescent, QueueTimeout, QueueTimesOut, Drain, QueueStopped, QueueStopTimeout,
        ContainDone, Contained, Uncontained, recordVars
<1>6. CASE StopDone(t) \/ RollbackDone(t) \/ StopFinished(t)
    BY Zenon, <1>3, <1>6 DEF StopDone, RollbackDone, StopFinished, recordVars
<1>7. CASE StopReturns(t) \/ DeinitReturns(t)
  <2>1. CASE d = c
    BY Zenon, <1>2, <1>7, <2>1 DEF StopReturns, DeinitReturns, TeardownAt, TeardownPcs
  <2>2. CASE d # c
    <3>1. inited'[d] = inited[d] /\ started'[d] = started[d] /\ UNCHANGED calls
      BY Zenon, <1>1, <1>2, <1>7, <2>2 DEF StopReturns, DeinitReturns, TypeOK, RecordTypeOK
    <3> QED BY Zenon, <3>1 DEF Usable
  <2> QED BY Zenon, <2>1, <2>2
<1>8. CASE StopBegin(t) \/ DeinitBegin(t)
  <2>1. CASE (StopBegin(t) /\ ~Stops(c)) \/ (DeinitBegin(t) /\ ~Deinits(c))
    BY Zenon, <1>1, <1>3, <2>1 DEF StopBegin, DeinitBegin
  <2>2. CASE (StopBegin(t) /\ Stops(c)) \/ (DeinitBegin(t) /\ Deinits(c))
    <3>1. c \in Components /\ ~blocked[c] /\ pc[t] \in TeardownPcs
      BY <1>1, <1>2, <2>2, Sizes DEF StopBegin, DeinitBegin, Stops, Deinits, More, PlaceOK,
          Components, TeardownPcs
    <3>2. PICK h \in Hooks : Called(c, h)
      BY Zenon, <1>1, <2>2 DEF StopBegin, DeinitBegin, Hooks
    <3>3. UNCHANGED <<inited, started>>
      BY Zenon, <2>2 DEF StopBegin, DeinitBegin
    <3>4. CASE d # c
      <4>1. \A g \in Hooks : calls'[d][g] = calls[d][g]
        BY <1>2, <3>1, <3>2, <3>4, CalledEffect
      <4>2. calls'[d]["stop"] = calls[d]["stop"] /\ calls'[d]["deinit"] = calls[d]["deinit"]
        BY Zenon, <4>1 DEF Hooks
      <4> QED BY Zenon, <3>3, <4>2 DEF Usable
    <3> QED BY Zenon, <3>1, <3>4
  <2> QED BY Zenon, <1>8, <2>1, <2>2
<1> QED BY Zenon, <1>4, <1>5, <1>6, <1>7, <1>8 DEF EngineStep, CleanupStep

(* What is preserved stays so, and preserving it shows in the report.      *)
LEMMA BlockedKept ==
    ASSUME TypeOK, NEW t \in Callers, Boot(t) \/ Stop(t) \/ EngineStep(t)
    PROVE  /\ \A c \in Components : blocked[c] => blocked'[c]
           /\ UNCHANGED blocked \/ left'
<1>1. UNCHANGED blocked \/ (left' /\ \E S : Preserve(S))
    BY Zenon DEF Boot, Stop, EngineStep, BootStep, InitBegin, InitSucceeds, InitFails, InitDone,
    StartBegin, StartSucceeds, PrepareSucceeds, StartFails, PrepareFails, StartDone, GatePasses,
    GateFails, Validate, Run, SysActivate, Activate, ActivateDone, ContainStep, SysRequest,
    SysQuiescent, SysTimeout, SysContainDone, Request, RequestDone, ContainSkip, Join,
    JoinUnstarted, JoinTimeout, Abort, Forced, QueueQuiescent, QueueTimeout, QueueTimesOut, Drain,
    QueueStopped, QueueStopTimeout, ContainDone, CleanupStep, StopBegin, StopReturns, StopDone,
    DeinitBegin, DeinitReturns, RollbackDone, StopFinished, Contained, Uncontained, recordVars
<1> QED BY Zenon, <1>1 DEF Preserve

(* Containment moves on with the reach of what it leaves preserved.        *)
LEMMA QueueAtKept ==
    ASSUME IInv, Phase, QueueUsable, bootReport.final = "Running",
           NEW t \in Callers, EngineStep(t)
    PROVE  QueueAt(pc[t], idx[t])'
<1>1. PICK c : c = idx[t] OBVIOUS
<1>2. TypeOK /\ PlaceOK(pc[t], c) /\ QueueAt(pc[t], c)
    BY Zenon, <1>1, Place DEF IInv, QueueUsable
<1>3. \A d \in Components : blocked[d] => blocked'[d]
    BY Zenon, <1>2, BlockedKept
<1>4. ASSUME NEW e \in Executors, NEW d \in Closure(QueueReach(e)), blocked[d]
      PROVE  blocked'[d]
    BY Zenon, <1>3, <1>4, ClosureComponents
<1>5. pc[t] \notin BootPcs \ ActivationPcs BY Zenon, BeforeCommit
<1>6. CASE pc'[t] \notin ContainPcs \cup TeardownPcs
    BY Zenon, <1>6 DEF QueueAt
<1>7. CASE UNCHANGED prepared /\ pc[t] \in TeardownPcs /\ pc'[t] \in TeardownPcs
    BY Zenon, <1>2, <1>4, <1>7 DEF QueueAt
<1>8. CASE UNCHANGED prepared /\ pc[t] \in ContainPcs /\ pc'[t] \in ContainPcs /\ idx'[t] = c
  <2>1. pc'[t] \notin TeardownPcs BY Zenon, <1>8 DEF ContainPcs, TeardownPcs
  <2> QED BY Zenon, <1>2, <1>4, <1>8, <2>1 DEF QueueAt
<1>9. ASSUME c \in Components, pc[t] \in ContainPcs, pc'[t] = "Contain", idx'[t] = c - 1,
             \A e \in Executors : prepared'[e] => prepared[e],
             c \in Executors /\ prepared'[c] => \A d \in Closure(QueueReach(c)) : blocked'[d]
      PROVE  QueueAt(pc[t], idx[t])'
  <2>1. \A e \in Executors : e > c - 1 => e = c \/ e > c
    BY <1>9, Sizes, OwnersAreComponents DEF Components
  <2>2. pc'[t] \notin TeardownPcs BY Zenon, <1>9 DEF TeardownPcs
  <2> QED BY Zenon, <1>2, <1>4, <1>9, <2>1, <2>2 DEF QueueAt
<1>10. ASSUME c \in Components, pc[t] \in ContainPcs, NEW ok, Contained(t, c, ok)
       PROVE  QueueAt(pc[t], idx[t])'
  <2>1. \A e \in Components : prepared'[e] = (prepared[e] /\ e # c)
    BY Zenon, <1>2, <1>10 DEF Contained, TypeOK, RecordTypeOK
  <2>2. pc'[t] = "Contain" /\ idx'[t] = c - 1
    BY Zenon, <1>2, <1>10, GoesTo DEF Contained
  <2> QED BY Zenon, <1>9, <1>10, <2>1, <2>2, OwnersAreComponents
<1>11. ASSUME c \in Components, pc[t] \in ContainPcs, NEW reach, Uncontained(t, c, reach),
              c \in Executors => reach = QueueReach(c)
       PROVE  QueueAt(pc[t], idx[t])'
  <2>1. UNCHANGED prepared /\ Preserve(reach)
    BY Zenon, <1>11 DEF Uncontained
  <2>2. pc'[t] = "Contain" /\ idx'[t] = c - 1
    BY Zenon, <1>2, <1>11, GoesTo DEF Uncontained
  <2>3. \A d \in Closure(reach) : blocked'[d]
    BY Zenon, <2>1, ClosureComponents DEF Preserve
  <2> QED BY Zenon, <1>9, <1>11, <2>1, <2>2, <2>3
<1>12. CASE BootStep(t)
  <2>1. pc'[t] \in ActivationPcs \cup {"Idle"}
    BY Zenon, <1>2, <1>5, <1>12, GoesTo DEF BootStep, BootPcs, ActivationPcs, InitBegin,
        InitSucceeds, InitFails, InitDone, StartBegin, StartSucceeds, StartFails, PrepareSucceeds,
        PrepareFails, StartDone, GatePasses, GateFails, Validate, Run, SysActivate, Activate, ActivateDone
  <2> QED BY Zenon, <1>6, <2>1 DEF ActivationPcs, ContainPcs, TeardownPcs
<1>13. CASE CleanupStep(t)
  <2>1. UNCHANGED prepared /\ pc[t] \in TeardownPcs
    BY Zenon, <1>13 DEF CleanupStep, StopBegin, StopReturns, StopDone, DeinitBegin, DeinitReturns,
        RollbackDone, StopFinished, recordVars, TeardownPcs
  <2>2. \E p \in TeardownPcs \cup {"Idle"} : \E i : Goto(t, p, i)
    BY Zenon, <1>13 DEF CleanupStep, StopBegin, StopReturns, StopDone, DeinitBegin, DeinitReturns,
        RollbackDone, StopFinished, TeardownPcs
  <2>3. pc'[t] \in TeardownPcs \cup {"Idle"} BY Zenon, <1>2, <2>2, GoesTo
  <2> QED BY Zenon, <1>6, <1>7, <2>1, <2>3 DEF ContainPcs, TeardownPcs
<1>14. CASE ContainStep(t)
  <2>1. CASE SysRequest(t) \/ SysQuiescent(t) \/ SysTimeout(t) \/ SysContainDone(t) \/ Request(t)
    <3>1. \E p \in {"SysContain", "Request"} : \E i : Goto(t, p, i)
      BY Zenon, <2>1 DEF SysRequest, SysQuiescent, SysTimeout, SysContainDone, Request
    <3>2. pc'[t] \in {"SysContain", "Request"} BY Zenon, <1>2, <3>1, GoesTo
    <3> QED BY Zenon, <1>6, <3>2 DEF ContainPcs, TeardownPcs
  <2>2. CASE RequestDone(t)
    <3>1. pc'[t] = "Contain" /\ idx'[t] = N BY Zenon, <1>2, <2>2, GoesTo DEF RequestDone
    <3>2. \A e \in Executors : ~(e > N) BY Sizes, OwnersAreComponents DEF Components
    <3> QED BY Zenon, <3>1, <3>2 DEF QueueAt, TeardownPcs
  <2>3. CASE ContainSkip(t)
    <3>1. c \in Components /\ pc[t] \in ContainPcs /\ ~prepared[c] /\ UNCHANGED prepared
      BY <1>1, <1>2, <2>3, Sizes DEF ContainSkip, PlaceOK, Components, More, ContainPcs, recordVars
    <3>2. pc'[t] = "Contain" /\ idx'[t] = c - 1 BY Zenon, <1>1, <1>2, <2>3, GoesTo DEF ContainSkip
    <3> QED BY Zenon, <1>9, <3>1, <3>2
  <2>4. CASE Join(t) \/ Forced(t) \/ QueueStopped(t)
    <3>1. c \in Components /\ pc[t] \in ContainPcs
      BY Zenon, <1>1, <1>2, <2>4, OwnersAreComponents DEF Join, Forced, QueueStopped, PlaceOK, ContainPcs
    <3>2. \E ok : Contained(t, c, ok) BY Zenon, <1>1, <2>4 DEF Join, Forced, QueueStopped
    <3> QED BY Zenon, <1>10, <3>1, <3>2
  <2>5. CASE JoinUnstarted(t) \/ (JoinTimeout(t) /\ c \notin AbortOnTimeout)
    <3>1. c \in Components /\ c \notin Executors /\ pc[t] \in ContainPcs
      BY Zenon, <1>1, <2>5, ExecutionAssumption DEF JoinUnstarted, JoinTimeout, ContainPcs
    <3>2. Uncontained(t, c, {c}) BY Zenon, <1>1, <2>5 DEF JoinUnstarted, JoinTimeout
    <3> QED BY Zenon, <1>11, <3>1, <3>2
  <2>6. CASE QueueTimeout(t) \/ QueueStopTimeout(t)
    <3>1. c \in Components /\ c \in Executors /\ pc[t] \in ContainPcs /\ QueueTimesOut(t, c)
      BY Zenon, <1>1, <1>2, <2>6, OwnersAreComponents
         DEF QueueTimeout, QueueStopTimeout, PlaceOK, ContainPcs
    <3> QED BY Zenon, <1>10, <1>11, <3>1 DEF QueueTimesOut
  <2>7. CASE (JoinTimeout(t) /\ c \in AbortOnTimeout) \/ Abort(t) \/ QueueQuiescent(t) \/ Drain(t)
    <3>1. UNCHANGED prepared /\ pc[t] \in ContainPcs /\ \E p \in ContainPcs : Goto(t, p, c)
      BY Zenon, <1>1, <2>7 DEF JoinTimeout, Abort, QueueQuiescent, Drain, ContainPcs, recordVars
    <3>2. pc'[t] \in ContainPcs /\ idx'[t] = c BY Zenon, <1>2, <3>1, GoesTo
    <3> QED BY Zenon, <1>8, <3>1, <3>2
  <2>8. CASE ContainDone(t)
    <3>1. pc'[t] = "Stop" /\ UNCHANGED prepared /\ pc[t] \in ContainPcs /\ c = 0
      BY Zenon, <1>1, <1>2, <2>8, GoesTo DEF ContainDone, ContainPcs, recordVars
    <3>2. \A e \in Executors : e > c BY <3>1, Sizes, OwnersAreComponents DEF Components
    <3> QED BY Zenon, <1>2, <1>4, <3>1, <3>2 DEF QueueAt
  <2> QED BY Zenon, <1>14, <2>1, <2>2, <2>3, <2>4, <2>5, <2>6, <2>7, <2>8 DEF ContainStep
<1> QED BY Zenon, <1>12, <1>13, <1>14 DEF EngineStep

(* What an open queue reaches stays usable.                                *)
LEMMA QueueUsableStep ==
    ASSUME IInv, IInv', Phase, Phase', QueueUsable, [Next]_vars
    PROVE  QueueUsable'
<1>1. SUFFICES ASSUME bootReport'.final = "Running"
               PROVE  /\ \A e \in Executors : prepared'[e] =>
                             \A c \in Closure(QueueReach(e)) : Usable(c)'
                      /\ \A t \in Callers : QueueAt(pc[t], idx[t])'
    BY Zenon DEF QueueUsable, Closure, DependencyClosed, QueueReach, TargetedAt, Registrations, Components
<1>2. CASE \E t \in Callers : Boot(t) \/ Stop(t) \/ EngineStep(t)
  <2>1. PICK t \in Callers : Boot(t) \/ Stop(t) \/ EngineStep(t) BY Zenon, <1>2
  <2>2. \A u \in Callers \ {t} : pc'[u] = "Idle"
    BY Zenon, <2>1, OthersIdle DEF IInv
  <2>3. \A u \in Callers \ {t} : QueueAt(pc[u], idx[u])'
    BY Zenon, <2>2 DEF QueueAt, ContainPcs, TeardownPcs
  <2>4. CASE bootReport.final # "Running"
    <3>1. EngineStep(t)
      BY Zenon, <1>1, <2>1, <2>4 DEF Boot, Stop
    <3>2. Move(t) BY Zenon, <3>1, EngineMoves DEF IInv
    <3>3. pc'[t] \in ActivationPcs
      BY <1>1, <2>4, <3>2 DEF Move
    <3>4. BootAt(pc[t], idx[t])' BY Zenon DEF IInv, BootProgress
    <3>5. \A c \in Components : Usable(c)'
      BY Zenon, <3>3, <3>4 DEF BootAt, ActivationPcs
    <3>6. QueueAt(pc[t], idx[t])'
      BY Zenon, <3>3 DEF QueueAt, ActivationPcs, ContainPcs, TeardownPcs
    <3> QED BY Zenon, <2>3, <3>5, <3>6, ClosureComponents
  <2>5. CASE bootReport.final = "Running"
    <3>1. QueueAt(pc[t], idx[t])'
      <4>1. CASE EngineStep(t) BY Zenon, <2>5, <4>1, QueueAtKept
      <4>2. CASE Boot(t) \/ Stop(t)
        <5>1. pc'[t] \in {"Init", "SysRequest"}
          BY Zenon, <4>2, GoesTo DEF Boot, Stop, IInv
        <5> QED BY Zenon, <5>1 DEF QueueAt, ContainPcs, TeardownPcs
      <4> QED BY Zenon, <2>1, <4>1, <4>2
    <3>2. ~PrepareSucceeds(t)
      BY Zenon, <2>5, BeforeCommit DEF PrepareSucceeds, BootPcs, ActivationPcs
    <3>3. \A e \in Executors : prepared'[e] => prepared[e]
      BY Zenon, <2>1, <3>2, RecordEffect, OwnersAreComponents DEF IInv
    <3>4. ASSUME NEW e \in Executors, prepared[e], NEW c \in Closure(QueueReach(e))
          PROVE  Usable(c)'
      <4>1. c \in Components /\ Usable(c)
        BY Zenon, <2>5, <3>4, ClosureComponents DEF QueueUsable
      <4>2. pc[t] \in TeardownPcs => blocked[c]
        BY Zenon, <2>5, <3>4 DEF QueueUsable, QueueAt
      <4> QED BY Zenon, <2>1, <2>5, <4>1, <4>2, UsableKept
    <3> QED BY Zenon, <2>3, <3>1, <3>3, <3>4
  <2> QED BY Zenon, <2>4, <2>5
<1>3. CASE \/ \E s \in Services : ServiceStep(s)
           \/ \E r \in Registrations : WorkStep(r)
           \/ UNCHANGED vars
  <2>1. UNCHANGED <<pc, idx, bootReport, inited, started, prepared, blocked, calls>>
    BY Zenon, <1>3, OutsideMoves
  <2>2. \A t \in Callers : QueueAt(pc[t], idx[t])'
    BY Zenon, <1>1, <2>1 DEF QueueUsable, QueueAt
  <2> QED BY Zenon, <1>1, <2>1, <2>2 DEF QueueUsable, Usable
<1> QED BY Zenon, <1>2, <1>3 DEF Next
----------------------------------------------------------------------------
(***************************************************************************)
(* Rollback.                                                               *)
(***************************************************************************)
(* The step by which a caller arrives at the last loop of a teardown.      *)
LEMMA DeinitArrivals ==
    ASSUME IInv, NEW t \in Callers, Boot(t) \/ Stop(t) \/ EngineStep(t),
           pc'[t] \in {"Deinit", "DeinitHook"}
    PROVE  InitFails(t) \/ StopDone(t) \/ DeinitBegin(t) \/ DeinitReturns(t)
<1>1. \A p, i : Goto(t, p, i) => pc'[t] = p
    BY Zenon, GoesTo DEF IInv
<1>2. CASE Boot(t) \/ Stop(t)
  <2>1. pc'[t] \in {"Init", "SysRequest"}
    BY Zenon, <1>1, <1>2 DEF Boot, Stop
  <2> QED BY Zenon, <2>1
<1>3. CASE BootStep(t) /\ ~InitFails(t)
  <2>1. \E p \in Pcs \ {"Deinit", "DeinitHook"} : \E i : Goto(t, p, i)
    BY Zenon, <1>3 DEF BootStep, InitBegin, InitSucceeds, InitDone, StartBegin, StartSucceeds,
        StartFails, PrepareSucceeds, PrepareFails, StartDone, GatePasses, GateFails, Validate, Run,
        SysActivate, Activate, ActivateDone, BeginRollback, Pcs, BootPcs, CleanupPcs
  <2> QED BY Zenon, <1>1, <2>1
<1>4. CASE ContainStep(t)
  <2>1. \E p \in Pcs \ {"Deinit", "DeinitHook"} : \E i : Goto(t, p, i)
    BY Zenon, <1>4 DEF ContainStep, SysRequest, SysQuiescent, SysTimeout, SysContainDone, Request,
        RequestDone, ContainSkip, Join, JoinUnstarted, JoinTimeout, Abort, Forced, QueueQuiescent,
        QueueTimeout, QueueTimesOut, Drain, QueueStopped, QueueStopTimeout, ContainDone,
        Contained, Uncontained, Pcs, BootPcs, CleanupPcs
  <2> QED BY Zenon, <1>1, <2>1
<1>5. CASE StopBegin(t) \/ StopReturns(t) \/ RollbackDone(t) \/ StopFinished(t)
  <2>1. \E p \in {"Stop", "StopHook", "Idle"} : \E i : Goto(t, p, i)
    BY Zenon, <1>5 DEF StopBegin, StopReturns, RollbackDone, StopFinished
  <2> QED BY Zenon, <1>1, <2>1
<1> QED BY Zenon, <1>2, <1>3, <1>4, <1>5 DEF EngineStep, CleanupStep

(* A rollback that preserved nothing left nothing, ...                     *)
LEMMA CleanRollbackEngine ==
    ASSUME IInv, Phase, Barrier, CleanRollback, NEW t \in Callers,
           Boot(t) \/ Stop(t) \/ EngineStep(t)
    PROVE  CleanRollback'
<1>1. PICK c : c = idx[t] OBVIOUS
<1>2. /\ TypeOK /\ PlaceOK(pc[t], c) /\ BootAt(pc[t], c)
      /\ ContainAt(pc[t], c) /\ TeardownAt(pc[t], c)
    BY Zenon, <1>1, Place DEF IInv
<1>3. \A u \in Callers \ {t} : pc'[u] = "Idle"
    BY Zenon, OthersIdle DEF IInv
<1>4. sys' # "Dormant" BY Zenon, NotDormant
<1>5. EngineStep(t) => Move(t) BY Zenon, <1>2, EngineMoves
<1>6. bootReport'.final = "None" => bootReport.final = "None"
  <2>1. CASE Boot(t) \/ Stop(t) BY Zenon, <2>1 DEF Boot, Stop
  <2>2. CASE EngineStep(t) BY <1>5, <2>2 DEF Move
  <2> QED BY Zenon, <2>1, <2>2
<1>7. bootReport'.final = "None" /\ ~left' => \A d \in Components : ~blocked'[d]
  <2>1. SUFFICES ASSUME bootReport.final = "None", bootReport'.final = "None", ~left'
                 PROVE  \A d \in Components : ~blocked'[d]
    BY Zenon, <1>6
  <2>2. UNCHANGED blocked BY Zenon, <1>2, <2>1, BlockedKept
  <2>3. sys = "Dormant" \/ ~left
    <3>1. CASE Boot(t) BY Zenon, <3>1 DEF Boot
    <3>2. CASE Stop(t)
      <4>1. sys \in {"Running", "Failed"} BY Zenon, <3>2 DEF Stop, StopAllowed
      <4> QED BY <2>1, <4>1 DEF Phase, BootStates
    <3>3. CASE EngineStep(t)
      <4>1. UNCHANGED left \/ left'
        BY Zenon, <3>3 DEF EngineStep, BootStep, InitBegin, InitSucceeds, InitFails, InitDone,
            StartBegin, StartSucceeds, PrepareSucceeds, StartFails, PrepareFails, StartDone,
            GatePasses, GateFails, Validate, Run, SysActivate, Activate, ActivateDone, ContainStep,
            SysRequest, SysQuiescent, SysTimeout, SysContainDone, Request, RequestDone, ContainSkip,
            Join, JoinUnstarted, JoinTimeout, Abort, Forced, QueueQuiescent, QueueTimeout,
            QueueTimesOut, Drain, QueueStopped, QueueStopTimeout, ContainDone, CleanupStep,
            StopBegin, StopReturns, StopDone, DeinitBegin, DeinitReturns, RollbackDone,
            StopFinished, Contained, Uncontained, rep
      <4> QED BY Zenon, <2>1, <4>1
    <3> QED BY Zenon, <3>1, <3>2, <3>3
  <2> QED BY Zenon, <2>1, <2>2, <2>3 DEF CleanRollback
<1>8. pc'[t] \in {"Deinit", "DeinitHook"} => \A d \in Components : ~started'[d] \/ blocked'[d]
  <2>1. SUFFICES ASSUME pc'[t] \in {"Deinit", "DeinitHook"}
                 PROVE  \A d \in Components : ~started'[d] \/ blocked'[d]
    BY Zenon
  <2>2. CASE InitFails(t)
    <3>1. \A d \in Components : calls[d]["start"] = 0
      BY Zenon, <1>2, <2>2 DEF InitFails, BootAt
    <3>2. \A d \in Components : ~started[d]
      BY <3>1 DEF Barrier
    <3> QED BY Zenon, <2>2, <3>2 DEF InitFails
  <2>3. CASE StopDone(t)
    <3>1. c = 0 /\ pc[t] = "Stop" BY Zenon, <1>1, <2>3 DEF StopDone
    <3>2. \A d \in Components : d > c BY <3>1, Sizes DEF Components
    <3>3. \A d \in Components : ~started[d] \/ blocked[d]
      BY Zenon, <1>2, <3>1, <3>2 DEF TeardownAt
    <3> QED BY Zenon, <2>3, <3>3 DEF StopDone, recordVars
  <2>4. CASE DeinitBegin(t) \/ DeinitReturns(t)
    BY Zenon, <2>4 DEF DeinitBegin, DeinitReturns, CleanRollback
  <2> QED BY Zenon, <2>1, <2>2, <2>3, <2>4, DeinitArrivals
<1>9. RollbackCompletedMeansClean'
  <2>1. SUFFICES ASSUME bootReport'.final = "Failed", bootReport'.completed
                 PROVE  \A d \in Components : ~inited'[d] /\ ~started'[d] /\ ~prepared'[d]
    BY Zenon DEF RollbackCompletedMeansClean, HasResources
  <2>2. CASE UNCHANGED bootReport
    <3>1. \A d \in Components : ~inited[d] /\ ~started[d] /\ ~prepared[d]
      BY Zenon, <2>1, <2>2 DEF CleanRollback, RollbackCompletedMeansClean, HasResources
    <3>2. pc[t] \notin BootPcs \ ActivationPcs
      BY Zenon, <2>1, <2>2, BeforeCommit
    <3>3. ~InitSucceeds(t) /\ ~StartSucceeds(t) /\ ~PrepareSucceeds(t)
      BY Zenon, <3>2 DEF InitSucceeds, StartSucceeds, PrepareSucceeds, BootPcs, ActivationPcs
    <3> QED BY Zenon, <1>2, <3>1, <3>3, RecordEffect
  <2>3. CASE RollbackDone(t)
    <3>1. pc[t] = "Deinit" /\ c = 0 /\ op = "boot" /\ UNCHANGED <<inited, started, prepared>>
      BY Zenon, <1>1, <2>3 DEF RollbackDone, recordVars
    <3>2. ~left BY <2>1, <2>3 DEF RollbackDone
    <3>3. bootReport.final = "None"
      <4>1. PhaseAt(pc[t]) BY Zenon DEF Phase
      <4> QED BY <3>1, <4>1 DEF Phase, PhaseAt, CleanupPcs, BootStates
    <3>4. \A d \in Components : ~blocked[d]
      BY Zenon, <3>2, <3>3 DEF CleanRollback
    <3>5. \A d \in Components : d > c BY <3>1, Sizes DEF Components
    <3>6. \A d \in Components : ~inited[d]
      BY Zenon, <1>2, <3>1, <3>4, <3>5 DEF TeardownAt
    <3>7. \A d \in Components : ~started[d]
      BY Zenon, <3>1, <3>4 DEF CleanRollback
    <3>8. \A d \in Components : d \in Closure({d})
      BY Zenon, ClosureContains
    <3>9. \A d \in Components : ~prepared[d]
      BY Zenon, <1>2, <3>1, <3>4, <3>8 DEF ContainAt, TeardownPcs
    <3> QED BY Zenon, <3>1, <3>6, <3>7, <3>9
  <2>4. UNCHANGED bootReport \/ RollbackDone(t)
    <3>1. CASE Boot(t) \/ Stop(t) BY Zenon, <3>1 DEF Boot, Stop
    <3>2. CASE EngineStep(t)
      <4>1. ~Run(t)
        <5>1. ASSUME Run(t) PROVE FALSE
          <6>1. bootReport'.final = "Running" BY <5>1 DEF Run
          <6> QED BY Zenon, <2>1, <6>1
        <5> QED BY Zenon, <5>1
      <4> QED BY Zenon, <3>2, <4>1 DEF EngineStep, BootStep, InitBegin, InitSucceeds, InitFails,
            InitDone, StartBegin, StartSucceeds, PrepareSucceeds, StartFails, PrepareFails,
            StartDone, GatePasses, GateFails, Validate, SysActivate, Activate, ActivateDone,
            ContainStep, SysRequest, SysQuiescent, SysTimeout, SysContainDone, Request, RequestDone,
            ContainSkip, Join, JoinUnstarted, JoinTimeout, Abort, Forced, QueueQuiescent,
            QueueTimeout, QueueTimesOut, Drain, QueueStopped, QueueStopTimeout, ContainDone,
            CleanupStep, StopBegin, StopReturns, StopDone, DeinitBegin, DeinitReturns,
            StopFinished, Contained, Uncontained
    <3> QED BY Zenon, <3>1, <3>2
  <2> QED BY Zenon, <2>2, <2>3, <2>4
<1>10. \A u \in Callers : pc'[u] \in {"Deinit", "DeinitHook"} =>
           \A d \in Components : ~started'[d] \/ blocked'[d]
    BY Zenon, <1>3, <1>8
<1> QED BY Zenon, <1>4, <1>7, <1>9, <1>10 DEF CleanRollback

(* ... and no other step makes it something.                               *)
LEMMA CleanRollbackStep ==
    ASSUME IInv, Phase, Barrier, CleanRollback, [Next]_vars
    PROVE  CleanRollback'
<1>1. CASE \E t \in Callers : Boot(t) \/ Stop(t) \/ EngineStep(t)
    BY Zenon, <1>1, CleanRollbackEngine
<1>2. CASE \/ \E s \in Services : ServiceStep(s)
           \/ \E r \in Registrations : WorkStep(r)
           \/ UNCHANGED vars
  <2>1. UNCHANGED <<pc, left, bootReport, inited, started, prepared, blocked>>
    BY Zenon, <1>2, OutsideMoves
  <2>2. sys' = "Dormant" => sys = "Dormant"
    BY Zenon, <1>2, OutsideMoves
  <2>3. RollbackCompletedMeansClean'
    BY Zenon, <2>1 DEF CleanRollback, RollbackCompletedMeansClean, HasResources
  <2> QED BY Zenon, <2>1, <2>2, <2>3 DEF CleanRollback
<1> QED BY Zenon, <1>1, <1>2 DEF Next
----------------------------------------------------------------------------
(* OutcomeInv holds initially, ...                                         *)
LEMMA OutcomeInit ==
    ASSUME Init
    PROVE  OutcomeInv
<1>1. Phase
    BY DEF Init, Phase, PhaseAt, BootStates, BootPcs, CleanupPcs, ActivationPcs
<1>2. Barrier
  <2>1. Quiet BY Zenon DEF Init, Quiet, AdmissionAtConstruction
  <2>2. \A c \in Components : ~started[c] /\ ~prepared[c] BY Zenon DEF Init
  <2>3. \A t \in Callers : pc[t] = "Idle" BY Zenon DEF Init
  <2>4. bootReport.final = "None" BY DEF Init
  <2>5. "None" # "Running" /\ "Idle" \notin {"StartHook", "Prepare"} /\ "Idle" # "Abort" OBVIOUS
  <2> QED BY Zenon, <2>1, <2>2, <2>3, <2>4, <2>5, ExecutionAssumption DEF Barrier
<1>3. Reported
    BY DEF Init, Reported, ServiceFailureVisible
<1>4. QueueLive
    BY DEF Init, QueueLive, OpenQueue
<1>5. QueueUsable
    BY DEF Init, QueueUsable
<1>6. CleanRollback
    BY DEF Init, CleanRollback, RollbackCompletedMeansClean
<1> QED BY Zenon, <1>1, <1>2, <1>3, <1>4, <1>5, <1>6 DEF OutcomeInv

(* ... and every step preserves it.                                        *)
LEMMA OutcomeStep ==
    ASSUME IInv, OutcomeInv, [Next]_vars
    PROVE  OutcomeInv'
<1>1. IInv' BY Zenon, InvStep
<1>2. Phase' BY Zenon, PhaseStep DEF OutcomeInv
<1>3. Barrier' /\ Reported' /\ QueueLive' /\ CleanRollback'
    BY Zenon, BarrierStep, ReportedStep, QueueLiveStep, CleanRollbackStep DEF OutcomeInv
<1>4. QueueUsable' BY Zenon, <1>1, <1>2, QueueUsableStep DEF OutcomeInv
<1> QED BY Zenon, <1>2, <1>3, <1>4 DEF OutcomeInv

(* OutcomeInv holds in every reachable state, for every graph, assignment  *)
(* of services, executors and registrations, and set of callers.           *)
THEOREM OutcomesInvariant == Spec => []OutcomeInv
<1>1. Init => OutcomeInv BY Zenon, OutcomeInit
<1>2. IInv /\ OutcomeInv /\ [Next]_vars => OutcomeInv' BY Zenon, OutcomeStep
<1> QED BY <1>1, <1>2, Inductive, PTL DEF Spec

(* Nothing that can still run, service or work on an executor's queue,     *)
(* late submissions included, finds a dependency stopped or deinitialized  *)
(* (contain_service, contain_executor, mark_dependency_closure).           *)
THEOREM DependenciesStayUsable == Spec => []DependenciesUsable
<1>1. ASSUME OutcomeInv PROVE ExecutorWorkKeepsDependencies
  <2> SUFFICES ASSUME NEW r \in Registrations, work[r], Target[r] # SystemWorkQueue,
                      NEW c \in Closure(RegDeps[r])
               PROVE  Usable(c)
    BY Zenon DEF ExecutorWorkKeepsDependencies
  <2>1. Target[r] \in Executors BY Zenon, ExecutionAssumption
  <2>2. prepared[Target[r]] BY Zenon, <1>1, <2>1 DEF OutcomeInv, QueueLive
  <2>3. bootReport.final = "Running" BY Zenon, <1>1 DEF OutcomeInv, Barrier, Quiet
  <2>4. RegDeps[r] \subseteq QueueReach(Target[r]) BY Zenon DEF QueueReach, TargetedAt
  <2>5. c \in Closure(QueueReach(Target[r])) BY Zenon, <2>4, ClosureMonotone
  <2> QED BY Zenon, <1>1, <2>1, <2>2, <2>3, <2>5 DEF OutcomeInv, QueueUsable
<1>2. RunningServiceKeepsDependencies /\ OutcomeInv => DependenciesUsable
    BY Zenon, <1>1 DEF DependenciesUsable
<1> QED BY <1>2, DependenciesKept, OutcomesInvariant, PTL

(* Hooks are called in the order of the graph, each of them once, however  *)
(* boot() and stop() race and repeat (engine.hpp: initialize_component,    *)
(* start_component, stop_component, deinitialize_component).               *)
THEOREM HooksAreSound == Spec => []HooksSound
<1>1. HookOrder /\ HooksCalledOnce => HooksSound BY Zenon DEF HooksSound
<1> QED BY <1>1, HooksOrdered, HooksOnce, PTL

(* No service body and no registered behaviour runs before boot() has      *)
(* committed to Running with every start() called (engine.hpp boot).       *)
THEOREM BarrierHolds == Spec => []ActivationBarrier
<1>1. OutcomeInv => ActivationBarrier
    BY Zenon DEF OutcomeInv, Barrier, Quiet, ActivationBarrier
<1> QED BY <1>1, OutcomesInvariant, PTL

(* A service that failed shows in its record and in the system state, and  *)
(* a rollback that reports completion left nothing initialized, started or *)
(* prepared (report_execution_failure, rollback).                          *)
THEOREM FailuresAreVisible == Spec => []FailuresVisible
<1>1. OutcomeInv => FailuresVisible
    BY Zenon DEF OutcomeInv, Reported, CleanRollback, FailuresVisible
<1> QED BY <1>1, OutcomesInvariant, PTL

(* Running is entered from Starting only, a stopped system stays stopped,  *)
(* nothing returns to Dormant and a failed system can only be stopped,     *)
(* whatever the services report meanwhile (engine.hpp, publish_state).     *)
THEOREM StateProgress == Spec => SystemStateProgress
<1>1. ASSUME IInv, OutcomeInv, [Next]_vars PROVE AlongLifecycle \/ UNCHANGED sys
  <2>1. CASE \E t \in Callers : Boot(t) \/ Stop(t) \/ EngineStep(t)
    <3>1. PICK t \in Callers : Boot(t) \/ Stop(t) \/ EngineStep(t) BY Zenon, <2>1
    <3>2. CASE Boot(t)
      <4>1. sys = "Dormant" /\ sys' = "Initializing" BY Zenon, <3>2 DEF Boot
      <4> QED BY <4>1 DEF AlongLifecycle
    <3>3. CASE Stop(t)
      <4>1. sys \in {"Running", "Failed"} /\ sys' = "Stopping" BY Zenon, <3>3 DEF Stop, StopAllowed
      <4> QED BY <4>1 DEF AlongLifecycle
    <3>4. CASE EngineStep(t)
      <4>1. Move(t) BY Zenon, <1>1, <3>4, EngineMoves DEF IInv
      <4>2. PhaseAt(pc[t]) BY Zenon, <1>1 DEF OutcomeInv, Phase
      <4>3. sys' # "Dormant" BY Zenon, <1>1, <3>4, NotDormant
      <4> QED BY <4>1, <4>2, <4>3
          DEF Move, PhaseAt, AlongLifecycle, StartPcs, BootPcs, ActivationPcs, CleanupPcs
    <3> QED BY Zenon, <3>1, <3>2, <3>3, <3>4
  <2>2. CASE \/ \E s \in Services : ServiceStep(s)
             \/ \E r \in Registrations : WorkStep(r)
             \/ UNCHANGED vars
    <3>1. sys' = sys \/ (sys \in ReportedStates /\ sys' = "Failed") BY Zenon, <2>2, OutsideMoves
    <3> QED BY <3>1 DEF AlongLifecycle, ReportedStates
  <2> QED BY Zenon, <1>1, <2>1, <2>2 DEF Next
<1>2. IInv /\ OutcomeInv /\ [Next]_vars => [AlongLifecycle]_sys
    BY Zenon, <1>1
<1> QED BY <1>2, Inductive, OutcomesInvariant, PTL DEF Spec, SystemStateProgress
============================================================================
