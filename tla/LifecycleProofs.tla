-------------------------- MODULE LifecycleProofs --------------------------
(***************************************************************************)
(* What the lifecycle engine promises, for every component graph, every    *)
(* assignment of services, executors and registrations, and any callers:   *)
(* IInv is inductive, and the safety properties follow from it.            *)
(***************************************************************************)
EXTENDS LifecycleTypeProofs

(* The parts of IInv that the steps below preserve; TypeStep and           *)
(* OthersIdle take care of the rest.                                       *)
Kept ==
    /\ Dormancy /\ BlockedClosed /\ BootProgress /\ ContainProgress
    /\ TeardownProgress /\ LiveReach /\ StageOver /\ HooksCalledOnce

(* What a step of the caller t has to show when it goes to place p, i.     *)
LEMMA Arrive ==
    ASSUME TypeOK, NEW t \in Callers, NEW p, NEW i, Goto(t, p, i),
           \A u \in Callers \ {t} : pc'[u] = "Idle",
           BootAt(p, i)', ContainAt(p, i)', TeardownAt(p, i)'
    PROVE  BootProgress' /\ ContainProgress' /\ TeardownProgress'
<1>1. pc'[t] = p /\ idx'[t] = i
    BY Zenon DEF Goto, TypeOK, EngineTypeOK
<1>2. ASSUME NEW u \in Callers \ {t}
      PROVE  BootAt(pc[u], idx[u])' /\ ContainAt(pc[u], idx[u])' /\ TeardownAt(pc[u], idx[u])'
    BY Zenon, <1>2 DEF BootAt, ContainAt, TeardownAt, ContainPcs, TeardownPcs
<1>3. BootAt(pc[t], idx[t])' /\ ContainAt(pc[t], idx[t])' /\ TeardownAt(pc[t], idx[t])'
    BY Zenon, <1>1 DEF BootAt, ContainAt, TeardownAt
<1> QED BY Zenon, <1>2, <1>3 DEF BootProgress, ContainProgress, TeardownProgress

(* A step that changes no record and no thread.                            *)
LEMMA QuietStep ==
    ASSUME IInv, NEW t \in Callers, Boot(t) \/ Stop(t) \/ EngineStep(t),
           UNCHANGED <<inited, started, prepared, blocked, calls, thread>>,
           pc[t] \notin {"StopHook", "DeinitHook"}, sys' # "Dormant",
           NEW p, NEW i, Goto(t, p, i),
           BootAt(p, i), ContainAt(p, i), TeardownAt(p, i)
    PROVE  Kept'
<1>1. BootAt(p, i)' /\ ContainAt(p, i)' /\ TeardownAt(p, i)'
    BY Zenon DEF BootAt, ContainAt, TeardownAt, Untouched, Usable
<1>2. BootProgress' /\ ContainProgress' /\ TeardownProgress'
    BY Zenon, <1>1, Arrive, OthersIdle DEF IInv
<1>3. BlockedClosed' /\ LiveReach' /\ HooksCalledOnce'
    BY Zenon DEF IInv, BlockedClosed, LiveReach, HooksCalledOnce, Usable
<1>4. StageOver'
    BY OthersIdle DEF IInv, StageOver
<1> QED BY Zenon, <1>2, <1>3, <1>4 DEF Kept, Dormancy

(* The caller's place, as a rigid pair.                                    *)
LEMMA Place ==
    ASSUME IInv, NEW t \in Callers, NEW c, c = idx[t]
    PROVE  /\ PlaceOK(pc[t], c) /\ BootAt(pc[t], c)
           /\ ContainAt(pc[t], c) /\ TeardownAt(pc[t], c)
BY Zenon DEF IInv, PlacesOK, BootProgress, ContainProgress, TeardownProgress

(* sys never becomes Dormant, and is not while an operation is under way.  *)
LEMMA NotDormant ==
    ASSUME IInv, NEW t \in Callers, Boot(t) \/ Stop(t) \/ EngineStep(t)
    PROVE  sys' # "Dormant"
<1>1. CASE Boot(t) \/ Stop(t) BY Zenon, <1>1 DEF Boot, Stop
<1>2. CASE EngineStep(t)
  <2>1. sys # "Dormant" BY Zenon, <1>2, StepNotIdle DEF IInv, Dormancy
  <2> QED BY Zenon, <1>2, <2>1 DEF EngineStep, Boot, BootStep, InitBegin, InitSucceeds, InitFails, InitDone, StartBegin,
        StartSucceeds, StartFails, PrepareSucceeds, PrepareFails, StartDone, GatePasses,
        GateFails, Validate, Run, SysActivate, Activate, ActivateDone, BeginRollback,
        Stop, ContainStep, SysRequest, SysQuiescent, SysTimeout, SysContainDone,
        Request, RequestDone, ContainSkip, Join, JoinUnstarted, JoinTimeout, Abort, Forced,
        QueueQuiescent, QueueTimeout, Drain, QueueStopped, QueueStopTimeout, ContainDone,
        Contained, Uncontained, QueueTimesOut,
        CleanupStep, StopBegin, StopReturns, StopDone, DeinitBegin, DeinitReturns,
        RollbackDone, StopFinished, FinalState, Cleaned
<1> QED BY Zenon, <1>1, <1>2

(* The steps of boot() that change no record.                              *)
LEMMA QuietBoot ==
    ASSUME IInv, NEW t \in Callers,
           \/ Boot(t) \/ InitFails(t) \/ InitDone(t) \/ StartFails(t) \/ PrepareFails(t)
           \/ StartDone(t) \/ GatePasses(t) \/ GateFails(t) \/ Validate(t) \/ Run(t)
           \/ SysActivate(t) \/ ActivateDone(t)
           \/ (StartSucceeds(t) /\ idx[t] \in Participants)
    PROVE  Kept'
<1>1. PICK c : c = idx[t] OBVIOUS
<1>2. /\ PlaceOK(pc[t], c) /\ BootAt(pc[t], c)
      /\ ContainAt(pc[t], c) /\ TeardownAt(pc[t], c)
    BY Zenon, <1>1, Place
<1>3. ASSUME NEW p, NEW i, Goto(t, p, i), BootAt(p, i), ContainAt(p, i), TeardownAt(p, i)
      PROVE  Kept'
  <2>1. sys' # "Dormant" /\ (Boot(t) \/ EngineStep(t))
    BY Zenon, NotDormant DEF EngineStep, BootStep
  <2>2. /\ UNCHANGED <<inited, started, prepared, blocked, calls, thread>>
        /\ pc[t] \notin {"StopHook", "DeinitHook"}
    BY Zenon DEF Boot, InitFails, InitDone, StartFails, PrepareFails, StartDone, GatePasses,
        GateFails, Validate, Run, SysActivate, ActivateDone, StartSucceeds, BeginRollback,
        RecordFailure, recordVars, serviceVars
  <2> QED BY Zenon, <1>3, <2>1, <2>2, QuietStep
<1>4. /\ \A i : ContainAt("SysRequest", i) /\ TeardownAt("SysRequest", i) /\ BootAt("SysRequest", i)
      /\ \A i : ContainAt("Idle", i) /\ TeardownAt("Idle", i) /\ BootAt("Idle", i)
      /\ \A p \in BootPcs, i \in Nat : ContainAt(p, i) /\ TeardownAt(p, i)
    BY Zenon DEF ContainAt, TeardownAt, BootAt, ContainPcs, TeardownPcs, BootPcs
<1>5. CASE Boot(t)
  <2>1. BootAt("Init", 1)
    BY <1>5, Sizes DEF IInv, Dormancy, Boot, BootAt, Untouched, Hooks, Components
  <2> QED BY Zenon, <1>3, <1>4, <1>5, <2>1 DEF Boot, BootPcs
<1>6. CASE InitFails(t)
  <2>1. BootAt("Deinit", N) /\ ContainAt("Deinit", N) /\ TeardownAt("Deinit", N)
    BY <1>2, <1>6, Sizes
       DEF InitFails, BootAt, ContainAt, TeardownAt, ContainPcs, TeardownPcs, Components
  <2> QED BY Zenon, <1>3, <1>6, <2>1 DEF InitFails, BeginRollback
<1>7. CASE InitDone(t)
  <2>1. BootAt("Start", 1)
    BY <1>1, <1>2, <1>7, Sizes DEF InitDone, BootAt, PlaceOK, Components
  <2> QED BY Zenon, <1>3, <1>4, <1>7, <2>1 DEF InitDone, BootPcs
<1>8. CASE StartFails(t) \/ PrepareFails(t) \/ GateFails(t)
    BY Zenon, <1>3, <1>4, <1>8 DEF StartFails, PrepareFails, GateFails, BeginRollback
<1>9. CASE StartDone(t)
  <2>1. BootAt("SysPrepare", 0)
    BY <1>1, <1>2, <1>9, Sizes
       DEF StartDone, BootAt, PlaceOK, Components, Usable, Untouched
  <2> QED BY Zenon, <1>3, <1>4, <1>9, <2>1 DEF StartDone, BootPcs
<1>10. CASE GatePasses(t) \/ Validate(t) \/ Run(t) \/ SysActivate(t)
  <2>1. /\ BootAt("Validate", 0) /\ BootAt("SysValidate", 0) /\ BootAt("Commit", 0) /\ BootAt("Run", 0)
        /\ BootAt("SysActivate", 0) /\ BootAt("Activate", 1)
    BY Zenon, <1>2, <1>10 DEF GatePasses, Validate, Run, SysActivate, BootAt
  <2> QED BY Zenon, <1>3, <1>4, <1>10, <2>1
          DEF GatePasses, Validate, Run, SysActivate, BeginRollback, BootPcs
<1>11. CASE ActivateDone(t)
    BY Zenon, <1>3, <1>4, <1>11 DEF ActivateDone
<1>12. CASE StartSucceeds(t) /\ idx[t] \in Participants
  <2>1. BootAt("Prepare", c) /\ c \in Nat
    BY Zenon, <1>1, <1>2, <1>12 DEF StartSucceeds, BootAt, PlaceOK
  <2> QED BY Zenon, <1>1, <1>3, <1>4, <1>12, <2>1 DEF StartSucceeds, BootPcs
<1> QED BY Zenon, <1>5, <1>6, <1>7, <1>8, <1>9, <1>10, <1>11, <1>12

(* The steps of stop() and rollback() that change no record.               *)
LEMMA QuietCleanup ==
    ASSUME IInv, NEW t \in Callers,
           \/ Stop(t) \/ SysRequest(t) \/ SysQuiescent(t) \/ SysTimeout(t)
           \/ (SysContainDone(t) /\ ~sysLeft)
           \/ Request(t) \/ RequestDone(t) \/ ContainSkip(t)
           \/ (JoinTimeout(t) /\ idx[t] \in AbortOnTimeout)
           \/ QueueQuiescent(t) \/ Drain(t) \/ ContainDone(t)
           \/ (StopBegin(t) /\ ~Stops(idx[t])) \/ StopDone(t)
           \/ (DeinitBegin(t) /\ ~Deinits(idx[t])) \/ RollbackDone(t) \/ StopFinished(t)
    PROVE  Kept'
<1>1. PICK c : c = idx[t] OBVIOUS
<1>2. /\ PlaceOK(pc[t], c) /\ BootAt(pc[t], c)
      /\ ContainAt(pc[t], c) /\ TeardownAt(pc[t], c)
    BY Zenon, <1>1, Place
<1>3. ASSUME NEW p, p \notin BootPcs, NEW i, Goto(t, p, i), ContainAt(p, i), TeardownAt(p, i)
      PROVE  Kept'
  <2>1. sys' # "Dormant" /\ (Stop(t) \/ EngineStep(t))
    BY Zenon, NotDormant DEF EngineStep, ContainStep, CleanupStep
  <2>2. /\ UNCHANGED <<inited, started, prepared, blocked, calls, thread>>
        /\ pc[t] \notin {"StopHook", "DeinitHook"}
    BY Zenon DEF Stop, SysRequest, SysQuiescent, SysTimeout, SysContainDone, Request, RequestDone,
        ContainSkip, JoinTimeout, QueueQuiescent, Drain, ContainDone, StopBegin, StopDone,
        DeinitBegin, RollbackDone, StopFinished, recordVars, serviceVars
  <2>3. BootAt(p, i) BY Zenon, <1>3 DEF BootAt, BootPcs
  <2> QED BY Zenon, <1>3, <2>1, <2>2, <2>3, QuietStep
<1>4. /\ \A p \in {"SysRequest", "SysContain", "Request", "Idle"} : \A i : ContainAt(p, i) /\ TeardownAt(p, i)
      /\ \A p \in ContainPcs : \A i : TeardownAt(p, i)
      /\ ContainAt("Contain", N) /\ TeardownAt("Stop", N) /\ TeardownAt("Deinit", N)
    BY Sizes DEF ContainAt, TeardownAt, ContainPcs, TeardownPcs, Components
<1>5. CASE Stop(t) \/ SysRequest(t) \/ SysQuiescent(t) \/ SysTimeout(t) \/ (SysContainDone(t) /\ ~sysLeft)
           \/ Request(t) \/ RequestDone(t) \/ RollbackDone(t) \/ StopFinished(t)
    BY Zenon, <1>3, <1>4, <1>5 DEF Stop, SysRequest, SysQuiescent, SysTimeout, SysContainDone, Request,
        RequestDone, RollbackDone, StopFinished, BootPcs, ContainPcs
<1>6. CASE ContainSkip(t)
  <2>1. c \in Components /\ pc[t] = "Contain" /\ ~prepared[c]
    BY <1>1, <1>2, <1>6, Sizes DEF ContainSkip, PlaceOK, Components, More
  <2>2. \A s \in Components : s > c - 1 => s = c \/ s > c
    BY <2>1, Sizes DEF Components
  <2>3. ContainAt("Contain", c - 1)
    BY Zenon, <1>2, <2>1, <2>2 DEF ContainAt, ContainPcs, TeardownPcs
  <2> QED BY Zenon, <1>1, <1>3, <1>4, <1>6, <2>3 DEF ContainSkip, BootPcs, ContainPcs
<1>7. CASE (JoinTimeout(t) /\ idx[t] \in AbortOnTimeout) \/ QueueQuiescent(t) \/ Drain(t)
  <2>1. pc[t] \in ContainPcs => ContainAt("Abort", c) /\ ContainAt("Drain", c) /\ ContainAt("QueueStop", c)
    BY Zenon, <1>2 DEF ContainAt, ContainPcs, TeardownPcs
  <2> QED BY Zenon, <1>1, <1>3, <1>4, <1>7, <2>1 DEF JoinTimeout, QueueQuiescent, Drain, BootPcs, ContainPcs
<1>8. CASE ContainDone(t)
  <2>1. ContainAt("Contain", 0) /\ \A s \in Components : s > 0
    BY <1>1, <1>2, <1>8, Sizes DEF ContainDone, Components
  <2>2. ContainAt("Stop", N)
    BY Zenon, <2>1 DEF ContainAt, ContainPcs, TeardownPcs
  <2> QED BY Zenon, <1>3, <1>4, <1>8, <2>2 DEF ContainDone, BootPcs
<1>9. CASE StopBegin(t) /\ ~Stops(idx[t])
  <2>1. c \in Components /\ pc[t] = "Stop" /\ ~Stops(c)
    BY <1>1, <1>2, <1>9, Sizes DEF StopBegin, PlaceOK, Components, More
  <2>2. \A s \in Components : s > c - 1 => s = c \/ s > c
    BY <2>1, Sizes DEF Components
  <2>3. ContainAt("Stop", c - 1) /\ TeardownAt("Stop", c - 1)
    BY Zenon, <1>2, <2>1, <2>2 DEF Stops, ContainAt, TeardownAt, ContainPcs, TeardownPcs
  <2> QED BY Zenon, <1>1, <1>3, <1>9, <2>3 DEF StopBegin, BootPcs
<1>10. CASE StopDone(t)
  <2>1. ContainAt("Deinit", N)
    BY Zenon, <1>2, <1>10 DEF StopDone, ContainAt, ContainPcs, TeardownPcs
  <2> QED BY Zenon, <1>3, <1>4, <1>10, <2>1 DEF StopDone, BootPcs
<1>11. CASE DeinitBegin(t) /\ ~Deinits(idx[t])
  <2>1. c \in Components /\ pc[t] = "Deinit" /\ ~Deinits(c)
    BY <1>1, <1>2, <1>11, Sizes DEF DeinitBegin, PlaceOK, Components, More
  <2>2. \A s \in Components : s > c - 1 => s = c \/ s > c
    BY <2>1, Sizes DEF Components
  <2>3. ContainAt("Deinit", c - 1) /\ TeardownAt("Deinit", c - 1)
    BY Zenon, <1>2, <2>1, <2>2 DEF Deinits, ContainAt, TeardownAt, ContainPcs, TeardownPcs
  <2> QED BY Zenon, <1>1, <1>3, <1>11, <2>3 DEF DeinitBegin, BootPcs
<1> QED BY Zenon, <1>5, <1>6, <1>7, <1>8, <1>9, <1>10, <1>11
----------------------------------------------------------------------------
(***************************************************************************)
(* The steps of boot() that change a record or a thread.                   *)
(***************************************************************************)
LEMMA CalledEffect ==
    ASSUME TypeOK, NEW c \in Components, NEW h \in Hooks, Called(c, h)
    PROVE  \A d \in Components, g \in Hooks :
               calls'[d][g] = IF d = c /\ g = h THEN calls[d][g] + 1 ELSE calls[d][g]
BY Zenon DEF TypeOK, RecordTypeOK, Called

(* initialize_component calls the hook of a component it has not called.   *)
LEMMA KeepInitBegin ==
    ASSUME IInv, NEW t \in Callers, InitBegin(t)
    PROVE  Kept'
<1>1. PICK c : c = idx[t] OBVIOUS
<1>2. PlaceOK("Init", c) /\ BootAt("Init", c)
    BY Zenon, <1>1, Place DEF InitBegin
<1>3. /\ c \in Components /\ Goto(t, "InitHook", c) /\ Called(c, "init")
      /\ UNCHANGED <<inited, started, prepared, blocked, thread>>
      /\ EngineStep(t) /\ pc[t] = "Init"
    BY <1>1, <1>2, Sizes
       DEF InitBegin, PlaceOK, Components, serviceVars, EngineStep, BootStep
<1>4. /\ \A d \in Components : calls'[d]["init"] = IF d = c THEN calls[d]["init"] + 1 ELSE calls[d]["init"]
      /\ \A d \in Components : /\ calls'[d]["start"] = calls[d]["start"]
                               /\ calls'[d]["stop"] = calls[d]["stop"]
                               /\ calls'[d]["deinit"] = calls[d]["deinit"]
    BY <1>3, CalledEffect DEF IInv, Hooks
<1>5. calls[c]["init"] = 0
    BY Zenon, <1>2, <1>3 DEF BootAt
<1>6. BootAt("InitHook", c)' /\ ContainAt("InitHook", c)' /\ TeardownAt("InitHook", c)'
    BY <1>2, <1>3, <1>4, Sizes
       DEF BootAt, ContainAt, TeardownAt, ContainPcs, TeardownPcs, Untouched, Components
<1>7. BootProgress' /\ ContainProgress' /\ TeardownProgress'
    BY Zenon, <1>3, <1>6, Arrive, OthersIdle DEF IInv, EngineStep, BootStep
<1>8. LiveReach'
    BY <1>3, <1>4 DEF IInv, LiveReach, Usable, Closure
<1>9. HooksCalledOnce'
    BY <1>4, <1>5 DEF IInv, HooksCalledOnce, Hooks
<1>10. StageOver'
    BY <1>3, <1>4, OthersIdle DEF IInv, StageOver
<1> QED BY Zenon, <1>3, <1>7, <1>8, <1>9, <1>10, NotDormant
        DEF Kept, Dormancy, IInv, BlockedClosed, EngineStep, BootStep

(* start_component calls the hook of a component it has not called.        *)
LEMMA KeepStartBegin ==
    ASSUME IInv, NEW t \in Callers, StartBegin(t)
    PROVE  Kept'
<1>1. PICK c : c = idx[t] OBVIOUS
<1>2. PlaceOK("Start", c) /\ BootAt("Start", c)
    BY Zenon, <1>1, Place DEF StartBegin
<1>3. /\ c \in Components /\ Goto(t, "StartHook", c) /\ Called(c, "start")
      /\ UNCHANGED <<inited, started, prepared, blocked, thread>>
      /\ EngineStep(t) /\ pc[t] = "Start"
    BY <1>1, <1>2, Sizes
       DEF StartBegin, PlaceOK, Components, serviceVars, EngineStep, BootStep
<1>4. /\ \A d \in Components : calls'[d]["start"] = IF d = c THEN calls[d]["start"] + 1 ELSE calls[d]["start"]
      /\ \A d \in Components : /\ calls'[d]["init"] = calls[d]["init"]
                               /\ calls'[d]["stop"] = calls[d]["stop"]
                               /\ calls'[d]["deinit"] = calls[d]["deinit"]
    BY <1>3, CalledEffect DEF IInv, Hooks
<1>5. calls[c]["start"] = 0
    BY Zenon, <1>2, <1>3 DEF BootAt
<1>6. BootAt("StartHook", c)' /\ ContainAt("StartHook", c)' /\ TeardownAt("StartHook", c)'
    BY <1>2, <1>3, <1>4, Sizes
       DEF BootAt, ContainAt, TeardownAt, ContainPcs, TeardownPcs, Untouched, Components
<1>7. BootProgress' /\ ContainProgress' /\ TeardownProgress'
    BY Zenon, <1>3, <1>6, Arrive, OthersIdle DEF IInv, EngineStep, BootStep
<1>8. LiveReach'
    BY <1>3, <1>4 DEF IInv, LiveReach, Usable, Closure
<1>9. HooksCalledOnce'
    BY <1>4, <1>5 DEF IInv, HooksCalledOnce, Hooks
<1>10. StageOver'
    BY <1>3, <1>4, OthersIdle DEF IInv, StageOver
<1> QED BY Zenon, <1>3, <1>7, <1>8, <1>9, <1>10, NotDormant
        DEF Kept, Dormancy, IInv, BlockedClosed, EngineStep, BootStep

(* A hook or the execution's preparation succeeds.                         *)
LEMMA KeepSucceeds ==
    ASSUME IInv, NEW t \in Callers,
           \/ InitSucceeds(t)
           \/ (StartSucceeds(t) /\ idx[t] \notin Participants)
           \/ PrepareSucceeds(t)
    PROVE  Kept'
<1>1. PICK c : c = idx[t] OBVIOUS
<1>2. PlaceOK(pc[t], c) /\ BootAt(pc[t], c)
    BY Zenon, <1>1, Place
<1>3. c \in Components /\ EngineStep(t) /\ UNCHANGED <<blocked, calls>>
    BY Zenon, <1>1, <1>2, OwnersAreComponents
       DEF InitSucceeds, StartSucceeds, PrepareSucceeds, PlaceOK, Participants,
           EngineStep, BootStep
<1>4. PICK p \in {"Init", "Start"} : Goto(t, p, c + 1) /\ BootAt(p, c + 1)'
  <2>1. \A d \in Components : d < c + 1 => d = c \/ d < c
    BY <1>3, Sizes DEF Components
  <2>2. \A d \in Components : d > c + 1 \/ d = c + 1 => d > c
    BY <1>3, Sizes DEF Components
  <2>3. CASE InitSucceeds(t)
    BY Zenon, <1>1, <1>2, <1>3, <2>1, <2>2, <2>3 DEF InitSucceeds, BootAt, Untouched, IInv, TypeOK, RecordTypeOK
  <2>4. CASE StartSucceeds(t) /\ idx[t] \notin Participants
    BY <1>1, <1>2, <1>3, <2>1, <2>2, <2>4 DEF StartSucceeds, BootAt, Untouched, IInv, TypeOK, RecordTypeOK
  <2>5. CASE PrepareSucceeds(t)
    BY <1>1, <1>2, <1>3, <2>1, <2>2, <2>5 DEF PrepareSucceeds, BootAt, Untouched, IInv, TypeOK, RecordTypeOK
  <2> QED BY Zenon, <2>3, <2>4, <2>5
<1>5. ContainAt(p, c + 1)' /\ TeardownAt(p, c + 1)'
    BY Zenon DEF ContainAt, TeardownAt, ContainPcs, TeardownPcs
<1>6. BootProgress' /\ ContainProgress' /\ TeardownProgress'
    BY Zenon, <1>3, <1>4, <1>5, Arrive, OthersIdle DEF IInv
<1>7. /\ \A d \in Components : /\ inited[d] => inited'[d]
                               /\ started[d] => started'[d]
                               /\ prepared[d] => prepared'[d]
      /\ \A d \in Components \ {c} : inited'[d] = inited[d] /\ started'[d] = started[d]
    BY Zenon, <1>1 DEF InitSucceeds, StartSucceeds, PrepareSucceeds, IInv, TypeOK, RecordTypeOK
<1>11. \A s \in Services : thread'[s] \in LiveThread => thread[s] \in LiveThread
    BY Zenon DEF InitSucceeds, StartSucceeds, PrepareSucceeds, PreparedThread, LiveThread, serviceVars
<1>8. LiveReach'
    BY Zenon, <1>3, <1>7, <1>11, OwnersAreComponents DEF IInv, LiveReach, Usable, Closure
<1>9. Untouched(c) /\ pc[t] \notin {"StopHook", "DeinitHook"}
    BY Zenon, <1>2, <1>3 DEF InitSucceeds, StartSucceeds, PrepareSucceeds, BootAt
<1>10. StageOver'
    BY <1>3, <1>7, <1>9, OthersIdle DEF IInv, StageOver, Untouched
<1> QED BY Zenon, <1>3, <1>6, <1>8, <1>10, NotDormant
        DEF Kept, Dormancy, IInv, BlockedClosed, HooksCalledOnce

(* A service's thread is started.                                          *)
LEMMA KeepActivate ==
    ASSUME IInv, NEW t \in Callers, Activate(t)
    PROVE  Kept'
<1>1. PICK c : c = idx[t] OBVIOUS
<1>2. PlaceOK("Activate", c) /\ BootAt("Activate", c)
    BY Zenon, <1>1, Place DEF Activate
<1>3. /\ EngineStep(t) /\ Goto(t, "Activate", c + 1) /\ pc[t] = "Activate"
      /\ UNCHANGED <<inited, started, prepared, blocked, calls>>
    BY Zenon, <1>1 DEF Activate, recordVars, EngineStep, BootStep
<1>4. BootAt("Activate", c + 1)' /\ ContainAt("Activate", c + 1)' /\ TeardownAt("Activate", c + 1)'
    BY Zenon, <1>2, <1>3 DEF BootAt, ContainAt, TeardownAt, ContainPcs, TeardownPcs, Usable
<1>5. BootProgress' /\ ContainProgress' /\ TeardownProgress'
    BY Zenon, <1>3, <1>4, Arrive, OthersIdle DEF IInv
<1>6. \A s \in Services : thread'[s] \in LiveThread => thread[s] \in LiveThread \/ prepared[s]
    BY Zenon DEF Activate
<1>7. \A d \in Components : Usable(d)
    BY Zenon, <1>2 DEF BootAt
<1>8. LiveReach'
    BY Zenon, <1>3, <1>6, <1>7 DEF IInv, LiveReach, Usable, Closure
<1>9. StageOver'
    BY Zenon, <1>3, OthersIdle DEF IInv, StageOver
<1> QED BY Zenon, <1>3, <1>5, <1>8, <1>9, NotDormant
        DEF Kept, Dormancy, IInv, BlockedClosed, HooksCalledOnce
----------------------------------------------------------------------------
(***************************************************************************)
(* The steps of containment that change a record or a thread.              *)
(***************************************************************************)
LEMMA ClosureMonotone ==
    ASSUME NEW S, NEW T, S \subseteq T
    PROVE  Closure(S) \subseteq Closure(T)
BY Zenon DEF Closure

(* The closure holds components only.                                      *)
LEMMA ClosureComponents ==
    ASSUME NEW S
    PROVE  Closure(S) \subseteq Components
BY Zenon DEF Closure

(* contain() ended the execution of c, whose thread is not live.           *)
LEMMA KeepContained ==
    ASSUME IInv, NEW t \in Callers, EngineStep(t), NEW c \in Components, c = idx[t],
           pc[t] \in ContainPcs, NEW ok, Contained(t, c, ok), UNCHANGED thread,
           c \in Services => thread[c] \notin LiveThread
    PROVE  Kept'
<1>1. /\ Goto(t, "Contain", c - 1)
      /\ UNCHANGED <<inited, started, blocked, calls>>
      /\ \A d \in Components : prepared'[d] = (prepared[d] /\ d # c)
    BY Zenon DEF Contained, IInv, TypeOK, RecordTypeOK
<1>2. ContainAt("Contain", c)
    BY Zenon, Place DEF ContainAt, ContainPcs, TeardownPcs
<1>3. \A s \in Components : s > c - 1 => s = c \/ s > c
    BY Sizes DEF Components
<1>4. BootAt("Contain", c - 1)' /\ ContainAt("Contain", c - 1)' /\ TeardownAt("Contain", c - 1)'
    BY Zenon, <1>1, <1>2, <1>3 DEF BootAt, ContainAt, TeardownAt, ContainPcs, TeardownPcs
<1>5. BootProgress' /\ ContainProgress' /\ TeardownProgress'
    BY Zenon, <1>1, <1>4, Arrive, OthersIdle DEF IInv
<1>6. LiveReach'
    BY Zenon, <1>1, OwnersAreComponents DEF IInv, LiveReach, Usable, Closure
<1>7. StageOver'
    BY Zenon, <1>1, OthersIdle DEF IInv, StageOver, ContainPcs
<1> QED BY Zenon, <1>1, <1>5, <1>6, <1>7, NotDormant
        DEF Kept, Dormancy, IInv, BlockedClosed, HooksCalledOnce

(* contain() did not end it: what it reaches is preserved.                 *)
LEMMA KeepUncontained ==
    ASSUME IInv, NEW t \in Callers, EngineStep(t), NEW c \in Components, c = idx[t],
           pc[t] \in ContainPcs, NEW reach, c \in reach, Uncontained(t, c, reach),
           UNCHANGED thread
    PROVE  Kept'
<1>1. /\ Goto(t, "Contain", c - 1) /\ Preserve(reach)
      /\ UNCHANGED <<inited, started, prepared, calls>>
    BY Zenon DEF Uncontained
<1>2. ContainAt("Contain", c)
    BY Zenon, Place DEF ContainAt, ContainPcs, TeardownPcs
<1>3. \A s \in Components : s > c - 1 => s = c \/ s > c
    BY Sizes DEF Components
<1>4. /\ \A d \in Components : blocked[d] => blocked'[d]
      /\ \A d \in Closure({c}) : blocked'[d]
    BY Zenon, <1>1, ClosureMonotone DEF Preserve, Closure
<1>5. ContainAt("Contain", c - 1)'
    BY <1>1, <1>2, <1>3, <1>4 DEF ContainAt, ContainPcs, TeardownPcs, Closure
<1>6. BootAt("Contain", c - 1)' /\ TeardownAt("Contain", c - 1)'
    BY Zenon DEF BootAt, TeardownAt
<1>7. BootProgress' /\ ContainProgress' /\ TeardownProgress'
    BY Zenon, <1>1, <1>5, <1>6, Arrive, OthersIdle DEF IInv
<1>8. LiveReach' /\ HooksCalledOnce'
    BY Zenon, <1>1 DEF IInv, LiveReach, Usable, HooksCalledOnce
<1>9. StageOver'
    BY Zenon, <1>1, OthersIdle DEF IInv, StageOver, ContainPcs
<1>10. BlockedClosed'
    BY Zenon, <1>1, PreserveClosed DEF IInv, TypeOK
<1> QED BY Zenon, <1>7, <1>8, <1>9, <1>10, NotDormant DEF Kept, Dormancy

(* Every step of containment keeps the invariant.                          *)
LEMMA KeepContain ==
    ASSUME IInv, NEW t \in Callers, ContainStep(t)
    PROVE  Kept'
<1>1. PICK c : c = idx[t] OBVIOUS
<1>2. PlaceOK(pc[t], c) /\ ContainAt(pc[t], c)
    BY Zenon, <1>1, Place
<1>3. EngineStep(t) BY Zenon DEF EngineStep
<1>4. /\ c \in Services \cup Executors => c \in Components
      /\ c \in Executors => c \notin Services
      /\ pc[t] \in {"Abort", "Forced"} => c \in Services
      /\ pc[t] = "QueueStop" => c \in Executors
    BY Zenon, <1>2, ExecutionAssumption DEF PlaceOK
<1>5. ASSUME c \in Executors, pc[t] \in ContainPcs, QueueTimesOut(t, c), UNCHANGED thread
      PROVE  Kept'
  <2>1. c \in QueueReach(c) BY Zenon DEF QueueReach
  <2> QED BY Zenon, <1>1, <1>3, <1>4, <1>5, <2>1, KeepContained, KeepUncontained DEF QueueTimesOut
<1>6. CASE Join(t) \/ Forced(t)
  <2>1. /\ c \in Components /\ pc[t] \in ContainPcs /\ UNCHANGED thread
        /\ thread[c] \notin LiveThread /\ \E ok : Contained(t, c, ok)
    BY Zenon, <1>1, <1>2, <1>4, <1>6 DEF Join, Forced, ContainAt, LiveThread, ContainPcs, serviceVars
  <2> QED BY Zenon, <1>1, <1>3, <2>1, KeepContained
<1>7. CASE JoinUnstarted(t) \/ (JoinTimeout(t) /\ idx[t] \notin AbortOnTimeout)
  <2>1. c \in Components /\ pc[t] \in ContainPcs /\ Uncontained(t, c, {c}) /\ UNCHANGED thread
    BY Zenon, <1>1, <1>4, <1>7 DEF JoinUnstarted, JoinTimeout, ContainPcs, serviceVars
  <2> QED BY Zenon, <1>1, <1>3, <2>1, KeepUncontained
<1>8. CASE QueueTimeout(t) \/ QueueStopTimeout(t)
    BY Zenon, <1>1, <1>4, <1>5, <1>8 DEF QueueTimeout, QueueStopTimeout, ContainPcs, serviceVars
<1>9. CASE QueueStopped(t)
  <2>1. /\ c \in Components /\ c \notin Services /\ pc[t] \in ContainPcs
        /\ Contained(t, c, TRUE) /\ UNCHANGED thread
    BY Zenon, <1>1, <1>4, <1>9 DEF QueueStopped, ContainPcs, serviceVars
  <2> QED BY Zenon, <1>1, <1>3, <2>1, KeepContained
<1>10. CASE Abort(t)
  <2>1. /\ c \in Services /\ Goto(t, "Forced", c) /\ pc[t] = "Abort"
        /\ UNCHANGED <<inited, started, prepared, blocked, calls>>
        /\ thread'[c] \notin LiveThread
        /\ \A s \in Services : thread'[s] \in LiveThread => thread[s] \in LiveThread
    BY Zenon, <1>1, <1>4, <1>10 DEF Abort, recordVars, LiveThread, IInv, TypeOK, ExecutionTypeOK
  <2>2. BootAt("Forced", c)' /\ ContainAt("Forced", c)' /\ TeardownAt("Forced", c)'
    BY Zenon, <1>2, <2>1 DEF BootAt, ContainAt, TeardownAt, ContainPcs, TeardownPcs
  <2>3. BootProgress' /\ ContainProgress' /\ TeardownProgress'
    BY Zenon, <1>3, <2>1, <2>2, Arrive, OthersIdle DEF IInv
  <2>4. LiveReach'
    BY Zenon, <2>1 DEF IInv, LiveReach, Usable
  <2>5. StageOver'
    BY Zenon, <1>3, <2>1, OthersIdle DEF IInv, StageOver
  <2> QED BY Zenon, <1>3, <2>1, <2>3, <2>4, <2>5, NotDormant
          DEF Kept, Dormancy, IInv, BlockedClosed, HooksCalledOnce
<1>11. CASE SysContainDone(t) /\ sysLeft
  <2>1. /\ Goto(t, "Request", N) /\ pc[t] = "SysContain" /\ \E S : Preserve(S)
        /\ UNCHANGED <<inited, started, prepared, calls, thread>>
    BY Zenon, <1>11 DEF SysContainDone, serviceVars
  <2>2. BootAt("Request", N)' /\ ContainAt("Request", N)' /\ TeardownAt("Request", N)'
    BY Zenon DEF BootAt, ContainAt, TeardownAt, ContainPcs, TeardownPcs
  <2>3. BootProgress' /\ ContainProgress' /\ TeardownProgress'
    BY Zenon, <1>3, <2>1, <2>2, Arrive, OthersIdle DEF IInv
  <2>4. LiveReach' /\ HooksCalledOnce'
    BY Zenon, <2>1 DEF IInv, LiveReach, Usable, HooksCalledOnce
  <2>5. StageOver'
    BY Zenon, <1>3, <2>1, OthersIdle DEF IInv, StageOver
  <2>6. BlockedClosed'
    BY Zenon, <2>1, PreserveClosed DEF IInv, TypeOK
  <2> QED BY Zenon, <1>3, <2>3, <2>4, <2>5, <2>6, NotDormant DEF Kept, Dormancy
<1> QED BY Zenon, <1>6, <1>7, <1>8, <1>9, <1>10, <1>11, QuietCleanup DEF ContainStep
----------------------------------------------------------------------------
(***************************************************************************)
(* The steps of teardown: a hook is called only on a component no live     *)
(* thread reaches.                                                         *)
(***************************************************************************)
LEMMA KeepStopBegin ==
    ASSUME IInv, NEW t \in Callers, StopBegin(t), Stops(idx[t])
    PROVE  Kept'
<1>1. PICK c : c = idx[t] OBVIOUS
<1>2. PlaceOK("Stop", c) /\ ContainAt("Stop", c) /\ TeardownAt("Stop", c)
    BY Zenon, <1>1, Place DEF StopBegin
<1>3. /\ c \in Components /\ EngineStep(t) /\ pc[t] = "Stop" /\ started[c] /\ ~blocked[c]
      /\ Goto(t, "StopHook", c) /\ Called(c, "stop")
      /\ UNCHANGED <<inited, started, prepared, blocked, thread>>
    BY <1>1, <1>2, Sizes DEF StopBegin, Stops, PlaceOK, Components, More,
        serviceVars, EngineStep, CleanupStep
<1>4. /\ \A d \in Components : calls'[d]["stop"] = IF d = c THEN calls[d]["stop"] + 1 ELSE calls[d]["stop"]
      /\ \A d \in Components : /\ calls'[d]["init"] = calls[d]["init"]
                               /\ calls'[d]["start"] = calls[d]["start"]
                               /\ calls'[d]["deinit"] = calls[d]["deinit"]
    BY <1>3, CalledEffect DEF IInv, Hooks
<1>5. calls[c]["stop"] = 0
    BY <1>3, OthersIdle DEF IInv, StageOver
<1>6. BootAt("StopHook", c)' /\ ContainAt("StopHook", c)' /\ TeardownAt("StopHook", c)'
    BY Zenon, <1>2, <1>3 DEF BootAt, ContainAt, TeardownAt, ContainPcs, TeardownPcs
<1>7. BootProgress' /\ ContainProgress' /\ TeardownProgress'
    BY Zenon, <1>3, <1>6, Arrive, OthersIdle DEF IInv
<1>8. \A s \in Services : thread[s] \in LiveThread => c \notin Closure({s})
    BY Zenon, <1>2, <1>3, OwnersAreComponents DEF ContainAt, TeardownPcs, IInv, LiveReach
<1>9. LiveReach'
    BY <1>3, <1>4, <1>8 DEF IInv, LiveReach, Usable, Closure
<1>10. HooksCalledOnce'
    BY <1>4, <1>5 DEF IInv, HooksCalledOnce, Hooks
<1>11. pc'[t] = "StopHook" /\ idx'[t] = c
    BY Zenon, <1>3 DEF Goto, IInv, TypeOK, EngineTypeOK
<1>12. StageOver'
    BY <1>3, <1>4, <1>11, OthersIdle DEF IInv, StageOver
<1> QED BY Zenon, <1>3, <1>7, <1>9, <1>10, <1>12, NotDormant
        DEF Kept, Dormancy, IInv, BlockedClosed

(* A stop() hook returns: the component is no longer started.              *)
LEMMA KeepStopReturns ==
    ASSUME IInv, NEW t \in Callers, StopReturns(t)
    PROVE  Kept'
<1>1. PICK c : c = idx[t] OBVIOUS
<1>2. PlaceOK("StopHook", c) /\ ContainAt("StopHook", c) /\ TeardownAt("StopHook", c)
    BY Zenon, <1>1, Place DEF StopReturns
<1>3. /\ c \in Components /\ EngineStep(t) /\ pc[t] = "StopHook" /\ ~blocked[c]
      /\ Goto(t, "Stop", c - 1)
      /\ UNCHANGED <<inited, prepared, blocked, calls, thread>>
    BY Zenon, <1>1, <1>2 DEF StopReturns, PlaceOK, TeardownAt, serviceVars, EngineStep, CleanupStep
<1>4. \A d \in Components : /\ started'[d] => started[d] /\ d # c
                            /\ started[d] /\ d # c => started'[d]
    BY Zenon, <1>1 DEF StopReturns, StageAfterCleanup, IInv, TypeOK, RecordTypeOK
<1>5. \A d \in Components : d > c - 1 => d = c \/ d > c
    BY <1>3, Sizes DEF Components
<1>6. BootAt("Stop", c - 1)' /\ ContainAt("Stop", c - 1)' /\ TeardownAt("Stop", c - 1)'
    BY Zenon, <1>2, <1>3, <1>4, <1>5 DEF BootAt, ContainAt, TeardownAt, ContainPcs, TeardownPcs
<1>7. BootProgress' /\ ContainProgress' /\ TeardownProgress'
    BY Zenon, <1>3, <1>6, Arrive, OthersIdle DEF IInv
<1>8. \A s \in Services : thread[s] \in LiveThread => c \notin Closure({s})
    BY Zenon, <1>2, <1>3, OwnersAreComponents DEF ContainAt, TeardownPcs, IInv, LiveReach
<1>9. LiveReach'
    BY Zenon, <1>3, <1>4, <1>8, ClosureComponents, OwnersAreComponents DEF IInv, LiveReach, Usable
<1>10. StageOver'
  <2>1. \A u \in Callers : pc[u] # "DeinitHook" /\ (pc[u] = "StopHook" => u = t)
    BY Zenon, <1>3, OthersIdle DEF IInv
  <2>2. \A d \in Components : /\ ~(inited[d] /\ calls[d]["deinit"] # 0)
                              /\ d # c => ~(started[d] /\ calls[d]["stop"] # 0)
    BY Zenon, <1>1, <2>1 DEF IInv, StageOver
  <2> QED BY Zenon, <1>3, <1>4, <2>2 DEF StageOver
<1> QED BY Zenon, <1>3, <1>7, <1>9, <1>10, NotDormant
        DEF Kept, Dormancy, IInv, BlockedClosed, HooksCalledOnce

(* A deinit() hook is called only on a component no live thread reaches.   *)
LEMMA KeepDeinitBegin ==
    ASSUME IInv, NEW t \in Callers, DeinitBegin(t), Deinits(idx[t])
    PROVE  Kept'
<1>1. PICK c : c = idx[t] OBVIOUS
<1>2. PlaceOK("Deinit", c) /\ ContainAt("Deinit", c) /\ TeardownAt("Deinit", c)
    BY Zenon, <1>1, Place DEF DeinitBegin
<1>3. /\ c \in Components /\ EngineStep(t) /\ pc[t] = "Deinit" /\ inited[c] /\ ~blocked[c]
      /\ Goto(t, "DeinitHook", c) /\ Called(c, "deinit")
      /\ UNCHANGED <<inited, started, prepared, blocked, thread>>
    BY <1>1, <1>2, Sizes DEF DeinitBegin, Deinits, PlaceOK, Components, More,
        serviceVars, EngineStep, CleanupStep
<1>4. /\ \A d \in Components : calls'[d]["deinit"] = IF d = c THEN calls[d]["deinit"] + 1 ELSE calls[d]["deinit"]
      /\ \A d \in Components : /\ calls'[d]["init"] = calls[d]["init"]
                               /\ calls'[d]["start"] = calls[d]["start"]
                               /\ calls'[d]["stop"] = calls[d]["stop"]
    BY <1>3, CalledEffect DEF IInv, Hooks
<1>5. calls[c]["deinit"] = 0
    BY Zenon, <1>3, OthersIdle DEF IInv, StageOver
<1>6. BootAt("DeinitHook", c)' /\ ContainAt("DeinitHook", c)' /\ TeardownAt("DeinitHook", c)'
    BY Zenon, <1>2, <1>3 DEF BootAt, ContainAt, TeardownAt, ContainPcs, TeardownPcs
<1>7. BootProgress' /\ ContainProgress' /\ TeardownProgress'
    BY Zenon, <1>3, <1>6, Arrive, OthersIdle DEF IInv
<1>8. \A s \in Services : thread[s] \in LiveThread => c \notin Closure({s})
    BY Zenon, <1>2, <1>3, OwnersAreComponents DEF ContainAt, TeardownPcs, IInv, LiveReach
<1>9. LiveReach'
    BY <1>3, <1>4, <1>8 DEF IInv, LiveReach, Usable, Closure
<1>10. HooksCalledOnce'
    BY <1>4, <1>5 DEF IInv, HooksCalledOnce, Hooks
<1>11. pc'[t] = "DeinitHook" /\ idx'[t] = c
    BY Zenon, <1>3 DEF Goto, IInv, TypeOK, EngineTypeOK
<1>12. StageOver'
    BY <1>3, <1>4, <1>11, OthersIdle DEF IInv, StageOver
<1> QED BY Zenon, <1>3, <1>7, <1>9, <1>10, <1>12, NotDormant
        DEF Kept, Dormancy, IInv, BlockedClosed

(* A deinit() hook returns: the component is no longer initialized.        *)
LEMMA KeepDeinitReturns ==
    ASSUME IInv, NEW t \in Callers, DeinitReturns(t)
    PROVE  Kept'
<1>1. PICK c : c = idx[t] OBVIOUS
<1>2. PlaceOK("DeinitHook", c) /\ ContainAt("DeinitHook", c) /\ TeardownAt("DeinitHook", c)
    BY Zenon, <1>1, Place DEF DeinitReturns
<1>3. /\ c \in Components /\ EngineStep(t) /\ pc[t] = "DeinitHook" /\ ~blocked[c]
      /\ Goto(t, "Deinit", c - 1)
      /\ UNCHANGED <<started, prepared, blocked, calls, thread>>
    BY Zenon, <1>1, <1>2 DEF DeinitReturns, PlaceOK, TeardownAt, serviceVars, EngineStep, CleanupStep
<1>4. \A d \in Components : /\ inited'[d] => inited[d] /\ d # c
                            /\ inited[d] /\ d # c => inited'[d]
    BY Zenon, <1>1 DEF DeinitReturns, StageAfterCleanup, IInv, TypeOK, RecordTypeOK
<1>5. \A d \in Components : d > c - 1 => d = c \/ d > c
    BY <1>3, Sizes DEF Components
<1>6. BootAt("Deinit", c - 1)' /\ ContainAt("Deinit", c - 1)' /\ TeardownAt("Deinit", c - 1)'
    BY Zenon, <1>2, <1>3, <1>4, <1>5 DEF BootAt, ContainAt, TeardownAt, ContainPcs, TeardownPcs
<1>7. BootProgress' /\ ContainProgress' /\ TeardownProgress'
    BY Zenon, <1>3, <1>6, Arrive, OthersIdle DEF IInv
<1>8. \A s \in Services : thread[s] \in LiveThread => c \notin Closure({s})
    BY Zenon, <1>2, <1>3, OwnersAreComponents DEF ContainAt, TeardownPcs, IInv, LiveReach
<1>9. LiveReach'
    BY Zenon, <1>3, <1>4, <1>8, ClosureComponents, OwnersAreComponents DEF IInv, LiveReach, Usable
<1>10. StageOver'
  <2>1. \A u \in Callers : pc[u] # "StopHook" /\ (pc[u] = "DeinitHook" => u = t)
    BY Zenon, <1>3, OthersIdle DEF IInv
  <2>2. \A d \in Components : /\ ~(started[d] /\ calls[d]["stop"] # 0)
                              /\ d # c => ~(inited[d] /\ calls[d]["deinit"] # 0)
    BY Zenon, <1>1, <2>1 DEF IInv, StageOver
  <2> QED BY Zenon, <1>3, <1>4, <2>2 DEF StageOver
<1> QED BY Zenon, <1>3, <1>7, <1>9, <1>10, NotDormant
        DEF Kept, Dormancy, IInv, BlockedClosed, HooksCalledOnce
----------------------------------------------------------------------------
(***************************************************************************)
(* The steps of service threads and of clients.                            *)
(***************************************************************************)
LEMMA KeepOutside ==
    ASSUME IInv,
           UNCHANGED <<pc, idx, inited, started, prepared, blocked, calls>>,
           sys' = "Dormant" => sys = "Dormant",
           \A s \in Services : thread'[s] \in LiveThread => thread[s] \in LiveThread
    PROVE  Kept'
<1>1. BootProgress' /\ TeardownProgress'
    BY DEF IInv, BootProgress, TeardownProgress, BootAt, TeardownAt, Untouched, Usable
<1>2. ContainProgress'
    BY Zenon DEF IInv, ContainProgress, ContainAt, PlacesOK, PlaceOK
<1>3. BlockedClosed' /\ LiveReach' /\ StageOver' /\ HooksCalledOnce' /\ Dormancy'
    BY DEF IInv, BlockedClosed, LiveReach, Usable, StageOver, HooksCalledOnce, Dormancy
<1> QED BY Zenon, <1>1, <1>2, <1>3 DEF Kept

(* A step of a service thread keeps the invariant.                         *)
LEMMA KeepService ==
    ASSUME IInv, NEW s \in Services, ServiceStep(s)
    PROVE  Kept'
<1>1. UNCHANGED <<pc, idx, inited, started, prepared, blocked, calls>>
    BY Zenon DEF ServiceStep, ReportStep, ThreadRun, RunReturns, ReportLock, ReportRecord,
        ReportSystem, engineVars, recordVars
<1>2. sys' = "Dormant" => sys = "Dormant"
    BY Zenon DEF ServiceStep, ReportStep, ThreadRun, RunReturns, ReportLock, ReportRecord,
        ReportSystem
<1>3. \A u \in Services : thread'[u] \in LiveThread => thread[u] \in LiveThread
    BY Zenon DEF ServiceStep, ReportStep, ThreadRun, RunReturns, ReportLock, ReportRecord,
        ReportSystem, LiveThread, IInv, TypeOK, ExecutionTypeOK
<1> QED BY Zenon, <1>1, <1>2, <1>3, KeepOutside

(* A step of a client keeps the invariant.                                 *)
LEMMA KeepWork ==
    ASSUME IInv, NEW r \in Registrations, WorkStep(r)
    PROVE  Kept'
<1>1. UNCHANGED <<sys, pc, idx, inited, started, prepared, blocked, calls, thread>>
    BY Zenon DEF WorkStep, SubmitCheck, SubmitNative, WorkDone, engineVars, recordVars, serviceVars
<1> QED BY Zenon, <1>1, KeepOutside
----------------------------------------------------------------------------
(* IInv is inductive.                                                      *)
LEMMA InvInit ==
    ASSUME Init
    PROVE  IInv
<1> USE DEF Init
<1>1. OneOperation /\ BlockedClosed /\ BootProgress /\ ContainProgress /\ TeardownProgress
    BY Zenon DEF OneOperation, BlockedClosed, BootProgress, ContainProgress, TeardownProgress,
        BootAt, ContainAt, TeardownAt, ContainPcs, TeardownPcs
<1>2. Dormancy /\ LiveReach /\ StageOver /\ HooksCalledOnce
    BY DEF Dormancy, LiveReach, LiveThread, StageOver, HooksCalledOnce, Hooks
<1> QED BY Zenon, <1>1, <1>2, TypeInit DEF IInv

(* Every step keeps the inductive invariant.                               *)
LEMMA InvStep ==
    ASSUME IInv, [Next]_vars
    PROVE  IInv'
<1>1. TypeOK' /\ PlacesOK'
    BY Zenon, TypeStep DEF IInv
<1>2. ASSUME NEW t \in Callers, Boot(t) \/ Stop(t) \/ EngineStep(t)
      PROVE  OneOperation' /\ Kept'
  <2>1. OneOperation'
    BY Zenon, <1>2, OthersIdle DEF IInv
  <2>2. CASE Boot(t) \/ Stop(t)
    BY Zenon, <2>1, <2>2, QuietBoot, QuietCleanup
  <2>3. CASE BootStep(t)
    BY Zenon, <2>1, <2>3, QuietBoot, KeepInitBegin, KeepStartBegin, KeepSucceeds, KeepActivate
       DEF BootStep
  <2>4. CASE ContainStep(t)
    BY Zenon, <2>1, <2>4, KeepContain
  <2>5. CASE CleanupStep(t)
    BY Zenon, <2>1, <2>5, QuietCleanup, KeepStopBegin, KeepStopReturns, KeepDeinitBegin,
       KeepDeinitReturns DEF CleanupStep
  <2> QED BY Zenon, <1>2, <2>2, <2>3, <2>4, <2>5 DEF EngineStep
<1>3. ASSUME UNCHANGED <<active, pc>>
      PROVE  OneOperation'
    BY Zenon, <1>3 DEF IInv, OneOperation
<1>4. ASSUME NEW s \in Services, ServiceStep(s)
      PROVE  OneOperation' /\ Kept'
  <2>1. UNCHANGED <<active, pc>> BY Zenon, <1>4 DEF ServiceStep, ReportStep, ThreadRun, RunReturns, ReportLock, ReportRecord,
        ReportSystem, engineVars
  <2> QED BY Zenon, <1>3, <1>4, <2>1, KeepService
<1>5. ASSUME NEW r \in Registrations, WorkStep(r)
      PROVE  OneOperation' /\ Kept'
  <2>1. UNCHANGED <<active, pc>> BY Zenon, <1>5 DEF WorkStep, SubmitCheck, SubmitNative, WorkDone, engineVars
  <2> QED BY Zenon, <1>3, <1>5, <2>1, KeepWork
<1>6. ASSUME UNCHANGED vars
      PROVE  OneOperation' /\ Kept'
    BY Zenon, <1>3, <1>6, KeepOutside DEF vars, engineVars, recordVars, serviceVars
<1>7. OneOperation' /\ Kept'
    BY Zenon, <1>2, <1>4, <1>5, <1>6 DEF Next
<1> QED BY Zenon, <1>1, <1>7 DEF IInv, Kept

(* The inductive invariant holds in every reachable state of the engine.   *)
THEOREM Inductive == Spec => []IInv
<1>1. Init => IInv BY Zenon, InvInit
<1>2. IInv /\ [Next]_vars => IInv' BY Zenon, InvStep
<1> QED BY <1>1, <1>2, PTL DEF Spec

(* While a service runs, nothing it can reach was stopped or               *)
(* deinitialized, for every graph: containment preserves what it cannot    *)
(* end (contain_service, mark_dependency_closure).                         *)
THEOREM DependenciesKept == Spec => []RunningServiceKeepsDependencies
<1>1. IInv => RunningServiceKeepsDependencies
    BY Zenon DEF IInv, LiveReach, LiveThread, RunningServiceKeepsDependencies
<1> QED BY <1>1, Inductive, PTL

(* Every hook runs in the order of the graph (initialize_component,        *)
(* start_component, stop_component, deinitialize_component).               *)
THEOREM HooksOrdered == Spec => []HookOrder
<1>1. ASSUME IInv PROVE HookOrder
  <2> SUFFICES ASSUME NEW t \in Callers
               PROVE  LET c == idx[t] IN
        /\ pc[t] = "InitHook" => \A d \in Deps[c] : inited[d]
        /\ pc[t] \in {"StartHook", "Prepare"} => \A d \in Deps[c] : inited[d] /\ started[d]
        /\ pc[t] = "StopHook" => \A d \in Components : c \in Deps[d] => ~started[d] /\ ~prepared[d]
        /\ pc[t] = "DeinitHook" => \A d \in Components : c \in Deps[d] => ~inited[d] /\ ~prepared[d]
    BY Zenon DEF HookOrder
  <2>1. PICK c : c = idx[t] OBVIOUS
  <2>2. /\ PlaceOK(pc[t], c) /\ BootAt(pc[t], c)
        /\ ContainAt(pc[t], c) /\ TeardownAt(pc[t], c)
    BY Zenon, <1>1, <2>1, Place
  <2>3. pc[t] \in {"InitHook", "StartHook", "Prepare", "StopHook", "DeinitHook"} => c \in Components
    BY Zenon, <2>2, OwnersAreComponents DEF PlaceOK, Participants
  <2>4. c \in Components => \A d \in Deps[c] : d \in Components /\ d < c
    BY Zenon, GraphAssumption
  <2>5. \A d \in Components : c \in Deps[d] => d > c
    BY Zenon, <2>4, GraphAssumption DEF Components
  <2>6. ASSUME pc[t] \in {"StopHook", "DeinitHook"}, NEW d \in Components, c \in Deps[d]
        PROVE  ~blocked[d] /\ ~prepared[d]
    <3>1. ~blocked[c] BY Zenon, <2>2, <2>6 DEF TeardownAt
    <3>2. ~blocked[d] BY Zenon, <1>1, <2>6, <3>1 DEF IInv, BlockedClosed
    <3>3. d \in Closure({d}) BY Zenon, ClosureContains
    <3> QED BY Zenon, <2>2, <2>6, <3>2, <3>3 DEF ContainAt, TeardownPcs
  <2> QED BY Zenon, <2>1, <2>2, <2>3, <2>4, <2>5, <2>6 DEF BootAt, TeardownAt
<1> QED BY <1>1, Inductive, PTL

(* No hook is called twice, whatever callers race and repeat.              *)
THEOREM HooksOnce == Spec => []HooksCalledOnce
<1>1. IInv => HooksCalledOnce BY Zenon DEF IInv
<1> QED BY <1>1, Inductive, PTL
============================================================================
