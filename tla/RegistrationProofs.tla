------------------------- MODULE RegistrationProofs -------------------------
(***************************************************************************)
(* What a registration promises, for every declaration, any clients and    *)
(* any times: exact bounded admission, quiescence that lasts, and periodic *)
(* releases that stay on their grid.                                       *)
(***************************************************************************)
EXTENDS Registration, FiniteSetTheorems, TLAPS

(* What the declaration says of the registration.                          *)
LEMMA DeclarationFacts ==
    ASSUME TypeOK
    PROVE  /\ Kind \in Kinds /\ Capacity \in 1..998 /\ Period \in Nat \ {0}
           /\ StopPolicy \in {"Drain", "CancelPending"} /\ Suspends \in BOOLEAN
           /\ MaxTick \in Nat /\ Never \in Nat /\ MaxCalls \in Nat
BY RegistrationAssumption
   DEF TypeOK, Kind, Capacity, Period, StopPolicy, Suspends, MaxTick, Never, MaxCalls, Modulus

(* The next release of a periodic registration.                            *)
LEMMA ReleaseFacts ==
    ASSUME NEW p \in Nat \ {0}, NEW n \in Nat, NEW t \in Nat, n + p <= t,
           NEW m, m = (t - n) \div p
    PROVE  /\ m \in Nat
           /\ n + p * (m + 1) > t /\ n + p * (m + 1) <= t + p
<1>1. PICK k \in Nat : k = t - n OBVIOUS
<1>2. m = k \div p /\ k \div p \in Nat BY <1>1
<1>3. p * (k \div p) <= k OBVIOUS
<1>4. k < p * (k \div p) + p OBVIOUS
<1>5. p * (m + 1) = p * m + p BY <1>2
<1> QED BY <1>1, <1>2, <1>3, <1>4, <1>5

LEMMA MissedFacts ==
    ASSUME TypeOK
    PROVE  /\ Missed \in Nat /\ NextRelease \in Nat
           /\ NextRelease > now
           /\ NextRelease <= (IF next > now THEN next ELSE now) + Period
           /\ FixedRate => NextRelease = next + Period * (Missed + 1)
<1>1. /\ next \in Nat /\ now \in Nat /\ Period \in Nat \ {0}
    BY DeclarationFacts DEF TypeOK
<1>2. CASE next + Period > now
  <2>1. Missed = 0 BY Zenon, <1>2 DEF Missed
  <2>2. Period * (Missed + 1) = Period BY <1>1, <2>1
  <2> QED BY <1>1, <1>2, <2>1, <2>2 DEF NextRelease
<1>3. CASE ~(next + Period > now)
  <2>1. next + Period <= now BY <1>1, <1>3
  <2>2. Missed = (now - next) \div Period BY Zenon, <1>3 DEF Missed
  <2>3. /\ Missed \in Nat
        /\ next + Period * (Missed + 1) > now /\ next + Period * (Missed + 1) <= now + Period
    BY Zenon, <1>1, <2>1, <2>2, ReleaseFacts
  <2>4. PICK q \in Nat : q = Period * (Missed + 1)
    BY <1>1, <2>3
  <2> QED BY <1>1, <2>1, <2>3, <2>4 DEF NextRelease
<1> QED BY Zenon, <1>2, <1>3

(* What a step may do to each counter.                                     *)
LEMMA PendingEffect ==
    ASSUME [Next]_vars
    PROVE  \/ pending' = pending
           \/ pending' = 0 /\ (ResetPending \/ \E c \in Clients : CancelReset(c))
           \/ Enter /\ Kind = "Counted" /\ pending # 0 /\ pending' = pending - 1
           \/ \E c \in Clients : Reserve(c) /\ Kind = "Counted" /\ pending < Capacity /\ pending' = pending + 1
           \/ \E c \in Clients : Submit(c) /\ Kind = "Counted" /\ Refused /\ pending' = (pending + Modulus - 1) % Modulus
BY Zenon DEF Next, HandlerStep, ClientStep, LifecycleStep, Tick, Expire, Signal, Take, Enter,
   Start, Finish, Continue, Rearm, RearmCounted, RearmPeriodic, RearmTriggered, Return, Admit,
   Reserve, Submit, ScheduleCall, CancelCall, CancelWait, CancelReset, FlushCall, FlushWait,
   Activate, Arm, RequestStop, RequestDrain, BeginContainment, ResetPending, Quiesce,
   LoadFlight, LoadPending, LoadCount, Expired, Calls, At, Schedule, Reschedule, Queue, Queued,
   NativeCancel, Cancel, CancelTrigger, gate, item, periodic, callers, vars, Consume, Empty,
   ReserveBelow

LEMMA ClockEffect ==
    ASSUME [Next]_vars
    PROVE  /\ now' = now \/ (now < MaxTick /\ now' = now + 1)
           /\ calls' = calls \/ (calls < MaxCalls /\ calls' = calls + 1)
BY Zenon DEF Next, HandlerStep, ClientStep, LifecycleStep, Tick, Expire, Signal, Take, Enter,
   Start, Finish, Continue, Rearm, RearmCounted, RearmPeriodic, RearmTriggered, Return, Admit,
   Reserve, Submit, ScheduleCall, CancelCall, CancelWait, CancelReset, FlushCall, FlushWait,
   Activate, Arm, RequestStop, RequestDrain, BeginContainment, ResetPending, Quiesce,
   LoadFlight, LoadPending, LoadCount, Expired, Calls, At, Schedule, Reschedule, Queue, Queued,
   NativeCancel, Cancel, CancelTrigger, gate, item, periodic, callers, vars

LEMMA ReleaseEffect ==
    ASSUME [Next]_vars
    PROVE  \/ UNCHANGED <<next, first>>
           \/ Arm /\ Kind = "Periodic" /\ \E d \in {0, Period} : first' = now + d /\ next' = now + d
           \/ Rearm /\ Kind = "Periodic" /\ next' = NextRelease /\ first' = first
BY Zenon DEF Next, HandlerStep, ClientStep, LifecycleStep, Tick, Expire, Signal, Take, Enter,
   Start, Finish, Continue, Rearm, RearmCounted, RearmPeriodic, RearmTriggered, Return, Admit,
   Reserve, Submit, ScheduleCall, CancelCall, CancelWait, CancelReset, FlushCall, FlushWait,
   Activate, Arm, RequestStop, RequestDrain, BeginContainment, ResetPending, Quiesce,
   LoadFlight, LoadPending, LoadCount, Expired, Calls, At, Schedule, Reschedule, Queue, Queued,
   NativeCancel, Cancel, CancelTrigger, gate, item, periodic, callers, vars

LEMMA DueEffect ==
    ASSUME [Next]_vars
    PROVE  \/ due' = due \/ due' = Never
           \/ \E d \in Delays \cup {0, Period} : due' = now + d
           \/ due' = now + (NextRelease - now)
BY Zenon DEF Next, HandlerStep, ClientStep, LifecycleStep, Tick, Expire, Signal, Take, Enter,
   Start, Finish, Continue, Rearm, RearmCounted, RearmPeriodic, RearmTriggered, Return, Admit,
   Reserve, Submit, ScheduleCall, CancelCall, CancelWait, CancelReset, FlushCall, FlushWait,
   Activate, Arm, RequestStop, RequestDrain, BeginContainment, ResetPending, Quiesce,
   LoadFlight, LoadPending, LoadCount, Expired, Calls, At, Schedule, Reschedule, Queue, Queued,
   NativeCancel, Cancel, CancelTrigger, gate, item, periodic, callers, vars

LEMMA RecordEffect ==
    ASSUME [Next]_vars
    PROVE  \/ record' = record
           \/ Start /\ Kind = "Counted" /\ record' = [record EXCEPT !.started = @ + 1]
           \/ \E c \in Clients : Submit(c) /\ Kind = "Counted" /\ ~Refused /\ record' = [record EXCEPT !.counted = @ + 1]
           \/ Finish /\ Kind = "Periodic" /\ record' = [record EXCEPT !.completed = @ + 1]
           \/ Rearm /\ Kind = "Periodic" /\ record' = [record EXCEPT !.missed = @ + (IF FixedRate THEN Missed ELSE 0)]
<1>1. CASE Start BY Zenon, <1>1 DEF Start
<1>2. CASE Finish BY Zenon, <1>2 DEF Finish
<1>3. CASE Rearm BY Zenon, <1>3 DEF Rearm, RearmCounted, RearmPeriodic, RearmTriggered
<1>4. CASE \E c \in Clients : Submit(c) BY Zenon, <1>4 DEF Submit
<1>5. CASE ~(Start \/ Finish \/ Rearm \/ \E c \in Clients : Submit(c))
  <2>1. record' = record
    BY Zenon, <1>5 DEF Next, HandlerStep, ClientStep, LifecycleStep, Tick, Expire, Signal, Take, Enter,
        Continue, Return, Admit, Reserve, ScheduleCall, CancelCall, CancelWait, CancelReset,
        FlushCall, FlushWait, Activate, Arm, RequestStop, RequestDrain, BeginContainment,
        ResetPending, Quiesce, LoadFlight, LoadPending, LoadCount, Expired, Calls, At, Schedule,
        Reschedule, Queue, Queued, NativeCancel, Cancel, CancelTrigger, gate, item, periodic,
        callers, vars
  <2> QED BY Zenon, <2>1
<1> QED BY Zenon, <1>1, <1>2, <1>3, <1>4, <1>5

LEMMA TypeStep ==
    ASSUME TypeOK, [Next]_vars
    PROVE  TypeOK'
<1>1. /\ now' \in 0 .. MaxTick /\ calls' \in 0 .. MaxCalls
    BY ClockEffect, DeclarationFacts DEF TypeOK
<1>2. pending' \in 0 .. (Modulus - 1)
  <2>1. PICK n \in Int, cap \in Int : n = pending /\ cap = Capacity /\ 0 <= n /\ n <= 999 /\ cap <= 998
    BY DeclarationFacts DEF TypeOK, Modulus
  <2>2. \/ pending' = n \/ pending' = 0 \/ (n # 0 /\ pending' = n - 1)
        \/ n < cap /\ pending' = n + 1
        \/ pending' = (n + Modulus - 1) % Modulus
    BY Zenon, <2>1, PendingEffect
  <2>3. (n + 1000 - 1) % 1000 \in 0 .. 999 BY <2>1
  <2>4. pending' \in 0 .. 999 BY <2>1, <2>2, <2>3 DEF Modulus
  <2> QED BY <2>4 DEF Modulus
<1>3. next' \in Nat /\ first' \in Nat
    BY ReleaseEffect, MissedFacts, DeclarationFacts DEF TypeOK
<1>4. due' \in Nat
    BY DueEffect, MissedFacts, DeclarationFacts, RegistrationAssumption DEF TypeOK
<1>5. record' \in [started : Nat, counted : Nat, completed : Nat, missed : Nat]
    BY RecordEffect, MissedFacts DEF TypeOK
<1> USE DEF Next, HandlerStep, ClientStep, LifecycleStep, Tick, Expire, Signal, Take, Enter,
           Start, Finish, Continue, Rearm, RearmCounted, RearmPeriodic, RearmTriggered, Return,
           Admit, Reserve, Submit, ScheduleCall, CancelCall, CancelWait, CancelReset,
           FlushCall, FlushWait, Activate, Arm, RequestStop, RequestDrain, BeginContainment,
           ResetPending, Quiesce, LoadFlight, LoadPending, LoadCount, Expired, Calls, At,
           Schedule, Reschedule, Queue, Queued, NativeCancel, Cancel, CancelTrigger, gate,
           item, periodic, callers, vars
<1>6. accepting' \in BOOLEAN /\ draining' \in BOOLEAN /\ inFlight' \in BOOLEAN
    BY Zenon DEF TypeOK
<1>7. claimed' \in BOOLEAN /\ armed' \in BOOLEAN
    BY Zenon DEF TypeOK
<1>8. late' \in BOOLEAN /\ declared' = declared
    BY Zenon DEF TypeOK
<1>9. handler' \in HandlerPlaces
    BY Zenon DEF TypeOK, HandlerPlaces
<1>10. stop' \in StopPlaces
    BY Zenon DEF TypeOK, StopPlaces
<1>11. client' \in [Clients -> ClientPlaces]
    BY Zenon DEF TypeOK, ClientPlaces
<1>12. flags' \subseteq {"QUEUED", "RUNNING", "CANCELING", "DELAYED"}
    BY Zenon DEF TypeOK
<1>13. MaxTick' = MaxTick /\ MaxCalls' = MaxCalls
    BY Zenon, <1>8 DEF MaxTick, MaxCalls
<1>14. declared' \in Declarations BY Zenon, <1>8 DEF TypeOK
<1> QED BY Zenon, <1>1, <1>2, <1>3, <1>4, <1>5, <1>6, <1>7, <1>8, <1>9, <1>10, <1>11, <1>12,
           <1>13, <1>14 DEF TypeOK

(* Only the queue and a cancellation change whether the item runs.         *)
LEMMA RunningEffect ==
    ASSUME [Next]_vars
    PROVE  \/ Take \/ Return
           \/ flags' = (IF "RUNNING" \in flags THEN {"RUNNING", "CANCELING"} ELSE {}) /\ UNCHANGED <<handler, inFlight>>
           \/ /\ "RUNNING" \in flags' <=> "RUNNING" \in flags
              /\ "CANCELING" \in flags' => "CANCELING" \in flags
              /\ handler' = "Idle" <=> handler = "Idle"
<1> USE DEF Next, HandlerStep, ClientStep, LifecycleStep, Tick, Expire, Signal, Take, Enter,
           Start, Finish, Continue, Rearm, RearmCounted, RearmPeriodic, RearmTriggered, Return,
           Admit, Reserve, Submit, ScheduleCall, CancelCall, CancelWait, CancelReset,
           FlushCall, FlushWait, Activate, Arm, RequestStop, RequestDrain, BeginContainment,
           ResetPending, Quiesce, LoadFlight, LoadPending, LoadCount, Expired, Calls, At,
           Schedule, Reschedule, Queue, Queued, NativeCancel, Cancel, CancelTrigger, gate,
           item, periodic, callers, vars
<1>1. SUFFICES ASSUME ~Take, ~Return
               PROVE  \/ flags' = (IF "RUNNING" \in flags THEN {"RUNNING", "CANCELING"} ELSE {}) /\ UNCHANGED <<handler, inFlight>>
                      \/ /\ "RUNNING" \in flags' <=> "RUNNING" \in flags
                         /\ "CANCELING" \in flags' => "CANCELING" \in flags
                         /\ handler' = "Idle" <=> handler = "Idle"
    BY Zenon
<1>2. \/ Cancel /\ UNCHANGED <<handler, inFlight>>
      \/ flags' \in {flags, flags \cup Queued, flags \cup {"DELAYED"}, (flags \ {"DELAYED"}) \cup Queued}
    BY Zenon, <1>1
<1>3. handler' = "Idle" <=> handler = "Idle" BY Zenon, <1>1
<1>4. CASE Cancel /\ UNCHANGED <<handler, inFlight>> BY Zenon, <1>4
<1>5. CASE flags' \in {flags, flags \cup Queued, flags \cup {"DELAYED"}, (flags \ {"DELAYED"}) \cup Queued}
  <2> HIDE DEF Next, vars
  <2>1. Queued \subseteq {"QUEUED"} BY Zenon DEF Queued
  <2>2. ("RUNNING" \in flags' <=> "RUNNING" \in flags) /\ ("CANCELING" \in flags' => "CANCELING" \in flags)
    BY Zenon, <1>5, <2>1
  <2> QED BY Zenon, <1>3, <2>2
<1> QED BY Zenon, <1>2, <1>4, <1>5

LEMMA HandlerStepAgrees ==
    ASSUME TypeOK, HandlerAgrees, [Next]_vars
    PROVE  HandlerAgrees'
<1>1. CASE Take BY Zenon, <1>1 DEF HandlerAgrees, Take
<1>2. CASE Return BY Zenon, <1>2 DEF HandlerAgrees, Return
<1>3. CASE ~Take /\ ~Return
  <2>1. inFlight' => handler' = "Behave"
    BY Zenon, <1>3 DEF HandlerAgrees, Next, HandlerStep, ClientStep, LifecycleStep, Tick, Expire, Signal, Take, Enter,
        Start, Finish, Continue, Rearm, RearmCounted, RearmPeriodic, RearmTriggered, Return,
        Admit, Reserve, Submit, ScheduleCall, CancelCall, CancelWait, CancelReset, FlushCall,
        FlushWait, Activate, Arm, RequestStop, RequestDrain, BeginContainment, ResetPending,
        Quiesce, LoadFlight, LoadPending, LoadCount, Expired, Calls, At, Schedule, Reschedule,
        Queue, Queued, NativeCancel, Cancel, CancelTrigger, gate, item, periodic, callers,
        vars
  <2> QED BY Zenon, <1>3, <2>1, RunningEffect DEF HandlerAgrees
<1> QED BY Zenon, <1>1, <1>2, <1>3

(* Where a client goes.                                                    *)
LEMMA ClientEffect ==
    ASSUME TypeOK, [Next]_vars, NEW c \in Clients
    PROVE  \/ client'[c] = client[c] \/ client'[c] = "Idle"
           \/ Admit(c) /\ client'[c] = "Reserve" /\ Kind \in {"Coalesced", "Counted"}
           \/ Admit(c) /\ client'[c] \in {"schedule", "reschedule"} /\ Kind = "Delayable"
           \/ Reserve(c) /\ client'[c] = "Native"
           \/ CancelCall(c) /\ client'[c] = "Reset" /\ "cancel" \in Ops
           \/ CancelCall(c) /\ client'[c] = "Wait" /\ "cancelSync" \in Ops
           \/ CancelWait(c) /\ client'[c] = "Reset"
           \/ FlushCall(c) /\ client'[c] = "Flush"
<1>1. ASSUME NEW d \in Clients, NEW p, At(d, p) PROVE client'[c] = IF c = d THEN p ELSE client[c]
    BY Zenon, <1>1 DEF At, TypeOK
<1>2. CASE UNCHANGED client BY Zenon, <1>2
<1>3. CASE \E d \in Clients : ClientStep(d)
  <2>1. PICK d \in Clients : ClientStep(d) BY Zenon, <1>3
  <2>2. \E p : At(d, p)
    BY Zenon, <2>1 DEF ClientStep, Admit, Reserve, Submit, ScheduleCall, CancelCall, CancelWait,
        CancelReset, FlushCall, FlushWait
  <2>3. CASE c # d BY Zenon, <1>1, <2>2, <2>3
  <2>4. CASE c = d
    <3>1. \A p : At(c, p) => client'[c] = p BY Zenon, <1>1
    <3>2. ClientStep(c) BY Zenon, <2>1, <2>4
    <3>3. CASE Admit(c) BY Zenon, <3>1, <3>3 DEF Admit
    <3>4. CASE Reserve(c) BY Zenon, <3>1, <3>4 DEF Reserve
    <3>5. CASE CancelCall(c) BY Zenon, <3>1, <3>5 DEF CancelCall, Calls
    <3>6. CASE CancelWait(c) BY Zenon, <3>1, <3>6 DEF CancelWait
    <3>7. CASE FlushCall(c) BY Zenon, <3>1, <3>7 DEF FlushCall
    <3>8. CASE Submit(c) \/ ScheduleCall(c) \/ CancelReset(c) \/ FlushWait(c)
      BY Zenon, <3>1, <3>8 DEF Submit, ScheduleCall, CancelReset, FlushWait
    <3> QED BY Zenon, <3>2, <3>3, <3>4, <3>5, <3>6, <3>7, <3>8 DEF ClientStep
  <2> QED BY Zenon, <2>3, <2>4
<1>4. (\E d \in Clients : ClientStep(d)) \/ UNCHANGED client
    BY Zenon DEF Next, HandlerStep, LifecycleStep, Tick, Expire, Signal, Take, Enter, Start, Finish,
        Continue, Rearm, RearmCounted, RearmPeriodic, RearmTriggered, Return, Activate, Arm,
        RequestStop, RequestDrain, BeginContainment, ResetPending, Quiesce, LoadFlight,
        LoadPending, LoadCount, Expired, gate, item, periodic, callers, vars
<1> QED BY Zenon, <1>2, <1>3, <1>4

LEMMA ClientsStepAgree ==
    ASSUME TypeOK, Uncancelled(declared), ClientsAgree, [Next]_vars
    PROVE  ClientsAgree'
<1>1. declared' = declared BY Zenon DEF Next, vars
<1>2. SUFFICES ASSUME NEW c \in Clients
               PROVE  /\ client'[c] \in {"Reserve", "Native"} => Kind \in {"Coalesced", "Counted"}
                      /\ client'[c] \in {"schedule", "reschedule"} => Kind = "Delayable"
                      /\ client'[c] = "Reset" => Kind # "Counted"
                      /\ client'[c] = "Wait" => Kind \notin {"Counted", "PollTriggered"}
    BY Zenon, <1>1 DEF ClientsAgree, Kind
<1>3. /\ "cancel" \in Ops => Kind # "Counted"
      /\ "cancelSync" \in Ops => Kind \notin {"Counted", "PollTriggered"}
    BY Zenon DEF Uncancelled, Kind, Ops
<1>4. Reserve(c) => client[c] = "Reserve" BY Zenon DEF Reserve
<1>5. CancelWait(c) => client[c] = "Wait" BY Zenon DEF CancelWait
<1> QED BY Zenon, <1>3, <1>4, <1>5, ClientEffect DEF ClientsAgree

LEMMA StagesStepAgree ==
    ASSUME TypeOK, HandlerAgrees, ClientsAgree, StagesAgree, TriggerAgrees, [Next]_vars
    PROVE  StagesAgree'
<1> USE DEF Next, HandlerStep, ClientStep, LifecycleStep, Tick, Expire, Signal, Take, Enter,
           Start, Finish, Continue, Rearm, RearmCounted, RearmPeriodic, RearmTriggered, Return,
           Admit, Reserve, Submit, ScheduleCall, CancelCall, CancelWait, CancelReset,
           FlushCall, FlushWait, Activate, Arm, RequestStop, RequestDrain, BeginContainment,
           ResetPending, Quiesce, LoadFlight, LoadPending, LoadCount, Expired, Calls, At,
           Schedule, Reschedule, Queue, Queued, NativeCancel, Cancel, CancelTrigger, gate,
           item, periodic, callers, vars
<1>1. declared' = declared BY Zenon
<1>2. accepting' => stop' \in {"Arm", "Run"} BY Zenon DEF StagesAgree
<1>3. ASSUME Kind \in {"Periodic", "PollTriggered"}, stop' \in {"Boot", "Arm"}
      PROVE  flags' = {} /\ ~armed' /\ UNCHANGED record
  <2>1. stop \in {"Boot", "Arm"} BY Zenon, <1>3 
  <2>2. flags = {} /\ handler = "Idle" /\ ~armed BY Zenon, <1>3, <2>1 DEF StagesAgree, HandlerAgrees
  <2>3. \A c \in Clients : client[c] \notin {"Native", "schedule", "reschedule"}
    <3> HIDE DEF Next, vars
    <3> QED BY Zenon, <1>3 DEF ClientsAgree
  <2>4. /\ stop' # "Run" /\ "RUNNING" \notin flags /\ "QUEUED" \notin flags /\ "DELAYED" \notin flags
        /\ handler \notin {"Enter", "Start", "Behave", "Continue", "Rearm", "Return"}
    <3> HIDE DEF Next, vars
    <3> QED BY Zenon, <1>3, <2>2
  <2>5. ~armed' BY Zenon, <2>2, <2>4
  <2>6. UNCHANGED record BY Zenon, <2>3, <2>4
  <2>7. flags' = flags \/ flags' = {}
    BY Zenon, <1>3, <2>1, <2>2, <2>3, <2>4
  <2> QED BY Zenon, <2>2, <2>5, <2>6, <2>7
<1>4. ASSUME stop' = "Boot"
      PROVE  pending' = 0 /\ \A c \in Clients : client'[c] \notin {"Reserve", "Native"}
  <2>1. stop = "Boot" BY Zenon, <1>4
  <2> HIDE DEF Next, vars
  <2>2. /\ ~accepting /\ pending = 0 /\ \A c \in Clients : client[c] \notin {"Reserve", "Native"}
    BY Zenon, <2>1 DEF StagesAgree
  <2>3. \A c \in Clients : ~Admit(c) /\ ~Reserve(c) /\ ~Submit(c)
    BY Zenon, <2>2 DEF Admit, Reserve, Submit
  <2>4. pending' = 0 BY Zenon, <2>2, <2>3, PendingEffect
  <2>5. \A c \in Clients : client'[c] \notin {"Reserve", "Native"}
    <3> HIDE DEF Admit, Reserve, CancelCall, CancelWait, FlushCall
    <3> QED BY Zenon, <2>2, <2>3, ClientEffect
  <2> QED BY Zenon, <2>4, <2>5
<1>5. stop' = "Reset" => StopPolicy = "CancelPending" BY Zenon DEF StagesAgree
<1>6. StopPolicy' = StopPolicy BY Zenon, <1>1 DEF StopPolicy
<1> QED BY Zenon, <1>1, <1>2, <1>3, <1>4, <1>5, <1>6 DEF StagesAgree, Kind

(* A counted registration that nobody cancels.                             *)
LEMMA CountedFacts ==
    ASSUME TypeOK, Uncancelled(declared), ClientsAgree, StagesAgree, CountedAgrees,
           Kind = "Counted", [Next]_vars
    PROVE  /\ ~Refused /\ UNCHANGED Kind
           /\ ~ResetPending /\ \A c \in Clients : ~CancelReset(c) /\ ~CancelCall(c) /\ ~CancelWait(c)
           /\ BeginContainment => UNCHANGED item
<1>1. "CANCELING" \notin flags BY Zenon DEF CountedAgrees
<1>2. StopPolicy # "CancelPending" /\ "cancel" \notin Ops /\ "cancelSync" \notin Ops
    BY Zenon DEF Uncancelled, Kind, StopPolicy, Ops
<1>3. declared' = declared BY Zenon DEF Next, vars
<1>4. ~ResetPending BY Zenon, <1>2 DEF ResetPending, StagesAgree
<1>5. \A c \in Clients : client[c] # "Reset" /\ client[c] # "Wait"
    BY Zenon DEF ClientsAgree
<1>6. \A c \in Clients : ~CancelReset(c) /\ ~CancelCall(c) /\ ~CancelWait(c)
    BY Zenon, <1>2, <1>5 DEF CancelReset, CancelCall, CancelWait, Calls
<1>7. Kind \notin {"Periodic", "PollTriggered"} /\ Kind # "Delayable" BY Zenon
<1>8. BeginContainment => UNCHANGED item
    BY Zenon, <1>2, <1>7 DEF BeginContainment
<1> QED BY Zenon, <1>1, <1>3, <1>4, <1>6, <1>8 DEF Refused, Kind

LEMMA CountedStepAgrees ==
    ASSUME TypeOK, Uncancelled(declared), ClientsAgree, StagesAgree, CountedAgrees, [Next]_vars
    PROVE  CountedAgrees'
<1>1. declared' = declared BY Zenon DEF Next, vars
<1>2. CASE Kind = "Counted"
  <2>1. /\ ~Refused /\ ~ResetPending /\ \A c \in Clients : ~CancelReset(c) /\ ~CancelCall(c) /\ ~CancelWait(c)
        /\ BeginContainment => UNCHANGED item
    BY Zenon, <1>2, CountedFacts
  <2>2. PICK n \in Nat, cap \in Nat : n = pending /\ cap = Capacity /\ n <= cap
    <3>1. pending <= Capacity BY Zenon, <1>2 DEF CountedAgrees
    <3>2. pending \in Nat BY DEF TypeOK, Modulus
    <3>3. Capacity \in Nat
      <4>1. Capacity \in 1..998 BY Zenon, DeclarationFacts
      <4> QED BY <4>1
    <3> QED BY Zenon, <3>1, <3>2, <3>3
  <2>3. pending' = n \/ (n # 0 /\ pending' = n - 1) \/ (n < cap /\ pending' = n + 1)
    BY Zenon, <2>1, <2>2, PendingEffect
  <2>4. pending' <= cap BY <2>2, <2>3
  <2>5. \/ flags' \in {flags, flags \cup Queued, flags \cup {"DELAYED"}, (flags \ {"DELAYED"}) \cup Queued}
        \/ flags' \in {(flags \ {"QUEUED"}) \cup {"RUNNING"}, flags \ {"RUNNING", "CANCELING"}}
    BY Zenon, <2>1 DEF Next, HandlerStep, ClientStep, LifecycleStep, Tick, Expire, Signal, Take, Enter, Start,
        Finish, Continue, Rearm, RearmCounted, RearmPeriodic, RearmTriggered, Return, Admit,
        Reserve, Submit, ScheduleCall, CancelWait, FlushCall, FlushWait, Activate, Arm,
        RequestStop, RequestDrain, Quiesce, LoadFlight, LoadPending,
        LoadCount, Expired, Calls, At, Schedule, Reschedule, Queue, Queued, gate, item,
        periodic, callers, vars
  <2>6. "CANCELING" \notin flags /\ Queued \subseteq {"QUEUED"}
    BY Zenon, <1>2 DEF CountedAgrees, Queued
  <2>7. "CANCELING" \notin flags' BY <2>5, <2>6
  <2>8. Kind' = Kind /\ Capacity' = Capacity BY Zenon, <1>1 DEF Kind, Capacity
  <2> QED BY Zenon, <1>2, <2>2, <2>4, <2>7, <2>8 DEF CountedAgrees
<1>3. CASE Kind # "Counted"
  <2>1. pending = 0 BY Zenon, <1>3 DEF CountedAgrees
  <2>2. pending' = 0 BY Zenon, <1>3, <2>1, PendingEffect
  <2> QED BY Zenon, <1>1, <1>3, <2>2 DEF CountedAgrees, Kind
<1> QED BY Zenon, <1>2, <1>3

(* The clients that hold a reservation.                                    *)
LEMMA SubmittersEffect ==
    ASSUME TypeOK, [Next]_vars
    PROVE  /\ IsFiniteSet(Submitters) /\ Cardinality(Submitters) \in Nat
           /\ \A c \in Clients : Reserve(c) /\ client'[c] = "Native" =>
                 /\ Submitters' = Submitters \cup {c}
                 /\ Cardinality(Submitters') = Cardinality(Submitters) + 1
           /\ \A c \in Clients : Submit(c) =>
                 /\ Submitters' = Submitters \ {c}
                 /\ Cardinality(Submitters') = Cardinality(Submitters) - 1
           /\ (\A c \in Clients : ~Submit(c) /\ (Reserve(c) => client'[c] # "Native")) =>
                 Submitters' = Submitters
<1>1. Submitters \in SUBSET Clients BY Zenon DEF Submitters
<1>2. IsFiniteSet(Submitters) /\ Cardinality(Submitters) \in Nat
    BY Zenon, <1>1, RegistrationAssumption, FS_Subset, FS_CardinalityType
<1>3. ASSUME NEW c \in Clients, Reserve(c), client'[c] = "Native"
      PROVE  /\ Submitters' = Submitters \cup {c}
             /\ Cardinality(Submitters') = Cardinality(Submitters) + 1
  <2>1. client[c] = "Reserve" /\ \E p : At(c, p) BY Zenon, <1>3 DEF Reserve
  <2>2. \A d \in Clients : d # c => client'[d] = client[d] BY Zenon, <2>1 DEF At, TypeOK
  <2>3. Submitters' = Submitters \cup {c} BY Zenon, <1>3, <2>2 DEF Submitters
  <2>4. c \notin Submitters BY Zenon, <2>1 DEF Submitters
  <2> QED BY Zenon, <1>2, <2>3, <2>4, FS_AddElement
<1>4. ASSUME NEW c \in Clients, Submit(c)
      PROVE  /\ Submitters' = Submitters \ {c}
             /\ Cardinality(Submitters') = Cardinality(Submitters) - 1
  <2>1. client[c] = "Native" /\ At(c, "Idle") BY Zenon, <1>4 DEF Submit
  <2>2. client'[c] = "Idle" /\ \A d \in Clients : d # c => client'[d] = client[d]
    BY Zenon, <2>1 DEF At, TypeOK
  <2>3. Submitters' = Submitters \ {c} BY Zenon, <2>2 DEF Submitters
  <2>4. c \in Submitters BY Zenon, <2>1 DEF Submitters
  <2> QED BY Zenon, <1>2, <2>3, <2>4, FS_RemoveElement
<1>5. ASSUME \A c \in Clients : ~Submit(c) /\ (Reserve(c) => client'[c] # "Native")
      PROVE  Submitters' = Submitters
  <2>1. ASSUME NEW c \in Clients PROVE client'[c] = "Native" => client[c] = "Native"
    BY Zenon, <1>5, ClientEffect
  <2>2. ASSUME NEW c \in Clients, client[c] = "Native" PROVE client'[c] = client[c]
    <3>1. CASE UNCHANGED client BY Zenon, <3>1
    <3>2. CASE \E d \in Clients : ClientStep(d)
      <4>1. PICK d \in Clients : ClientStep(d) BY Zenon, <3>2
      <4>2. d # c /\ \E p : At(d, p)
        BY Zenon, <1>5, <2>2, <4>1 DEF ClientStep, Admit, Reserve, ScheduleCall, CancelCall, CancelWait,
            CancelReset, FlushCall, FlushWait, Calls
      <4> QED BY Zenon, <4>2 DEF At, TypeOK
    <3>3. (\E d \in Clients : ClientStep(d)) \/ UNCHANGED client
      BY Zenon DEF Next, HandlerStep, LifecycleStep, Tick, Expire, Signal, Take, Enter, Start, Finish,
          Continue, Rearm, RearmCounted, RearmPeriodic, RearmTriggered, Return, Activate, Arm,
          RequestStop, RequestDrain, BeginContainment, ResetPending, Quiesce, LoadFlight,
          LoadPending, LoadCount, Expired, gate, item, periodic, callers, vars
    <3> QED BY Zenon, <3>1, <3>2, <3>3
  <2> QED BY Zenon, <2>1, <2>2 DEF Submitters
<1> QED BY Zenon, <1>2, <1>3, <1>4, <1>5

LEMMA CountedStepExact ==
    ASSUME TypeOK, Uncancelled(declared), ClientsAgree, StagesAgree, CountedAgrees,
           CountedExactly, [Next]_vars
    PROVE  CountedExactly'
<1>1. declared' = declared BY Zenon DEF Next, vars
<1>2. SUFFICES ASSUME Kind = "Counted"
               PROVE  record'.counted + Cardinality(Submitters') =
                          record'.started + pending' + (IF handler' = "Start" THEN 1 ELSE 0)
    BY Zenon, <1>1 DEF CountedExactly, Kind
<1>3. /\ ~Refused /\ ~ResetPending /\ \A c \in Clients : ~CancelReset(c) /\ ~CancelCall(c) /\ ~CancelWait(c)
    BY Zenon, <1>2, CountedFacts
<1>4. PICK k \in Nat, r \in Nat, q \in Nat, n \in Nat :
          /\ k = record.counted /\ r = record.started /\ q = Cardinality(Submitters) /\ n = pending
  <2>1. pending \in Nat BY DEF TypeOK, Modulus
  <2>2. record.counted \in Nat /\ record.started \in Nat BY Zenon DEF TypeOK
  <2> QED BY Zenon, <2>1, <2>2, SubmittersEffect
<1>5. k + q = r + n + (IF handler = "Start" THEN 1 ELSE 0)
    BY Zenon, <1>2, <1>4 DEF CountedExactly
<1>6. CASE Enter
  <2>1. handler = "Enter" /\ UNCHANGED <<record, client>>
    BY Zenon, <1>6 DEF Enter, callers
  <2>2. \/ handler' = "Return" /\ pending' = n
        \/ handler' = "Start" /\ pending' = n - 1
    BY Zenon, <1>2, <1>4, <1>6 DEF Enter, Consume
  <2>3. Submitters' = Submitters BY Zenon, <2>1 DEF Submitters
  <2> QED BY <1>4, <1>5, <2>1, <2>2, <2>3
<1>7. CASE Start
  <2>1. handler = "Start" /\ handler' = "Behave" /\ UNCHANGED <<pending, client>>
    BY Zenon, <1>7 DEF Start, callers
  <2>2. record' = [record EXCEPT !.started = @ + 1] BY Zenon, <1>2, <1>7 DEF Start
  <2>3. record'.started = r + 1 /\ record'.counted = k BY Zenon, <1>4, <2>2 DEF TypeOK
  <2>4. Submitters' = Submitters BY Zenon, <2>1 DEF Submitters
  <2> QED BY <1>4, <1>5, <2>1, <2>3, <2>4
<1>8. CASE \E c \in Clients : Submit(c)
  <2>1. PICK c \in Clients : Submit(c) BY Zenon, <1>8
  <2>2. record' = [record EXCEPT !.counted = @ + 1] /\ UNCHANGED <<pending, handler>>
    BY Zenon, <1>2, <1>3, <2>1 DEF Submit
  <2>3. record'.started = r /\ record'.counted = k + 1 BY Zenon, <1>4, <2>2 DEF TypeOK
  <2>4. Cardinality(Submitters') = q - 1 BY Zenon, <1>4, <2>1, SubmittersEffect
  <2> QED BY <1>4, <1>5, <2>2, <2>3, <2>4
<1>9. CASE \E c \in Clients : Reserve(c)
  <2>1. PICK c \in Clients : Reserve(c) BY Zenon, <1>9
  <2>2. UNCHANGED <<record, handler>> BY Zenon, <2>1 DEF Reserve
  <2>3. ASSUME NEW p, At(c, p) PROVE client'[c] = p BY Zenon, <2>3 DEF At, TypeOK
  <2>4. \/ client'[c] = "Native" /\ pending' = n + 1
        \/ client'[c] = "Idle" /\ pending' = n
    BY Zenon, <1>2, <1>4, <2>1, <2>3 DEF Reserve
  <2>5. \A d \in Clients : d # c => client'[d] = client[d]
    BY Zenon, <2>1 DEF Reserve, At, TypeOK
  <2>6. CASE client'[c] = "Native" /\ pending' = n + 1
    <3>1. Cardinality(Submitters') = q + 1 BY Zenon, <1>4, <2>1, <2>6, SubmittersEffect
    <3>2. PICK e \in Nat : e = IF handler = "Start" THEN 1 ELSE 0 BY Zenon
    <3>3. e = IF handler' = "Start" THEN 1 ELSE 0 BY Zenon, <2>2, <3>2
    <3>4. record'.counted = k /\ record'.started = r BY Zenon, <1>4, <2>2
    <3>5. k + q = r + n + e BY Zenon, <1>5, <3>2
    <3>6. k + (q + 1) = r + (n + 1) + e BY <3>5
    <3> QED BY Zenon, <2>6, <3>1, <3>3, <3>4, <3>6
  <2>7. CASE client'[c] = "Idle" /\ pending' = n
    <3>1. client[c] = "Reserve" BY Zenon, <2>1 DEF Reserve
    <3>2. Submitters' = Submitters BY Zenon, <2>5, <2>7, <3>1 DEF Submitters
    <3> QED BY Zenon, <1>4, <1>5, <2>2, <2>7, <3>2
  <2> QED BY Zenon, <2>4, <2>6, <2>7
<1>10. CASE ~(Enter \/ Start \/ \E c \in Clients : Submit(c) \/ Reserve(c))
  <2>1. Submitters' = Submitters BY Zenon, <1>10, SubmittersEffect
  <2>2. pending' = pending BY Zenon, <1>3, <1>10, PendingEffect
  <2>3. handler' = "Start" <=> handler = "Start"
    BY Zenon, <1>10 DEF Next, HandlerStep, ClientStep, LifecycleStep, Tick, Expire, Signal, Take, Finish,
        Continue, Rearm, RearmCounted, RearmPeriodic, RearmTriggered, Return, Admit,
        ScheduleCall, CancelCall, CancelWait, CancelReset, FlushCall, FlushWait, Activate, Arm,
        RequestStop, RequestDrain, BeginContainment, ResetPending, Quiesce, LoadFlight,
        LoadPending, LoadCount, Expired, Calls, At, Schedule, Reschedule, Queue, Queued,
        NativeCancel, Cancel, CancelTrigger, gate, item, periodic, callers, vars
  <2>4. record'.counted = record.counted /\ record'.started = record.started
    <3>1. Kind # "Periodic" BY Zenon, <1>2
    <3>2. UNCHANGED record BY Zenon, <1>10, <3>1, RecordEffect
    <3> QED BY Zenon, <3>2
  <2> QED BY Zenon, <1>4, <1>5, <2>1, <2>2, <2>3, <2>4
<1> QED BY Zenon, <1>6, <1>7, <1>8, <1>9, <1>10

LEMMA NotStrandedStep ==
    ASSUME TypeOK, Uncancelled(declared), ClientsAgree, StagesAgree, CountedAgrees, CountedAgrees',
           OccurrenceNotStranded, [Next]_vars
    PROVE  OccurrenceNotStranded'
<1>1. SUFFICES ASSUME pending' # 0, accepting' PROVE OnItsWay'
    BY Zenon DEF OccurrenceNotStranded
<1>2. Kind = "Counted"
  <2>1. declared' = declared BY Zenon DEF Next, vars
  <2> QED BY Zenon, <1>1, <2>1 DEF CountedAgrees, Kind
<1>3. /\ ~Refused /\ ~ResetPending /\ \A c \in Clients : ~CancelReset(c) /\ ~CancelCall(c) /\ ~CancelWait(c)
      /\ BeginContainment => UNCHANGED item
    BY Zenon, <1>2, CountedFacts
<1>4. "QUEUED" \in Queued BY Zenon, <1>3 DEF Queued
<1>5. CASE \E c \in Clients : Reserve(c) /\ client'[c] = "Native"
  <2>1. PICK c \in Clients : client'[c] = "Native" BY Zenon, <1>5
  <2>2. c \in Submitters' BY Zenon, <2>1 DEF Submitters
  <2> QED BY Zenon, <2>2 DEF OnItsWay
<1>6. CASE \E c \in Clients : Submit(c)
  <2>1. "QUEUED" \in flags' BY Zenon, <1>3, <1>4, <1>6 DEF Submit, Queue
  <2> QED BY Zenon, <2>1 DEF OnItsWay
<1>7. CASE Rearm
  <2>1. "QUEUED" \in flags' BY Zenon, <1>2, <1>4, <1>7 DEF Rearm, RearmCounted, RearmPeriodic, RearmTriggered, Queue
  <2> QED BY Zenon, <2>1 DEF OnItsWay
<1>8. CASE Take
  <2>1. handler' = "Enter" BY Zenon, <1>8 DEF Take
  <2> QED BY Zenon, <2>1 DEF OnItsWay
<1>9. CASE ~(Rearm \/ Take) /\ \A c \in Clients : ~Submit(c) /\ (Reserve(c) => client'[c] # "Native")
  <2>1. accepting /\ pending # 0
    <3>1. ~Activate
      <4>1. Activate => stop = "Boot" /\ pending' = pending BY Zenon DEF Activate
      <4> QED BY Zenon, <1>1, <4>1 DEF StagesAgree
    <3>2. accepting BY Zenon, <1>1, <1>9, <3>1 DEF Next, HandlerStep, ClientStep, LifecycleStep, Tick, Expire, Signal, Take, Enter, Start,
          Finish, Continue, Rearm, RearmCounted, RearmPeriodic, RearmTriggered, Return, Admit,
          Reserve, ScheduleCall, CancelCall, CancelWait, CancelReset, FlushCall, FlushWait, Arm,
          RequestStop, RequestDrain, BeginContainment, ResetPending, Quiesce, LoadFlight,
          LoadPending, LoadCount, Expired, Calls, At, Schedule, Reschedule, Queue, Queued,
          NativeCancel, Cancel, CancelTrigger, gate, item, periodic, callers, vars
    <3>3. \/ pending' = pending
          \/ Enter /\ pending # 0
          \/ \E c \in Clients : Reserve(c) /\ pending' = pending + 1
      BY Zenon, <1>3, <1>9, PendingEffect
    <3>4. ASSUME NEW c \in Clients, Reserve(c) PROVE pending' = pending
      <4>1. ASSUME NEW p, At(c, p) PROVE client'[c] = p BY Zenon, <4>1 DEF At, TypeOK
      <4> QED BY Zenon, <1>2, <1>9, <3>4, <4>1 DEF Reserve
    <3> QED BY Zenon, <1>1, <3>2, <3>3, <3>4
  <2>2. OnItsWay BY Zenon, <2>1 DEF OccurrenceNotStranded
  <2>3. Submitters' = Submitters BY Zenon, <1>9, SubmittersEffect
  <2>4. "QUEUED" \in flags => "QUEUED" \in flags'
    <3>1. flags' \in {flags, flags \cup Queued, flags \cup {"DELAYED"}, (flags \ {"DELAYED"}) \cup Queued,
                     flags \ {"RUNNING", "CANCELING"}}
      <4>1. CASE HandlerStep
        BY Zenon, <1>9, <4>1 DEF HandlerStep, Enter, Start, Finish, Continue, Return, item
      <4>2. CASE \E c \in Clients : ClientStep(c)
        BY Zenon, <1>3, <1>9, <4>2 DEF ClientStep, Admit, Reserve, ScheduleCall, FlushCall,
           FlushWait, Schedule, Reschedule, Queue, item
      <4>3. CASE LifecycleStep
        BY Zenon, <1>3, <4>3 DEF LifecycleStep, Activate, Arm, RequestStop, RequestDrain, Quiesce,
           Schedule, Queue, item
      <4>4. CASE Tick \/ Expire \/ Signal \/ Expired \/ UNCHANGED vars
        BY Zenon, <4>4 DEF Tick, Expire, Signal, Expired, Queue, item, vars
      <4> QED BY Zenon, <4>1, <4>2, <4>3, <4>4 DEF Next
    <3> QED BY Zenon, <3>1
  <2>5. CASE handler \notin {"Idle", "Return"}
    <3>1. Enter => handler' = "Start" BY Zenon, <2>1 DEF Enter, Empty
    <3>2. Continue => handler' = "Rearm" BY Zenon, <1>2, <2>1 DEF Continue, Continues
    <3>3. ~Return BY Zenon, <2>5 DEF Return
    <3>5. handler' = handler \/ handler' \in {"Start", "Rearm", "Behave", "Continue"}
      <4>1. CASE HandlerStep BY Zenon, <1>9, <3>1, <3>2, <3>3, <4>1 DEF HandlerStep, Start, Finish
      <4>2. CASE ~HandlerStep
        BY Zenon, <4>2 DEF Next, ClientStep, LifecycleStep, Tick, Expire, Signal, Admit, Reserve,
           Submit, ScheduleCall, CancelCall, CancelWait, CancelReset, FlushCall, FlushWait, Activate,
           Arm, RequestStop, RequestDrain, BeginContainment, ResetPending, Quiesce, Expired, vars
      <4> QED BY Zenon, <4>1, <4>2
    <3>4. handler' \notin {"Idle", "Return"} BY Zenon, <2>5, <3>5
    <3> QED BY Zenon, <3>4 DEF OnItsWay
  <2> QED BY Zenon, <2>2, <2>3, <2>4, <2>5 DEF OnItsWay
<1> QED BY Zenon, <1>5, <1>6, <1>7, <1>8, <1>9

(* The claim of a triggered item: the other kinds have none.               *)
LEMMA TriggerStepAgrees ==
    ASSUME TypeOK, Uncancelled(declared), HandlerAgrees, ClientsAgree, StagesAgree, TriggerAgrees,
           [Next]_vars
    PROVE  TriggerAgrees'
<1>1. declared' = declared BY Zenon DEF Next, vars
<1>2. CASE Kind # "PollTriggered"
  <2>1. ~claimed /\ ~armed BY Zenon, <1>2 DEF TriggerAgrees
  <2>2. /\ claimed' = claimed \/ claimed' = FALSE \/ claimed' = (claimed /\ ~armed)
        /\ armed' = armed \/ armed' = FALSE
    <3>1. CASE HandlerStep
      BY Zenon, <1>2, <3>1 DEF HandlerStep, Take, Enter, Start, Finish, Continue, Rearm, RearmCounted,
         RearmPeriodic, RearmTriggered, Return, item
    <3>2. CASE \E c \in Clients : ClientStep(c)
      BY Zenon, <3>2 DEF ClientStep, Admit, Reserve, Submit, ScheduleCall, CancelCall, CancelWait,
         CancelReset, FlushCall, FlushWait, NativeCancel, CancelTrigger, item
    <3>3. CASE LifecycleStep
      BY Zenon, <1>2, <3>3 DEF LifecycleStep, Activate, Arm, RequestStop, RequestDrain,
         BeginContainment, ResetPending, Quiesce, NativeCancel, CancelTrigger, item
    <3>4. CASE Tick \/ Expire \/ Signal \/ Expired \/ UNCHANGED vars
      BY Zenon, <3>4 DEF Tick, Expire, Signal, Expired, item, vars
    <3> QED BY Zenon, <3>1, <3>2, <3>3, <3>4 DEF Next
  <2>3. ~claimed' /\ ~armed'
    <3>1. claimed = FALSE /\ armed = FALSE BY Zenon, <2>1 DEF TypeOK
    <3>2. claimed' = FALSE BY Zenon, <2>2, <3>1
    <3>3. armed' = FALSE BY Zenon, <2>2, <3>1
    <3> QED BY Zenon, <3>2, <3>3
  <2> QED BY Zenon, <1>1, <1>2, <2>3 DEF TriggerAgrees, Kind
<1>3. CASE Kind = "PollTriggered"
  <2>1. /\ flags \in {{}, {"QUEUED"}, {"RUNNING"}}
        /\ flags # {} => claimed /\ ~armed
        /\ armed => claimed
    BY Zenon, <1>3 DEF TriggerAgrees
  <2>2. SUFFICES /\ flags' \in {{}, {"QUEUED"}, {"RUNNING"}}
                 /\ flags' # {} => claimed' /\ ~armed'
                 /\ armed' => claimed'
    BY Zenon, <1>1, <1>3 DEF TriggerAgrees, Kind
  <2>3. \A c \in Clients : ~Submit(c) /\ ~ScheduleCall(c) /\ ~CancelWait(c)
    <3>1. \A c \in Clients : client[c] \notin {"Native", "schedule", "reschedule", "Wait"}
      BY Zenon, <1>3 DEF ClientsAgree
    <3> QED BY Zenon, <3>1 DEF Submit, ScheduleCall, CancelWait
  <2>4. Queued = {"QUEUED"}
    <3>1. "CANCELING" \notin flags BY <2>1
    <3> QED BY Zenon, <3>1 DEF Queued, Refused
  <2>5. CASE Take
    <3>1. "QUEUED" \in flags /\ flags' = (flags \ {"QUEUED"}) \cup {"RUNNING"} /\ claimed' = claimed /\ armed' = armed
      BY Zenon, <2>5 DEF Take
    <3>2. flags = {"QUEUED"} BY Zenon, <2>1, <3>1
    <3> QED BY Zenon, <2>1, <3>1, <3>2
  <2>6. CASE Return
    <3>1. /\ handler = "Return" /\ flags' = flags \ {"RUNNING", "CANCELING"} /\ claimed' = FALSE
          /\ armed' = armed
      BY Zenon, <2>6 DEF Return
    <3>2. flags = {"RUNNING"}
      <4>1. "RUNNING" \in flags BY Zenon, <3>1 DEF HandlerAgrees
      <4> QED BY Zenon, <2>1, <4>1
    <3>3. flags' = {} BY Zenon, <3>1, <3>2
    <3>4. ~armed BY Zenon, <2>1, <3>2
    <3> QED BY Zenon, <3>1, <3>3, <3>4
  <2>7. CASE Rearm
    <3>1. handler = "Rearm" /\ RearmTriggered BY Zenon, <1>3, <2>7 DEF Rearm, RearmCounted, RearmPeriodic
    <3>2. "RUNNING" \in flags BY Zenon, <3>1 DEF HandlerAgrees
    <3>3. claimed BY Zenon, <2>1, <3>2
    <3>4. UNCHANGED <<flags, claimed, armed>> BY Zenon, <3>1, <3>3 DEF RearmTriggered
    <3> QED BY Zenon, <2>1, <3>4
  <2>8. CASE Signal
    <3>1. armed /\ ~armed' /\ flags' = flags \cup Queued /\ claimed' = claimed
      BY Zenon, <2>8 DEF Signal, Queue
    <3>2. flags = {} BY Zenon, <2>1, <3>1
    <3>3. flags' = {"QUEUED"} BY Zenon, <2>4, <3>1, <3>2
    <3> QED BY Zenon, <2>1, <3>1, <3>3
  <2>9. CASE Arm
    <3>1. stop = "Arm" /\ claimed' /\ armed' /\ flags' = flags BY Zenon, <1>3, <2>9 DEF Arm
    <3>2. flags = {} BY Zenon, <1>3, <3>1 DEF StagesAgree
    <3> QED BY Zenon, <3>1, <3>2
  <2>10. CASE BeginContainment \/ \E c \in Clients : CancelCall(c)
    <3>1. "cancelSync" \notin Ops BY Zenon, <1>3 DEF Uncancelled, Kind, Ops
    <3>2. CancelTrigger /\ flags' = flags
      BY Zenon, <1>3, <2>10, <3>1 DEF BeginContainment, CancelCall, NativeCancel, Calls
    <3>3. ~armed' /\ claimed' = (claimed /\ ~armed) BY Zenon, <3>2 DEF CancelTrigger
    <3> QED BY Zenon, <2>1, <3>2, <3>3
  <2>11. CASE ~(Take \/ Return \/ Rearm \/ Signal \/ Arm \/ BeginContainment \/ \E c \in Clients : CancelCall(c))
    <3>1. "DELAYED" \notin flags BY <2>1
    <3>2. UNCHANGED <<flags, claimed, armed>>
      <4>1. CASE HandlerStep BY Zenon, <2>11, <4>1 DEF HandlerStep, Enter, Start, Finish, Continue, item
      <4>2. CASE \E c \in Clients : ClientStep(c)
        BY Zenon, <2>3, <2>11, <3>1, <4>2 DEF ClientStep, Admit, Reserve, CancelReset, FlushCall, FlushWait, item
      <4>3. CASE LifecycleStep
        BY Zenon, <2>11, <4>3 DEF LifecycleStep, Activate, RequestStop, RequestDrain, ResetPending, Quiesce, item
      <4>4. CASE Tick \/ Expire \/ Expired \/ UNCHANGED vars
        BY Zenon, <3>1, <4>4 DEF Tick, Expire, Expired, item, vars
      <4> QED BY Zenon, <2>11, <4>1, <4>2, <4>3, <4>4 DEF Next
    <3> QED BY Zenon, <2>1, <3>2
  <2> QED BY Zenon, <2>5, <2>6, <2>7, <2>8, <2>9, <2>10, <2>11
<1> QED BY Zenon, <1>2, <1>3

(* Once the stop has seen the item idle only a late submission wakes it.   *)
LEMMA SeenIdleStep ==
    ASSUME TypeOK, HandlerAgrees, TriggerAgrees, SeenIdle, [Next]_vars
    PROVE  SeenIdle'
<1>1. SUFFICES ASSUME stop' \in {"Count", "Quiescent"}, ~late' PROVE flags' = {} /\ ~armed'
    BY Zenon DEF SeenIdle
<1>2. CASE stop \in {"Count", "Quiescent"}
  <2>1. ~late
    BY Zenon, <1>1 DEF Next, HandlerStep, ClientStep, LifecycleStep, Tick, Expire, Signal,
       Take, Enter, Start, Finish, Continue, Rearm, RearmCounted, RearmPeriodic,
       RearmTriggered, Return, Admit, Reserve, Submit, ScheduleCall, CancelCall, CancelWait,
       CancelReset, FlushCall, FlushWait, Activate, Arm, RequestStop, RequestDrain,
       BeginContainment, ResetPending, Quiesce, LoadFlight, LoadPending, LoadCount, Expired,
       Calls, At, Schedule, Reschedule, Queue, Queued, NativeCancel, Cancel, CancelTrigger,
       gate, item, periodic, callers, vars, TypeOK
  <2>2. flags = {} /\ ~armed BY Zenon, <1>2, <2>1 DEF SeenIdle
  <2>3. /\ "RUNNING" \notin flags /\ "QUEUED" \notin flags /\ "DELAYED" \notin flags
        /\ handler \notin {"Enter", "Start", "Behave", "Continue", "Rearm", "Return"}
        /\ stop \notin {"Boot", "Arm", "Run", "Drain", "Begin", "Reset"}
    BY Zenon, <1>2, <2>2 DEF HandlerAgrees
  <2>4. \A c \in Clients : ~ScheduleCall(c) /\ (Submit(c) => flags' = flags)
    BY Zenon, <1>1, <2>3 DEF ScheduleCall, Submit, Closed
  <2>5. ~armed'
    BY Zenon, <2>2, <2>3 DEF Next, HandlerStep, ClientStep, LifecycleStep, Tick, Expire,
       Signal, Take, Enter, Start, Finish, Continue, Rearm, RearmCounted, RearmPeriodic,
       RearmTriggered, Return, Admit, Reserve, Submit, ScheduleCall, CancelCall, CancelWait,
       CancelReset, FlushCall, FlushWait, Activate, Arm, RequestStop, RequestDrain,
       BeginContainment, ResetPending, Quiesce, LoadFlight, LoadPending, LoadCount, Expired,
       Calls, At, Schedule, Reschedule, Queue, Queued, NativeCancel, Cancel, CancelTrigger,
       gate, item, periodic, callers, vars
  <2>6. flags' = flags \/ flags' = {}
    <3>1. CASE HandlerStep BY Zenon, <2>3, <3>1 DEF HandlerStep, Take, Enter, Start, Finish, Continue, Rearm, Return
    <3>2. CASE \E c \in Clients : ClientStep(c)
      BY Zenon, <2>3, <2>4, <3>2 DEF ClientStep, Admit, Reserve, CancelCall, CancelWait, CancelReset,
         FlushCall, FlushWait, NativeCancel, Cancel, item
    <3>3. CASE LifecycleStep
      BY Zenon, <2>3, <3>3 DEF LifecycleStep, Activate, Arm, RequestStop, RequestDrain,
         BeginContainment, ResetPending, Quiesce, item
    <3>4. CASE Tick \/ Expire \/ Signal \/ Expired \/ UNCHANGED vars
      BY Zenon, <2>2, <2>3, <3>4 DEF Tick, Expire, Signal, Expired, item, vars
    <3> QED BY Zenon, <3>1, <3>2, <3>3, <3>4 DEF Next
  <2> QED BY Zenon, <2>2, <2>5, <2>6
<1>3. CASE stop \notin {"Count", "Quiescent"}
  <2>1. stop # "Count" /\ stop' # "Arm" /\ stop' # "Run" /\ stop' # "Drain" /\ stop' # "Begin"
        /\ stop' # "Reset" /\ stop' # "Flight" /\ stop' # "Pending" /\ stop' # "TimedOut" /\ stop' # stop
    BY Zenon, <1>1, <1>3
  <2>2. LoadPending /\ ~WorkPending /\ UNCHANGED item
    BY Zenon, <2>1 DEF Next, HandlerStep, ClientStep, LifecycleStep, Tick, Expire, Signal,
       Take, Enter, Start, Finish, Continue, Rearm, RearmCounted, RearmPeriodic,
       RearmTriggered, Return, Admit, Reserve, Submit, ScheduleCall, CancelCall, CancelWait,
       CancelReset, FlushCall, FlushWait, Activate, Arm, RequestStop, RequestDrain,
       BeginContainment, ResetPending, Quiesce, LoadFlight, LoadPending, LoadCount, Expired,
       Calls, At, Schedule, Reschedule, Queue, Queued, NativeCancel, Cancel, CancelTrigger,
       gate, item, periodic, callers, vars
  <2>3. flags = {} /\ ~claimed BY Zenon, <2>2 DEF WorkPending
  <2>4. ~armed BY Zenon, <2>3 DEF TriggerAgrees
  <2> QED BY Zenon, <2>2, <2>3, <2>4 DEF item
<1> QED BY Zenon, <1>2, <1>3

(* While nobody cancels it, a periodic item is released or about to be.    *)
LEMMA ReleasedStepAgain ==
    ASSUME TypeOK, HandlerAgrees, ClientsAgree, StagesAgree, ReleasedAgain, [Next]_vars
    PROVE  ReleasedAgain'
<1>1. declared' = declared BY Zenon DEF Next, vars
<1>2. SUFFICES ASSUME calls' = 0, stop' \in {"Boot", "Arm", "Run"}
               PROVE  /\ "CANCELING" \notin flags'
                      /\ Kind = "Periodic" /\ accepting' /\ stop' = "Run" /\ handler' \in {"Idle", "Return"} =>
                            flags' \cap {"QUEUED", "DELAYED"} # {}
  <2>1. stop' = "Run" => stop' \in {"Boot", "Arm", "Run"} BY Zenon
  <2> QED BY Zenon, <1>1, <1>2, <2>1 DEF ReleasedAgain, Kind
<1>3. calls = 0 /\ \A c \in Clients, op \in AllOps : ~Calls(c, op)
  <2>1. calls \in Nat /\ MaxCalls \in Nat BY DeclarationFacts DEF TypeOK
  <2>2. calls = 0 BY <1>2, <2>1, ClockEffect
  <2>3. calls' # calls + 1 BY <1>2, <2>2
  <2> QED BY Zenon, <2>2, <2>3 DEF Calls
<1>4. \A c \in Clients : ~CancelCall(c) /\ ~FlushCall(c) /\ ~Admit(c)
  <2>1. {"cancel", "cancelSync", "flush", "submit", "schedule", "reschedule"} \subseteq AllOps BY Zenon DEF AllOps
  <2> QED BY Zenon, <1>3, <2>1 DEF CancelCall, FlushCall, Admit
<1>5. stop \in {"Boot", "Arm", "Run"} /\ ~BeginContainment
  <2>1. stop' # "Drain" /\ stop' # "Begin" /\ stop' # "Reset" /\ stop' # "Flight" /\ stop' # "Pending"
        /\ stop' # "Count" /\ stop' # "Quiescent" /\ stop' # "TimedOut"
    BY Zenon, <1>2
  <2>2. ~BeginContainment BY Zenon, <2>1 DEF BeginContainment
  <2>3. stop' = stop \/ Activate \/ Arm
    BY Zenon, <2>1, <2>2 DEF Next, HandlerStep, ClientStep, LifecycleStep, Tick, Expire, Signal, Take, Enter,
       Start, Finish, Continue, Rearm, Return, Admit, Reserve, Submit, ScheduleCall, CancelCall,
       CancelWait, CancelReset, FlushCall, FlushWait, RequestStop, RequestDrain,
       ResetPending, Quiesce, LoadFlight, LoadPending, LoadCount, Expired, vars
  <2> QED BY Zenon, <1>2, <2>2, <2>3 DEF Activate, Arm
<1>6. "CANCELING" \notin flags BY Zenon, <1>3, <1>5 DEF ReleasedAgain
<1>7. Queued = {"QUEUED"} BY Zenon, <1>6 DEF Queued, Refused
<1>8. CASE Rearm
  <2>1. \/ flags' = flags
        \/ flags' = flags \cup Queued
        \/ flags' = flags \cup {"DELAYED"}
    BY Zenon, <1>8 DEF Rearm, RearmCounted, RearmPeriodic, RearmTriggered, Schedule, Queue
  <2>2. "CANCELING" \notin flags' BY <1>6, <1>7, <2>1
  <2>3. ASSUME Kind = "Periodic" PROVE flags' \cap {"QUEUED", "DELAYED"} # {}
    <3>1. Schedule(NextRelease - now)
      BY Zenon, <1>8, <2>3 DEF Rearm, RearmCounted, RearmPeriodic, RearmTriggered
    <3>2. NextRelease - now # 0
      <4>1. now \in Nat BY DeclarationFacts DEF TypeOK
      <4> QED BY <4>1, MissedFacts
    <3>3. \/ flags' = flags \cup {"DELAYED"}
          \/ ~(flags \subseteq {"RUNNING"}) /\ flags' = flags
      BY Zenon, <3>1, <3>2 DEF Schedule
    <3>4. flags \subseteq {"QUEUED", "RUNNING", "CANCELING", "DELAYED"} BY Zenon DEF TypeOK
    <3> QED BY Zenon, <1>6, <3>3, <3>4
  <2> QED BY Zenon, <2>2, <2>3
<1>9. CASE Arm
  <2>1. \/ flags' = flags
        \/ flags' = flags \cup Queued
        \/ flags' = flags \cup {"DELAYED"}
    BY Zenon, <1>9 DEF Arm, Schedule, Queue, item
  <2>2. "CANCELING" \notin flags' BY <1>6, <1>7, <2>1
  <2>3. ASSUME Kind = "Periodic" PROVE flags' \cap {"QUEUED", "DELAYED"} # {}
    <3>1. flags = {} BY Zenon, <1>9, <2>3 DEF Arm, StagesAgree
    <3>2. flags \subseteq {"RUNNING"} BY Zenon, <3>1
    <3>3. Kind # "PollTriggered" BY Zenon, <2>3
    <3>4. \E d \in {0, Period} : Schedule(d) BY Zenon, <1>9, <2>3, <3>3 DEF Arm
    <3>5. flags' = flags \cup Queued \/ flags' = flags \cup {"DELAYED"}
      BY Zenon, <3>2, <3>4 DEF Schedule, Queue
    <3> QED BY Zenon, <1>7, <3>1, <3>5
  <2> QED BY Zenon, <2>2, <2>3
<1>10. CASE Take
  <2>1. flags' = (flags \ {"QUEUED"}) \cup {"RUNNING"} /\ handler' = "Enter" BY Zenon, <1>10 DEF Take
  <2> QED BY Zenon, <1>6, <2>1
<1>11. CASE ~Rearm /\ ~Arm /\ ~Take
  <2>1. flags' \in {flags, flags \cup Queued, flags \cup {"DELAYED"}, (flags \ {"DELAYED"}) \cup Queued,
                    flags \ {"RUNNING", "CANCELING"}}
    <3>1. CASE HandlerStep
      BY Zenon, <1>11, <3>1 DEF HandlerStep, Enter, Start, Finish, Continue, Return, item
    <3>2. CASE \E c \in Clients : ClientStep(c)
      BY Zenon, <1>4, <3>2 DEF ClientStep, Reserve, Submit, ScheduleCall, CancelWait, CancelReset,
         FlushWait, Schedule, Reschedule, Queue, item
    <3>3. CASE LifecycleStep
      BY Zenon, <1>5, <1>11, <3>3 DEF LifecycleStep, Activate, RequestStop, RequestDrain, ResetPending,
         Quiesce, item
    <3>4. CASE Tick \/ Expire \/ Signal \/ Expired \/ UNCHANGED vars
      BY Zenon, <3>4 DEF Tick, Expire, Signal, Expired, Queue, item, vars
    <3> QED BY Zenon, <3>1, <3>2, <3>3, <3>4 DEF Next
  <2>2. "CANCELING" \notin flags' BY Zenon, <1>6, <1>7, <2>1
  <2>3. ASSUME Kind = "Periodic", accepting', stop' = "Run", handler' \in {"Idle", "Return"}
        PROVE  flags' \cap {"QUEUED", "DELAYED"} # {}
    <3>1. Kind # "Counted" /\ stop' # "Arm" /\ handler' # "Start" /\ handler' # "Behave"
          /\ handler' # "Continue" /\ handler' # "Rearm"
      BY Zenon, <2>3
    <3>2. stop = "Run"
      BY Zenon, <1>4, <1>11, <2>3, <3>1 DEF Next, HandlerStep, ClientStep, LifecycleStep, Tick, Expire, Signal,
         Enter, Start, Finish, Continue, Return, Reserve, Submit, ScheduleCall,
         CancelWait, CancelReset, FlushWait, Activate, RequestStop, RequestDrain, BeginContainment,
         ResetPending, Quiesce, LoadFlight, LoadPending, LoadCount, Expired, vars, Arm
    <3>3. accepting
      BY Zenon, <1>4, <1>11, <2>3, <3>1 DEF Next, HandlerStep, ClientStep, LifecycleStep, Tick, Expire, Signal,
         Enter, Start, Finish, Continue, Return, Reserve, Submit, ScheduleCall,
         CancelWait, CancelReset, FlushWait, Activate, RequestStop, RequestDrain, BeginContainment,
         ResetPending, Quiesce, Expired, gate, vars
    <3>4. ~Enter /\ ~Start /\ ~Finish BY Zenon, <3>1 DEF Enter, Start, Finish
    <3>5. ~Continue BY Zenon, <2>3, <3>1, <3>3 DEF Continue, Continues
    <3>6. handler' = handler \/ Return
      BY Zenon, <1>11, <3>4, <3>5 DEF Next, HandlerStep, ClientStep, LifecycleStep, Tick, Expire, Signal,
         Admit, Reserve, Submit, ScheduleCall, CancelCall, CancelWait, CancelReset, FlushCall,
         FlushWait, Activate, RequestStop, RequestDrain, BeginContainment, ResetPending, Quiesce,
         Expired, vars
    <3>7. handler \in {"Idle", "Return"} BY Zenon, <2>3, <3>6 DEF Return
    <3>8. flags \cap {"QUEUED", "DELAYED"} # {} BY Zenon, <1>3, <2>3, <3>2, <3>3, <3>7 DEF ReleasedAgain
    <3> QED BY Zenon, <1>7, <2>1, <3>8
  <2> QED BY Zenon, <2>2, <2>3
<1> QED BY Zenon, <1>8, <1>9, <1>10, <1>11

LEMMA Distributes ==
    ASSUME NEW p \in Nat, NEW a \in Int, NEW b \in Int
    PROVE  p * (a + b) = p * a + p * b
OBVIOUS

(* Every point of the grid up to the next release is a completed or a      *)
(* missed one.                                                             *)
LEMMA GridStepAgrees ==
    ASSUME TypeOK, HandlerAgrees, StagesAgree, GridAgrees, [Next]_vars
    PROVE  GridAgrees'
<1>1. declared' = declared BY Zenon DEF Next, vars
<1>2. SUFFICES ASSUME Kind = "Periodic", FixedRate, accepting', stop' = "Run"
               PROVE  /\ record'.completed >= Uncontinued'
                      /\ next' = first' + Period * (record'.completed + record'.missed - Uncontinued')
    BY Zenon, <1>1 DEF GridAgrees, Kind, FixedRate, Period
<1>3. /\ record.completed \in Nat /\ record.missed \in Nat /\ record.started \in Nat /\ record.counted \in Nat
      /\ record = [started |-> record.started, counted |-> record.counted,
                   completed |-> record.completed, missed |-> record.missed]
      /\ next \in Nat /\ first \in Nat /\ now \in Nat /\ Period \in Nat /\ Missed \in Nat
    BY DeclarationFacts, MissedFacts DEF TypeOK
<1>4. CASE Arm
  <2>1. /\ stop = "Arm" /\ next' = first' /\ record' = record /\ handler' = handler
    BY Zenon, <1>2, <1>4 DEF Arm
  <2>2. flags = {} /\ record.completed = 0 /\ record.missed = 0 BY Zenon, <1>2, <2>1 DEF StagesAgree
  <2>3. handler = "Idle" BY Zenon, <2>2 DEF HandlerAgrees
  <2>4. Uncontinued' = 0 BY Zenon, <2>1, <2>3 DEF Uncontinued
  <2>5. first' \in Nat BY Zenon, TypeStep DEF TypeOK
  <2>6. Period * (0 + 0 - 0) = 0 BY <1>3
  <2>7. record'.completed = 0 /\ record'.missed = 0 BY Zenon, <2>1, <2>2
  <2> QED BY <2>1, <2>4, <2>5, <2>6, <2>7
<1>5. CASE ~Arm
  <2>1. stop' # "Arm" BY Zenon, <1>2
  <2>2. stop = "Run" /\ accepting
    <3>1. stop = "Run"
      BY Zenon, <1>2, <1>5, <2>1 DEF Next, HandlerStep, ClientStep, LifecycleStep, Tick, Expire, Signal,
         Take, Enter, Start, Finish, Continue, Rearm, Return, Admit, Reserve, Submit, ScheduleCall, CancelCall,
         CancelWait, CancelReset, FlushCall, FlushWait, Activate, RequestStop, RequestDrain, BeginContainment,
         ResetPending, Quiesce, LoadFlight, LoadPending, LoadCount, Expired, vars, Arm
    <3>2. accepting
      BY Zenon, <1>2, <1>5, <2>1 DEF Next, HandlerStep, ClientStep, LifecycleStep, Tick, Expire, Signal,
         Take, Enter, Start, Finish, Continue, Rearm, RearmCounted, RearmPeriodic, RearmTriggered, Return,
         Admit, Reserve, Submit, ScheduleCall, CancelCall,
         CancelWait, CancelReset, FlushCall, FlushWait, Activate, RequestStop, RequestDrain, BeginContainment,
         ResetPending, Quiesce, Expired, gate, vars
    <3> QED BY Zenon, <3>1, <3>2
  <2>3. /\ record.completed >= Uncontinued
        /\ next = first + Period * (record.completed + record.missed - Uncontinued)
    BY Zenon, <1>2, <2>2 DEF GridAgrees
  <2>4. Kind # "Counted" BY Zenon, <1>2
  <2>5. CASE Finish
    <3>1. /\ handler = "Behave" /\ handler' = "Continue"
          /\ record' = [record EXCEPT !.completed = @ + 1] /\ next' = next /\ first' = first
      BY Zenon, <1>2, <2>5 DEF Finish, periodic
    <3>2. Uncontinued = 0 /\ Uncontinued' = 1 BY Zenon, <3>1 DEF Uncontinued
    <3>3. record'.completed = record.completed + 1 /\ record'.missed = record.missed BY Zenon, <1>3, <3>1
    <3>4. /\ record'.completed + record'.missed - Uncontinued' = record.completed + record.missed - Uncontinued
          /\ record'.completed >= Uncontinued'
      BY <1>3, <3>2, <3>3
    <3> QED BY Zenon, <2>3, <3>1, <3>4
  <2>6. CASE Rearm
    <3>1. RearmPeriodic /\ handler = "Rearm" /\ handler' = "Return"
      <4>1. Kind # "PollTriggered" BY Zenon, <1>2
      <4> QED BY Zenon, <1>2, <2>4, <2>6, <4>1 DEF Rearm, RearmCounted, RearmTriggered
    <3>2. /\ next' = NextRelease /\ first' = first
          /\ record' = [record EXCEPT !.missed = @ + Missed]
      BY Zenon, <1>2, <3>1 DEF RearmPeriodic
    <3>3. Uncontinued = 1 /\ Uncontinued' = 0 BY Zenon, <3>1 DEF Uncontinued
    <3>4. record'.completed = record.completed /\ record'.missed = record.missed + Missed BY Zenon, <1>3, <3>2
    <3>5. next' = next + Period * (Missed + 1) BY Zenon, <1>2, <3>2, MissedFacts
    <3>6. PICK a \in Int, b \in Int : a = record.completed + record.missed - 1 /\ b = Missed + 1 BY <1>3
    <3>7. Period * (a + b) = Period * a + Period * b BY Zenon, <1>3, <3>6, Distributes
    <3>8. a + b = record'.completed + record'.missed - Uncontinued' BY <1>3, <3>3, <3>4, <3>6
    <3>9. next = first + Period * a /\ next' = next + Period * b BY Zenon, <2>3, <3>3, <3>5, <3>6
    <3>10. PICK x \in Int, y \in Int : x = Period * a /\ y = Period * b BY <1>3, <3>6
    <3>11. next' = first + (x + y) BY <1>3, <3>9, <3>10
    <3>12. next' = first' + Period * (record'.completed + record'.missed - Uncontinued')
      BY Zenon, <3>2, <3>7, <3>8, <3>10, <3>11
    <3>13. record'.completed >= Uncontinued' BY <1>3, <3>3, <3>4
    <3> QED BY Zenon, <3>12, <3>13
  <2>7. CASE ~Finish /\ ~Rearm
    <3>1. record' = record BY Zenon, <2>4, <2>7, RecordEffect
    <3>2. next' = next /\ first' = first BY Zenon, <1>5, <2>7, ReleaseEffect
    <3>3. Uncontinued' = Uncontinued
      <4>1. CASE Continue
        <5>1. handler = "Continue" /\ handler' = "Rearm"
          BY Zenon, <1>2, <2>2, <4>1 DEF Continue, Continues
        <5> QED BY Zenon, <5>1 DEF Uncontinued
      <4>2. CASE Take \/ Enter \/ Start \/ Return
        <5>1. handler \in {"Idle", "Enter", "Start", "Return"} /\ handler' \in {"Enter", "Return", "Start", "Behave", "Idle"}
          BY Zenon, <4>2 DEF Take, Enter, Start, Return
        <5> QED BY Zenon, <5>1 DEF Uncontinued
      <4>3. CASE ~HandlerStep
        <5>1. handler' = handler
          BY Zenon, <4>3 DEF Next, ClientStep, LifecycleStep, Tick, Expire, Signal, Admit, Reserve,
             Submit, ScheduleCall, CancelCall, CancelWait, CancelReset, FlushCall, FlushWait, Activate,
             Arm, RequestStop, RequestDrain, BeginContainment, ResetPending, Quiesce, Expired, vars
        <5> QED BY Zenon, <5>1 DEF Uncontinued
      <4> QED BY Zenon, <2>7, <4>1, <4>2, <4>3 DEF HandlerStep
    <3> QED BY Zenon, <2>3, <3>1, <3>2, <3>3
  <2> QED BY Zenon, <2>5, <2>6, <2>7
<1> QED BY Zenon, <1>4, <1>5

LEMMA RegistrationInit ==
    ASSUME Init
    PROVE  RegistrationInv
<1> USE DEF Init
<1>1. TypeOK
  <2>1. MaxTick \in Nat /\ Never \in Nat /\ MaxCalls \in Nat
    BY RegistrationAssumption DEF MaxTick, Never, MaxCalls
  <2>2. /\ record \in [started : Nat, counted : Nat, completed : Nat, missed : Nat]
        /\ client \in [Clients -> ClientPlaces] /\ handler \in HandlerPlaces /\ stop \in StopPlaces
    BY Zenon DEF ClientPlaces, HandlerPlaces, StopPlaces
  <2>3. 0 \in 0 .. MaxTick /\ 0 \in 0 .. MaxCalls /\ 0 \in 0 .. (Modulus - 1) BY <2>1 DEF Modulus
  <2>4. flags \subseteq {"QUEUED", "RUNNING", "CANCELING", "DELAYED"} BY Zenon
  <2> QED BY Zenon, <2>1, <2>2, <2>3, <2>4 DEF TypeOK
<1>2. HandlerAgrees BY Zenon DEF HandlerAgrees
<1>3. \A c \in Clients : client[c] = "Idle" BY Zenon
<1>4. ClientsAgree BY Zenon, <1>3 DEF ClientsAgree
<1>5. StagesAgree BY Zenon, <1>3 DEF StagesAgree
<1>6. CountedAgrees
  <2>1. Capacity \in Nat BY <1>1, DeclarationFacts
  <2> QED BY <2>1 DEF CountedAgrees
<1>7. CountedExactly
  <2>1. Submitters = {} BY Zenon, <1>3 DEF Submitters
  <2>2. Cardinality(Submitters) = 0 BY Zenon, <2>1, FS_EmptySet
  <2> QED BY <2>2 DEF CountedExactly
<1>8. OccurrenceNotStranded BY Zenon DEF OccurrenceNotStranded
<1>9. TriggerAgrees BY Zenon DEF TriggerAgrees
<1>10. SeenIdle BY Zenon DEF SeenIdle
<1>11. ReleasedAgain BY Zenon DEF ReleasedAgain
<1>12. GridAgrees BY Zenon DEF GridAgrees
<1> QED BY Zenon, <1>1, <1>2, <1>4, <1>5, <1>6, <1>7, <1>8, <1>9, <1>10, <1>11, <1>12 DEF RegistrationInv

LEMMA RegistrationStep ==
    ASSUME Uncancelled(declared), RegistrationInv, [Next]_vars
    PROVE  RegistrationInv'
<1> USE DEF RegistrationInv
<1>1. TypeOK' BY Zenon, TypeStep
<1>2. HandlerAgrees' BY Zenon, HandlerStepAgrees
<1>3. ClientsAgree' BY Zenon, ClientsStepAgree
<1>4. StagesAgree' BY Zenon, StagesStepAgree
<1>5. CountedAgrees' BY Zenon, CountedStepAgrees
<1>6. CountedExactly' BY Zenon, CountedStepExact
<1>7. OccurrenceNotStranded' BY Zenon, <1>5, NotStrandedStep
<1>8. TriggerAgrees' BY Zenon, TriggerStepAgrees
<1>9. SeenIdle' BY Zenon, SeenIdleStep
<1>10. ReleasedAgain' BY Zenon, ReleasedStepAgain
<1>11. GridAgrees' BY Zenon, GridStepAgrees
<1> QED BY Zenon, <1>1, <1>2, <1>3, <1>4, <1>5, <1>6, <1>7, <1>8, <1>9, <1>10, <1>11

(* A registration that is not cancelled where cancelling loses count keeps *)
(* the inductive invariant, whatever its kind and whatever the other       *)
(* declarations are (execution/runtime.hpp).                               *)
THEOREM RegistrationKept == Spec => [](Uncancelled(declared) => RegistrationInv)
<1> DEFINE Kept == Uncancelled(declared) => RegistrationInv
<1>1. Init => Kept BY Zenon, RegistrationInit
<1>2. Kept /\ [Next]_vars => Kept'
  <2>1. [Next]_vars => declared' = declared BY Zenon DEF Next, vars
  <2>2. SUFFICES ASSUME Kept, [Next]_vars, Uncancelled(declared)' PROVE RegistrationInv' BY Zenon
  <2>3. Uncancelled(declared) BY Zenon, <2>1, <2>2
  <2> QED BY Zenon, <2>2, <2>3, RegistrationStep
<1> HIDE DEF Kept
<1>3. Spec => []Kept BY <1>1, <1>2, PTL DEF Spec
<1> QED BY Zenon, <1>3 DEF Kept

(* Whoever submits, runs, schedules, flushes and stops at the same time,   *)
(* admission is exact: the count is bounded by its capacity and stands for *)
(* the occurrences granted and not yet run, none is stranded while         *)
(* admission is open, and what the stop found quiescent stays quiet unless *)
(* a client submits late (submit_registration, handle,                     *)
(* registration_quiescent).                                                *)
THEOREM AdmissionIsExact ==
    ASSUME \A d \in Declarations : Uncancelled(d)
    PROVE  Spec => []AdmissionExact
<1> DEFINE Known == declared \in Declarations
<1>1. Init => Known BY Zenon DEF Init
<1>2. Known /\ [Next]_vars => Known' BY Zenon DEF Next, vars
<1>3. Known /\ (Uncancelled(declared) => RegistrationInv) => AdmissionExact
  <2>1. SUFFICES ASSUME RegistrationInv PROVE AdmissionExact BY Zenon
  <2>2. PendingBounded
    <3>1. Capacity \in Nat BY <2>1, DeclarationFacts DEF RegistrationInv
    <3> QED BY <2>1, <3>1 DEF RegistrationInv, CountedAgrees, PendingBounded
  <2>3. QuiescentStaysQuiet
    <3>1. SUFFICES ASSUME stop = "Quiescent", ~late PROVE flags = {} /\ ~armed /\ ~inFlight
      BY Zenon DEF QuiescentStaysQuiet
    <3>2. flags = {} /\ ~armed BY Zenon, <2>1, <3>1 DEF RegistrationInv, SeenIdle
    <3>3. handler = "Idle" BY Zenon, <2>1, <3>2 DEF RegistrationInv, HandlerAgrees
    <3>4. handler # "Behave" BY Zenon, <3>3
    <3> QED BY Zenon, <2>1, <3>2, <3>4 DEF RegistrationInv, HandlerAgrees
  <2> QED BY Zenon, <2>1, <2>2, <2>3 DEF RegistrationInv, AdmissionExact
<1> HIDE DEF Known
<1> QED BY <1>1, <1>2, <1>3, RegistrationKept, PTL DEF Spec

(* A periodic registration that is accepting always has a next release, on *)
(* the grid of the first one when its cadence is a fixed rate, and a       *)
(* continuation moves it to the first point that is neither past nor       *)
(* already released, however late or early the behaviour ran               *)
(* (continue_registration).                                                *)
THEOREM ReleasesAreKept == Spec => ReleasesKept
<1> DEFINE Kept == Uncancelled(declared) => RegistrationInv
<1>1. ASSUME RegistrationInv, Kind = "Periodic" PROVE PeriodicAlive
  <2>1. SUFFICES ASSUME accepting, stop = "Run", calls = 0 PROVE flags \ {"CANCELING"} # {}
    BY Zenon DEF PeriodicAlive
  <2>2. CASE handler \in {"Idle", "Return"}
    <3>1. flags \cap {"QUEUED", "DELAYED"} # {} BY Zenon, <1>1, <2>1, <2>2 DEF RegistrationInv, ReleasedAgain
    <3> QED BY Zenon, <3>1
  <2>3. CASE handler \notin {"Idle", "Return"}
    <3>1. "RUNNING" \in flags BY Zenon, <1>1, <2>3 DEF RegistrationInv, HandlerAgrees
    <3> QED BY <3>1
  <2> QED BY Zenon, <2>2, <2>3
<1>2. ASSUME RegistrationInv, Kind = "Periodic" PROVE ReleasesOnGrid
  <2>1. SUFFICES ASSUME FixedRate, accepting, stop # "Arm", handler \notin {"Continue", "Rearm"}
                 PROVE  next = first + Period * (record.completed + record.missed)
    BY Zenon DEF ReleasesOnGrid
  <2>2. stop = "Run" BY Zenon, <1>1, <1>2, <2>1 DEF RegistrationInv, StagesAgree
  <2>3. Uncontinued = 0 BY Zenon, <2>1 DEF Uncontinued
  <2>4. next = first + Period * (record.completed + record.missed - 0)
    BY Zenon, <1>2, <2>1, <2>2, <2>3 DEF RegistrationInv, GridAgrees
  <2>5. record.completed \in Nat /\ record.missed \in Nat BY Zenon, <1>2 DEF RegistrationInv, TypeOK
  <2>6. record.completed + record.missed - 0 = record.completed + record.missed BY <2>5
  <2> QED BY Zenon, <2>4, <2>6
<1>3. Kept => PeriodicAlive /\ ReleasesOnGrid
  <2>1. CASE Kind = "Periodic"
    <3>1. Uncancelled(declared) BY Zenon, <2>1 DEF Uncancelled, Kind
    <3> QED BY Zenon, <1>1, <1>2, <2>1, <3>1
  <2>2. CASE Kind # "Periodic" BY Zenon, <2>2 DEF PeriodicAlive, ReleasesOnGrid
  <2> QED BY Zenon, <2>1, <2>2
<1>4. Kept /\ [Next]_vars => NextReleaseFirst
  <2>1. SUFFICES ASSUME Kept, [Next]_vars, next' # next, stop # "Arm"
                 PROVE  next' > now /\ next' <= (IF next > now THEN next ELSE now) + Period
    BY Zenon DEF NextReleaseFirst
  <2>2. Kind = "Periodic" /\ next' = NextRelease
    <3>1. ~Arm BY Zenon, <2>1 DEF Arm
    <3> QED BY Zenon, <2>1, <3>1, ReleaseEffect
  <2>3. Uncancelled(declared) BY Zenon, <2>2 DEF Uncancelled, Kind
  <2>4. TypeOK BY Zenon, <2>1, <2>3 DEF RegistrationInv
  <2> QED BY Zenon, <2>2, <2>4, MissedFacts
<1>5. Kept' => PeriodicAlive' /\ ReleasesOnGrid' BY <1>3, PTL
<1>6. Kept /\ Kept' /\ [Next]_vars => [PeriodicAlive' /\ ReleasesOnGrid' /\ NextReleaseFirst]_vars
    BY Zenon, <1>4, <1>5
<1> HIDE DEF Kept
<1>7. Spec => []Kept BY Zenon, RegistrationKept DEF Kept
<1> QED BY <1>6, <1>7, PTL DEF Spec, ReleasesKept
============================================================================
