---------------------------- MODULE Registration ----------------------------
(***************************************************************************)
(* One execution registration on the system workqueue (RegistrationState   *)
(* and its operations in execution/runtime.hpp): clients submit, schedule, *)
(* cancel and flush it, the queue's thread runs its handler, and the       *)
(* lifecycle closes its admission and waits for it to be quiescent.        *)
(*                                                                         *)
(* Every atomic and every native call is a step of its own.  The native    *)
(* work item is Zephyr's: its flags, and `due' for a delayed item.         *)
(***************************************************************************)
EXTENDS Naturals, FiniteSets

CONSTANTS
    Declarations,   \* the registrations to consider, each with its load
    Delays,         \* delays clients pass to schedule and reschedule
    Clients         \* threads that call the execution API

Kinds == {"Coalesced", "Counted", "Delayable", "Periodic", "PollTriggered"}
AllOps == {"submit", "schedule", "reschedule", "cancel", "cancelSync", "flush"}
Modulus == 1000     \* stands for 2^32, the range of std::atomic_uint32_t

ASSUME RegistrationAssumption ==
    /\ Delays \subseteq Nat
    /\ \A d \in Declarations :
          /\ d.kind \in Kinds /\ d.stop \in {"Drain", "CancelPending"}
          /\ d.capacity \in 1..(Modulus - 2) /\ d.period \in Nat \ {0}
          /\ d.suspends \in BOOLEAN /\ d.fixedRate \in BOOLEAN
          /\ d.ops \subseteq AllOps /\ d.maxCalls \in Nat /\ d.maxTick \in Nat
    /\ IsFiniteSet(Clients)

VARIABLES
    declared,   \* the registration's declaration and load
    accepting,  \* RegistrationState::accepting
    draining,   \* RegistrationState::draining
    inFlight,   \* RegistrationState::in_flight
    pending,    \* RegistrationCountedState::pending
    next,       \* RegistrationPeriodicState::next_ideal_release
    first,      \* the release activation set
    record,     \* the counters of RegistrationRecord that are compared
    flags,      \* k_work flags of the native item
    due,        \* when a delayed item is submitted
    claimed,    \* TriggeredWork::claimed_
    armed,      \* the item waits on its poll events
    handler,    \* where the queue's thread is in handle()
    client,     \* where each client is in its call
    calls,      \* calls made so far
    stop,       \* where the lifecycle is in containing the registration
    late,       \* the item was submitted after admission was closed
    now         \* kernel::now_ticks

(* What registration_traits says of it                                     *)
Kind == declared.kind               \* Coalesced or Counted (OnDemand), Delayable,
                                    \* Periodic, or PollTriggered with AutoRearm
Capacity == declared.capacity       \* Counted<Capacity>
StopPolicy == declared.stop         \* Drain or CancelPending
Suspends == declared.suspends       \* the failure policy is failure::Suspend
FixedRate == declared.fixedRate     \* the cadence is FixedRate, not FixedDelay
Period == declared.period           \* in ticks
(* and the load: the operations clients call and the bounds on calls and   *)
(* on time.                                                                *)
Ops == declared.ops
MaxCalls == declared.maxCalls
MaxTick == declared.maxTick
Never == MaxTick + 100

gate == <<accepting, draining>>
item == <<flags, due, claimed, armed>>
periodic == <<next, first>>
callers == <<client, calls>>
vars == <<declared, gate, inFlight, pending, periodic, record, item, handler, callers,
          stop, late, now>>

HandlerPlaces == {"Idle", "Enter", "Start", "Behave", "Continue", "Rearm", "Return"}
ClientPlaces == {"Idle", "Reserve", "Native", "schedule", "reschedule", "Reset", "Wait", "Flush"}
StopPlaces == {"Boot", "Arm", "Run", "Drain", "Begin", "Reset", "Flight", "Pending", "Count",
               "Quiescent", "TimedOut"}

Init ==
    /\ declared \in Declarations
    /\ accepting = FALSE /\ draining = FALSE
    /\ inFlight = FALSE /\ pending = 0
    /\ next = 0 /\ first = 0
    /\ record = [started |-> 0, counted |-> 0, completed |-> 0, missed |-> 0]
    /\ flags = {} /\ due = Never /\ claimed = FALSE /\ armed = FALSE
    /\ handler = "Idle"
    /\ client = [c \in Clients |-> "Idle"] /\ calls = 0
    /\ stop = "Boot" /\ late = FALSE /\ now = 0
----------------------------------------------------------------------------
(***************************************************************************)
(* Zephyr's work item, as kernel::Work, DelayableWork and TriggeredWork    *)
(* use it.                                                                 *)
(***************************************************************************)
Refused == "CANCELING" \in flags

(* k_work_submit_to_queue refuses an item that is being cancelled.         *)
Queued == IF Refused THEN {} ELSE {"QUEUED"}

Queue == flags' = flags \cup Queued

(* k_work_schedule: an item that is queued, delayed or being cancelled is  *)
(* left alone.                                                             *)
Schedule(d) ==
    IF flags \subseteq {"RUNNING"}
    THEN IF d = 0
         THEN Queue /\ UNCHANGED due
         ELSE flags' = flags \cup {"DELAYED"} /\ due' = now + d
    ELSE UNCHANGED <<flags, due>>

(* k_work_reschedule: the deadline is replaced.                            *)
Reschedule(d) ==
    IF d = 0
    THEN /\ flags' = (flags \ {"DELAYED"}) \cup Queued
         /\ due' = Never
    ELSE flags' = flags \cup {"DELAYED"} /\ due' = now + d

(* k_work_cancel, k_work_cancel_delayable: a running item is cancelling    *)
(* until its handler returns.                                              *)
Cancel ==
    /\ flags' = IF "RUNNING" \in flags THEN {"RUNNING", "CANCELING"} ELSE {}
    /\ due' = Never

(* TriggeredWork::cancel_trigger: only an item that waits on its events.   *)
CancelTrigger ==
    /\ armed' = FALSE
    /\ claimed' = (claimed /\ ~armed)

(* cancel(), whatever the kind                                             *)
NativeCancel ==
    IF Kind = "PollTriggered"
    THEN CancelTrigger /\ UNCHANGED <<flags, due>>
    ELSE Cancel /\ UNCHANGED <<claimed, armed>>

(* pending(), whatever the kind                                            *)
WorkPending == flags # {} \/ claimed

Tick ==
    /\ now < MaxTick
    /\ now' = now + 1
    /\ UNCHANGED <<gate, inFlight, pending, periodic, record, item, handler, callers,
                   stop, late>>

(* The timeout of a delayed item submits it.                               *)
Expire ==
    /\ "DELAYED" \in flags /\ due <= now
    /\ flags' = (flags \ {"DELAYED"}) \cup Queued
    /\ due' = Never
    /\ UNCHANGED <<gate, inFlight, pending, periodic, record, claimed, armed, handler,
                   callers, stop, late, now>>

(* One of the poll events is ready.                                        *)
Signal ==
    /\ armed
    /\ armed' = FALSE
    /\ Queue
    /\ UNCHANGED <<gate, inFlight, pending, periodic, record, due, claimed, handler,
                   callers, stop, late, now>>
----------------------------------------------------------------------------
(***************************************************************************)
(* handle(), on the queue's thread.                                        *)
(***************************************************************************)
Take ==
    /\ handler = "Idle" /\ "QUEUED" \in flags
    /\ flags' = (flags \ {"QUEUED"}) \cup {"RUNNING"}
    /\ handler' = "Enter"
    /\ UNCHANGED <<gate, inFlight, pending, periodic, record, due, claimed, armed,
                   callers, stop, late, now>>

(* A handler that takes every pending occurrence at once, and one that     *)
(* does not test for none                                                  *)
ConsumeAll(n) == 0

Consume(n) == n - 1

Empty == pending = 0

(* The decrement loop: an invocation that finds no occurrence returns.     *)
Enter ==
    /\ handler = "Enter"
    /\ IF Kind = "Counted" /\ Empty
       THEN handler' = "Return" /\ UNCHANGED pending
       ELSE /\ handler' = "Start"
            /\ pending' = IF Kind = "Counted" THEN Consume(pending) ELSE pending
    /\ UNCHANGED <<gate, inFlight, periodic, record, item, callers, stop, late, now>>

Start ==
    /\ handler = "Start"
    /\ inFlight' = TRUE
    /\ record' = IF Kind = "Counted" THEN [record EXCEPT !.started = @ + 1] ELSE record
    /\ handler' = "Behave"
    /\ UNCHANGED <<gate, pending, periodic, item, callers, stop, late, now>>

(* The behaviour returns; finish_invocation closes admission after a       *)
(* failure if the policy says so.                                          *)
Finish ==
    /\ handler = "Behave"
    /\ inFlight' = FALSE
    /\ record' = IF Kind = "Periodic" THEN [record EXCEPT !.completed = @ + 1] ELSE record
    /\ \E ok \in BOOLEAN : accepting' = (accepting /\ (ok \/ ~Suspends))
    /\ handler' = "Continue"
    /\ UNCHANGED <<draining, pending, periodic, item, callers, stop, late, now>>

(* continue_registration: whether there is a next release                  *)
Continues ==
    \/ Kind = "Counted" /\ pending # 0 /\ (accepting \/ draining)
    \/ Kind \in {"Periodic", "PollTriggered"} /\ accepting

(* A continuation that waits for the count to drop                         *)
ContinueSpins ==
    /\ handler = "Continue" /\ ~Continues
    /\ handler' = "Return"
    /\ UNCHANGED <<gate, inFlight, pending, periodic, record, item, callers, stop, late,
                   now>>

Continue ==
    /\ handler = "Continue"
    /\ handler' = IF Continues THEN "Rearm" ELSE "Return"
    /\ UNCHANGED <<gate, inFlight, pending, periodic, record, item, callers, stop, late,
                   now>>

FromNow == now + Period

(* The first release after `now' on the grid, and how many were passed     *)
Missed == IF next + Period > now THEN 0 ELSE (now - next) \div Period

NextRelease == IF FixedRate THEN next + Period * (Missed + 1) ELSE now + Period

(* continue_registration: the next release                                 *)
RearmCounted ==
    /\ Kind = "Counted"
    /\ Queue
    /\ UNCHANGED <<accepting, periodic, record, due, claimed, armed>>

RearmPeriodic ==
    /\ Kind = "Periodic"
    /\ next' = NextRelease
    /\ record' = [record EXCEPT !.missed = @ + (IF FixedRate THEN Missed ELSE 0)]
    /\ Schedule(NextRelease - now)
    /\ UNCHANGED <<accepting, first, claimed, armed>>

(* TriggeredWork::submit refuses an item that is claimed; invoke() gives   *)
(* the claim up only after the handler.                                    *)
RearmTriggered ==
    /\ Kind = "PollTriggered"
    /\ IF claimed
       THEN accepting' = FALSE /\ UNCHANGED <<claimed, armed>>
       ELSE claimed' = TRUE /\ armed' = TRUE /\ UNCHANGED accepting
    /\ UNCHANGED <<flags, due, periodic, record>>

Rearm ==
    /\ handler = "Rearm"
    /\ RearmCounted \/ RearmPeriodic \/ RearmTriggered
    /\ handler' = "Return"
    /\ UNCHANGED <<draining, inFlight, pending, callers, stop, late, now>>

(* The handler returns to the queue, which ends a cancellation.            *)
Return ==
    /\ handler = "Return"
    /\ handler' = "Idle"
    /\ flags' = flags \ {"RUNNING", "CANCELING"}
    /\ claimed' = FALSE
    /\ UNCHANGED <<gate, inFlight, pending, periodic, record, due, armed, callers, stop,
                   late, now>>

HandlerStep == Take \/ Enter \/ Start \/ Finish \/ Continue \/ Rearm \/ Return
----------------------------------------------------------------------------
(***************************************************************************)
(* The execution API.  A call that is refused changes nothing.             *)
(***************************************************************************)
Calls(c, op) ==
    /\ client[c] = "Idle" /\ op \in Ops /\ calls < MaxCalls
    /\ calls' = calls + 1

At(c, p) == client' = [client EXCEPT ![c] = p]

(* submit_registration, schedule_registration: the admission check         *)
Admit(c) ==
    /\ accepting
    /\ \/ Kind \in {"Coalesced", "Counted"} /\ Calls(c, "submit") /\ At(c, "Reserve")
       \/ Kind = "Delayable" /\ \E op \in {"schedule", "reschedule"} : Calls(c, op) /\ At(c, op)
    /\ UNCHANGED <<gate, inFlight, pending, periodic, record, item, handler, stop, late,
                   now>>

ReserveBelow == pending < Capacity

(* The reservation loop of counted admission                               *)
Reserve(c) ==
    /\ client[c] = "Reserve"
    /\ \/ Kind # "Counted" /\ At(c, "Native") /\ UNCHANGED pending
       \/ Kind = "Counted" /\ ReserveBelow /\ At(c, "Native") /\ pending' = pending + 1
       \/ Kind = "Counted" /\ ~ReserveBelow /\ At(c, "Idle") /\ UNCHANGED pending
    /\ UNCHANGED <<gate, inFlight, periodic, record, item, handler, calls, stop, late, now>>

Closed == stop \notin {"Boot", "Arm", "Run"}

(* submit_native, and giving the reservation back when it fails            *)
Submit(c) ==
    /\ client[c] = "Native"
    /\ IF Refused
       THEN /\ pending' = IF Kind = "Counted" THEN (pending + Modulus - 1) % Modulus ELSE pending
            /\ UNCHANGED <<flags, late, record>>
       ELSE /\ Queue
            /\ late' = (late \/ Closed)
            /\ record' = IF Kind = "Counted" THEN [record EXCEPT !.counted = @ + 1] ELSE record
            /\ UNCHANGED pending
    /\ At(c, "Idle")
    /\ UNCHANGED <<gate, inFlight, periodic, due, claimed, armed, handler, calls, stop, now>>

ScheduleCall(c) ==
    /\ client[c] \in {"schedule", "reschedule"}
    /\ \E d \in Delays :
          /\ now + d <= MaxTick
          /\ IF client[c] = "schedule" THEN Schedule(d) ELSE Reschedule(d)
    /\ late' = (late \/ Closed)
    /\ At(c, "Idle")
    /\ UNCHANGED <<gate, inFlight, pending, periodic, record, claimed, armed, handler,
                   calls, stop, now>>

(* cancel_registration: the native cancel, ...                             *)
CancelCall(c) ==
    /\ \/ Calls(c, "cancel") /\ NativeCancel /\ At(c, "Reset")
       \/ Calls(c, "cancelSync") /\ Cancel /\ CancelTrigger /\ At(c, "Wait")
    /\ UNCHANGED <<gate, inFlight, pending, periodic, record, handler, stop, late, now>>

(* ... the wait of a synchronous one, ...                                  *)
CancelWait(c) ==
    /\ client[c] = "Wait" /\ "CANCELING" \notin flags
    /\ claimed' = FALSE
    /\ At(c, "Reset")
    /\ UNCHANGED <<gate, inFlight, pending, periodic, record, flags, due, armed, handler,
                   calls, stop, late, now>>

(* ... and reset_pending.                                                  *)
CancelReset(c) ==
    /\ client[c] = "Reset"
    /\ pending' = 0
    /\ At(c, "Idle")
    /\ UNCHANGED <<gate, inFlight, periodic, record, item, handler, calls, stop, late, now>>

(* flush_registration: a delayed item is submitted now; the call returns   *)
(* when the item is idle.  A triggered item that waits on its events is    *)
(* refused.                                                                *)
FlushCall(c) ==
    /\ ~(claimed /\ flags = {})
    /\ Calls(c, "flush")
    /\ flags' = IF "DELAYED" \in flags THEN (flags \ {"DELAYED"}) \cup Queued ELSE flags
    /\ due' = Never
    /\ At(c, "Flush")
    /\ UNCHANGED <<gate, inFlight, pending, periodic, record, claimed, armed, handler, stop,
                   late, now>>

FlushWait(c) ==
    /\ client[c] = "Flush" /\ flags \cap {"QUEUED", "RUNNING"} = {}
    /\ At(c, "Idle")
    /\ UNCHANGED <<gate, inFlight, pending, periodic, record, item, handler, calls, stop,
                   late, now>>

ClientStep(c) ==
    \/ Admit(c) \/ Reserve(c) \/ Submit(c) \/ ScheduleCall(c)
    \/ CancelCall(c) \/ CancelWait(c) \/ CancelReset(c) \/ FlushCall(c) \/ FlushWait(c)
----------------------------------------------------------------------------
(***************************************************************************)
(* The lifecycle.                                                          *)
(***************************************************************************)
(* activate_registration: admission is opened, ...                         *)
Activate ==
    /\ stop = "Boot"
    /\ accepting' = TRUE
    /\ stop' = "Arm"
    /\ UNCHANGED <<draining, inFlight, pending, periodic, record, item, handler, callers,
                   late, now>>

(* ... then a periodic or a triggered item is released for the first time. *)
Arm ==
    /\ stop = "Arm"
    /\ \/ /\ Kind = "Periodic"
          /\ \E d \in {0, Period} :     \* StartImmediately, StartAfterPeriod
                first' = now + d /\ next' = now + d /\ Schedule(d)
          /\ UNCHANGED <<claimed, armed>>
       \/ /\ Kind = "PollTriggered"
          /\ claimed' = TRUE /\ armed' = TRUE
          /\ UNCHANGED <<periodic, flags, due>>
       \/ /\ Kind \notin {"Periodic", "PollTriggered"}
          /\ UNCHANGED <<periodic, item>>
    /\ stop' = "Run"
    /\ UNCHANGED <<gate, inFlight, pending, record, handler, callers, late, now>>

(* request_registration_stop: admission is closed, ...                     *)
RequestStop ==
    /\ stop = "Run"
    /\ accepting' = FALSE
    /\ stop' = "Drain"
    /\ UNCHANGED <<draining, inFlight, pending, periodic, record, item, handler, callers,
                   late, now>>

(* ... then draining is set, and the stop token.                           *)
RequestDrain ==
    /\ stop = "Drain"
    /\ draining' = (StopPolicy = "Drain")
    /\ stop' = "Begin"
    /\ UNCHANGED <<accepting, inFlight, pending, periodic, record, item, handler, callers,
                   late, now>>

(* begin_registration_containment                                          *)
BeginContainment ==
    /\ stop = "Begin"
    /\ stop' = IF StopPolicy = "CancelPending" THEN "Reset" ELSE "Flight"
    /\ IF StopPolicy = "CancelPending" \/ Kind \in {"Periodic", "PollTriggered"}
       THEN NativeCancel
       ELSE IF Kind = "Delayable" /\ WorkPending /\ ~inFlight
       THEN Reschedule(0) /\ UNCHANGED <<claimed, armed>>
       ELSE UNCHANGED item
    /\ UNCHANGED <<gate, inFlight, pending, periodic, record, handler, callers, late, now>>

ResetPending ==
    /\ stop = "Reset"
    /\ pending' = 0
    /\ stop' = "Flight"
    /\ UNCHANGED <<gate, inFlight, periodic, record, item, handler, callers, late, now>>

(* registration_quiescent: three loads, and from the start again when one  *)
(* of them says no.                                                        *)
LoadFlight == stop = "Flight" /\ stop' = IF inFlight THEN "Flight" ELSE "Pending"

LoadPending == stop = "Pending" /\ stop' = IF WorkPending THEN "Flight" ELSE "Count"

LoadCount == stop = "Count" /\ stop' = IF pending # 0 THEN "Flight" ELSE "Quiescent"

Quiesce ==
    /\ LoadFlight \/ LoadPending \/ LoadCount
    /\ draining' = (draining /\ stop' # "Quiescent")
    /\ UNCHANGED <<accepting, inFlight, pending, periodic, record, item, handler, callers,
                   late, now>>

(* wait_registration_quiescent: the deadline expires.                      *)
Expired ==
    /\ stop = "Flight" /\ (inFlight \/ WorkPending \/ pending # 0)
    /\ stop' = "TimedOut"
    /\ UNCHANGED <<gate, inFlight, pending, periodic, record, item, handler, callers, late,
                   now>>

LifecycleStep ==
    Activate \/ Arm \/ RequestStop \/ RequestDrain \/ BeginContainment \/ ResetPending \/ Quiesce

Next ==
    /\ \/ Tick \/ Expire \/ Signal
       \/ HandlerStep
       \/ \E c \in Clients : ClientStep(c)
       \/ LifecycleStep \/ Expired
    /\ UNCHANGED declared

Spec == Init /\ [][Next]_vars

(* The queue's thread runs, behaviours return and a client finishes the    *)
(* call it has begun.                                                      *)
Fairness ==
    /\ WF_vars(HandlerStep /\ UNCHANGED declared)
    /\ \A c \in Clients : WF_vars((Reserve(c) \/ Submit(c)) /\ UNCHANGED declared)

FairSpec == Spec /\ Fairness
----------------------------------------------------------------------------
(* The type of every variable; the native item's flags are consistent with *)
(* the place of its handler and with its deadline.                         *)
TypeOK ==
    /\ declared \in Declarations
    /\ accepting \in BOOLEAN /\ draining \in BOOLEAN /\ inFlight \in BOOLEAN
    /\ pending \in 0..(Modulus - 1)
    /\ next \in Nat /\ first \in Nat /\ now \in 0..MaxTick
    /\ record \in [started : Nat, counted : Nat, completed : Nat, missed : Nat]
    /\ flags \subseteq {"QUEUED", "RUNNING", "CANCELING", "DELAYED"}
    /\ due \in Nat /\ claimed \in BOOLEAN /\ armed \in BOOLEAN
    /\ handler \in HandlerPlaces
    /\ client \in [Clients -> ClientPlaces] /\ calls \in 0..MaxCalls
    /\ stop \in StopPlaces /\ late \in BOOLEAN

Submitters == {c \in Clients : client[c] = "Native"}

(* Counted admission never holds more than its capacity, whoever reserves, *)
(* runs, gives back or resets at the same time (submit_registration,       *)
(* handle, cancel_registration).                                           *)
PendingBounded == pending <= Capacity

(* Every occurrence a client was granted is run once: those reserved are   *)
(* the ones started, the one about to start and the ones pending.          *)
CountedExactly ==
    Kind = "Counted" => record.counted + Cardinality(Submitters) =
        record.started + pending + (IF handler = "Start" THEN 1 ELSE 0)

(* While admission is open a pending occurrence has somebody to run it:    *)
(* the item is queued, its handler is before its last look at the count,   *)
(* or a client is about to submit.                                         *)
OnItsWay == "QUEUED" \in flags \/ handler \notin {"Idle", "Return"} \/ Submitters # {}

OccurrenceNotStranded == pending # 0 /\ accepting => OnItsWay

(* The same while the registration drains: work that was accepted          *)
(* completes.                                                              *)
DrainingNotStranded == pending # 0 /\ draining => OnItsWay

(* Every occurrence that is pending while admission stays open is run.     *)
OccurrencesRun == (pending # 0 /\ accepting) ~> (pending = 0 \/ ~accepting)

(* Once the lifecycle has found the registration quiescent, nothing of it  *)
(* is queued, armed, delayed or running, unless a client that had passed   *)
(* the admission check submitted afterwards (registration_quiescent).      *)
QuiescentStaysQuiet ==
    stop = "Quiescent" /\ ~late => flags = {} /\ ~armed /\ ~inFlight

(* A periodic registration that is accepting and was never cancelled has a *)
(* next release.                                                           *)
PeriodicAlive ==
    Kind = "Periodic" /\ accepting /\ stop = "Run" /\ calls = 0 =>
        flags \ {"CANCELING"} # {}

(* Fixed-rate releases stay on the grid of the first one, and every point  *)
(* of it is a completed or a counted missed release.                       *)
ReleasesOnGrid ==
    Kind = "Periodic" /\ FixedRate /\ accepting /\ stop # "Arm" /\
    handler \notin {"Continue", "Rearm"} =>
        next = first + Period * (record.completed + record.missed)

(* A continuation moves the next release to the first point of the grid    *)
(* that is neither past nor already released, however late or early (after *)
(* a flush) the behaviour ran.                                             *)
NextReleaseFirst ==
    next' # next /\ stop # "Arm" =>
        /\ next' > now
        /\ next' <= (IF next > now THEN next ELSE now) + Period

(* A poll-triggered registration with AutoRearm waits for its events again *)
(* after its handler has returned.                                         *)
AutoRearmed ==
    Kind = "PollTriggered" /\ stop = "Run" /\ handler = "Idle" /\ calls = 0 =>
        armed \/ "QUEUED" \in flags

(* A drain does not wait for the deadline of a delayed item.               *)
DrainFlushesDelayed ==
    Kind = "Delayable" /\ StopPolicy = "Drain" /\ stop \in {"Flight", "Pending", "Count"} /\ ~late =>
        "DELAYED" \notin flags

(* What admission promises, together: the pending count is within its      *)
(* capacity and stands for exactly the occurrences granted and not yet     *)
(* run, none of them is stranded without a native submission, and a        *)
(* registration found quiescent has nothing left that could run.           *)
AdmissionExact ==
    TypeOK /\ PendingBounded /\ CountedExactly /\ OccurrenceNotStranded /\ QuiescentStaysQuiet

(* What a periodic registration promises, together: it always has a next   *)
(* release, on the grid of the first one, and a continuation moves it to   *)
(* the first point that is neither past nor already released.              *)
ReleasesKept == [][PeriodicAlive' /\ ReleasesOnGrid' /\ NextReleaseFirst]_vars

----------------------------------------------------------------------------
(***************************************************************************)
(* The inductive invariant behind the theorems of RegistrationProofs.      *)
(***************************************************************************)
(* The declarations the theorems are about: a counted registration is not  *)
(* cancelled, neither by a client nor by its stop policy, and a triggered  *)
(* one not synchronously (a refused submission gives back an occurrence    *)
(* that was reset; cancel_sync gives up a claim that may not be its own).  *)
Uncancelled(d) ==
    /\ d.kind = "Counted" => d.stop = "Drain" /\ d.ops \cap {"cancel", "cancelSync"} = {}
    /\ d.kind = "PollTriggered" => "cancelSync" \notin d.ops

(* The handler, its flags and the invocation in flight agree.              *)
HandlerAgrees ==
    /\ handler = "Idle" <=> "RUNNING" \notin flags
    /\ "CANCELING" \in flags => "RUNNING" \in flags
    /\ inFlight => handler = "Behave"

(* Where a client is follows from the kind of the registration.            *)
ClientsAgree ==
    \A c \in Clients :
        /\ client[c] \in {"Reserve", "Native"} => Kind \in {"Coalesced", "Counted"}
        /\ client[c] \in {"schedule", "reschedule"} => Kind = "Delayable"
        /\ client[c] = "Reset" => Kind # "Counted"
        /\ client[c] = "Wait" => Kind \notin {"Counted", "PollTriggered"}

(* Admission is open between activation and the request to stop; a         *)
(* periodic or a triggered item is not touched before it is armed.         *)
StagesAgree ==
    /\ accepting => stop \in {"Arm", "Run"}
    /\ Kind \in {"Periodic", "PollTriggered"} /\ stop \in {"Boot", "Arm"} =>
          flags = {} /\ ~armed /\ record.completed = 0 /\ record.missed = 0
    /\ stop = "Boot" => pending = 0 /\ \A c \in Clients : client[c] \notin {"Reserve", "Native"}
    /\ stop = "Reset" => StopPolicy = "CancelPending"

CountedAgrees ==
    IF Kind = "Counted"
    THEN pending <= Capacity /\ "CANCELING" \notin flags
    ELSE pending = 0

(* A triggered item is armed, queued or running, never two of them, and    *)
(* claimed all the while.                                                  *)
TriggerAgrees ==
    IF Kind = "PollTriggered"
    THEN /\ flags \in {{}, {"QUEUED"}, {"RUNNING"}}
         /\ flags # {} => claimed /\ ~armed
         /\ armed => claimed
    ELSE ~claimed /\ ~armed

(* The stop has seen the item idle, and nobody submitted it since.         *)
SeenIdle ==
    stop \in {"Count", "Quiescent"} /\ ~late => flags = {} /\ ~armed

(* A periodic item nobody cancelled is released or about to be.            *)
ReleasedAgain ==
    /\ calls = 0 /\ stop \in {"Boot", "Arm", "Run"} => "CANCELING" \notin flags
    /\ Kind = "Periodic" /\ accepting /\ stop = "Run" /\ calls = 0 /\ handler \in {"Idle", "Return"} =>
          flags \cap {"QUEUED", "DELAYED"} # {}

(* The release that has completed and is not yet continued                 *)
Uncontinued == IF handler \in {"Continue", "Rearm"} THEN 1 ELSE 0

GridAgrees ==
    Kind = "Periodic" /\ FixedRate /\ accepting /\ stop = "Run" =>
        /\ record.completed >= Uncontinued
        /\ next = first + Period * (record.completed + record.missed - Uncontinued)

RegistrationInv ==
    /\ TypeOK /\ HandlerAgrees /\ ClientsAgree /\ StagesAgree /\ CountedAgrees
    /\ CountedExactly /\ OccurrenceNotStranded /\ TriggerAgrees /\ SeenIdle
    /\ ReleasedAgain /\ GridAgrees
============================================================================
