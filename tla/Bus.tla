-------------------------------- MODULE Bus --------------------------------
(***************************************************************************)
(* The Bus facility (bus/facility.hpp, bus/runtime.hpp): emitters walk the *)
(* routes of a message; a route calls its handler inline or stores the     *)
(* message and submits the route's work item, which drains it on a queue's *)
(* thread; the lifecycle opens and closes the routes.                      *)
(*                                                                         *)
(* A step is one critical section, one atomic or one semaphore operation.  *)
(* The records are written after the storage lock is released, as in the   *)
(* code.  A message is the number of its emission.                         *)
(***************************************************************************)
EXTENDS Naturals, Sequences, FiniteSets, SequencesExt

CONSTANTS
    Catalogs,   \* the catalogs to consider: the effective delivery of each
                \* route, and the bound on emissions
    Emitters    \* threads and interrupts that emit

NoMessage == 0
Word == 64      \* stands for 2^N, the range of std::size_t

ASSUME BusAssumption ==
    \A c \in Catalogs :
        /\ c.routes \in Seq([kind : {"Inline", "Queued", "Latest", "Coalesced"},
                              capacity : 1..(Word - 1),
                              overflow : {"Reject", "DropNewest", "DropOldest", "WaitFor"},
                              stop : {"Drain", "CancelPending"}])
        /\ c.maxEmits \in Nat

VARIABLES
    catalog,    \* the catalog of this system
    accepting,  \* RouteStateCommon::accepting_
    inFlight,   \* RouteStateCommon::in_flight_
    storage, head, tail, count,     \* the ring of a Queued route; a Latest or
                                    \* a Coalesced route uses cell 0 and `count'
    slots,      \* the semaphore of a Queued route
    pending,    \* RouteRecord::pending
    open,       \* the route's registration accepts submissions
    work,       \* flags of the route's work item
    drainer,    \* where the queue's thread is in drain()
    taken,      \* the message it has taken
    left,       \* the count it read with it
    place,      \* where each emitter is
    route,      \* the route it visits
    msg,        \* the message it emits
    drops,      \* its slot was refused and it replaces the oldest
    note,       \* the count it read under the lock
    emits,      \* emissions so far
    running,    \* Engine::state() = Running
    stop,       \* where the lifecycle is
    at,         \* the route the lifecycle has come to
    result,     \* what Facility::stop() answers
    stored,     \* the messages each route has stored, in order
    delivered,  \* the messages each handler was called with, in order
    gone,       \* the messages dropped as the oldest or cleared
    cleared     \* clear_pending has run on the route

delivery == catalog.routes
MaxEmits == catalog.maxEmits
Routes == DOMAIN delivery
Messages == 1..MaxEmits
Kind(r) == delivery[r].kind
Capacity(r) == delivery[r].capacity
Overflow(r) == delivery[r].overflow
Async(r) == Kind(r) # "Inline"

ring == <<storage, head, tail, count, slots>>
drain == <<drainer, taken, left>>
locals == <<route, msg, drops, note>>
emitter == <<place, locals, emits>>
lifecycle == <<running, stop, at, result>>
history == <<stored, delivered, gone, cleared>>
vars == <<catalog, accepting, inFlight, ring, pending, open, work, drain, emitter, lifecycle, history>>

Init ==
    /\ catalog \in Catalogs
    /\ accepting = [r \in Routes |-> FALSE] /\ inFlight = [r \in Routes |-> 0]
    /\ storage = [r \in Routes |-> [i \in 0..(Capacity(r) - 1) |-> NoMessage]]
    /\ head = [r \in Routes |-> 0] /\ tail = [r \in Routes |-> 0]
    /\ count = [r \in Routes |-> 0] /\ slots = [r \in Routes |-> Capacity(r)]
    /\ pending = [r \in Routes |-> 0]
    /\ open = [r \in Routes |-> FALSE] /\ work = [r \in Routes |-> {}]
    /\ drainer = [r \in Routes |-> "Idle"]
    /\ taken = [r \in Routes |-> NoMessage] /\ left = [r \in Routes |-> 0]
    /\ place = [e \in Emitters |-> "Idle"] /\ route = [e \in Emitters |-> 1]
    /\ msg = [e \in Emitters |-> NoMessage] /\ drops = [e \in Emitters |-> FALSE]
    /\ note = [e \in Emitters |-> 0] /\ emits = 0
    /\ running = FALSE /\ stop = "Boot" /\ at = 1 /\ result = "None"
    /\ stored = [r \in Routes |-> <<>>] /\ delivered = [r \in Routes |-> <<>>]
    /\ gone = [r \in Routes |-> {}] /\ cleared = [r \in Routes |-> FALSE]
----------------------------------------------------------------------------
Set(f, x, v) == [f EXCEPT ![x] = v]

(* The messages of a ring, oldest first                                    *)
Contents(r) == [i \in 1..count[r] |-> storage[r][(head[r] + i - 1) % Capacity(r)]]

Oldest(r) == IF count[r] = 0 THEN {} ELSE {storage[r][head[r]]}

Advance(i, r) == (i + 1) % Capacity(r)

Less(n) == (n + Word - 1) % Word

(* clear_pending, under the storage lock: the slots are reset as well.     *)
ClearStorage(r) ==
    /\ head' = Set(head, r, 0) /\ tail' = Set(tail, r, 0) /\ count' = Set(count, r, 0)
    /\ slots' = Set(slots, r, Capacity(r))
    /\ gone' = Set(gone, r, gone[r] \cup ToSet(Contents(r)))
    /\ cleared' = Set(cleared, r, TRUE)
    /\ UNCHANGED <<storage, stored, delivered>>
----------------------------------------------------------------------------
(***************************************************************************)
(* emit_message and emit_route.                                            *)
(***************************************************************************)
Goto(e, p) == place' = Set(place, e, p)

(* The attempt is over: the next route, whatever the answer of this one.   *)
NextRoute(e) ==
    /\ IF route[e] < Len(delivery)
       THEN Goto(e, "Route") /\ route' = Set(route, e, route[e] + 1) /\ UNCHANGED msg
       ELSE Goto(e, "Idle") /\ route' = Set(route, e, 1) /\ msg' = Set(msg, e, NoMessage)
    /\ drops' = Set(drops, e, FALSE) /\ note' = Set(note, e, 0)

Emit(e) ==
    /\ place[e] = "Idle" /\ emits < MaxEmits /\ running
    /\ emits' = emits + 1
    /\ msg' = Set(msg, e, emits + 1)
    /\ Goto(e, "Route")
    /\ UNCHANGED <<accepting, inFlight, ring, pending, open, work, drain, route, drops, note,
                   lifecycle, history>>

(* The route's admission check                                             *)
Consider(e) ==
    LET r == route[e] IN
    /\ place[e] = "Route"
    /\ IF ~accepting[r]
       THEN NextRoute(e)
       ELSE /\ Goto(e, CASE Kind(r) = "Inline" -> "Invoke" [] Kind(r) = "Queued" -> "Take"
                         [] OTHER -> "Store")
            /\ UNCHANGED locals
    /\ UNCHANGED <<accepting, inFlight, ring, pending, open, work, drain, emits, lifecycle,
                   history>>

(* A slot that is taken without being counted                              *)
TakeFree(r) == UNCHANGED slots

TakeSlot(r) == slots[r] > 0 /\ slots' = Set(slots, r, slots[r] - 1)

Taken(e) ==
    /\ place[e] = "Take" /\ slots[route[e]] > 0
    /\ TakeSlot(route[e])
    /\ drops' = Set(drops, e, FALSE)
    /\ Goto(e, "Store")
    /\ UNCHANGED <<accepting, inFlight, storage, head, tail, count, pending, open, work, drain,
                   route, msg, note, emits, lifecycle, history>>

(* No slot.  With WaitFor the emitter may also wait until there is one or  *)
(* its time is over.                                                       *)
Full(e) ==
    LET r == route[e] IN
    /\ place[e] = "Take" /\ slots[r] = 0
    /\ IF Overflow(r) = "DropOldest"
       THEN drops' = Set(drops, e, TRUE) /\ Goto(e, "Store") /\ UNCHANGED <<route, msg, note>>
       ELSE NextRoute(e)
    /\ UNCHANGED <<accepting, inFlight, ring, pending, open, work, drain, emits, lifecycle,
                   history>>

(* A Queued route stores under its lock: the oldest message makes room     *)
(* when the emitter has no slot of its own.                                *)
StoreQueued(e, r) ==
    LET n == IF drops[e] THEN Less(count[r]) ELSE count[r] IN
    /\ head' = Set(head, r, IF drops[e] THEN Advance(head[r], r) ELSE head[r])
    /\ gone' = Set(gone, r, IF drops[e] THEN gone[r] \cup Oldest(r) ELSE gone[r])
    /\ storage' = Set(storage, r, Set(storage[r], tail[r], msg[e]))
    /\ tail' = Set(tail, r, Advance(tail[r], r))
    /\ count' = Set(count, r, (n + 1) % Word)
    /\ note' = Set(note, e, (n + 1) % Word)
    /\ Goto(e, "Accepted")
    /\ UNCHANGED slots

(* A Latest route replaces its payload.  A Coalesced route has no payload; *)
(* the cell remembers the last signal that was coalesced.                  *)
StoreOne(e, r) ==
    /\ storage' = Set(storage, r, Set(storage[r], 0, msg[e]))
    /\ count' = Set(count, r, 1)
    /\ note' = Set(note, e, 1)
    /\ Goto(e, IF Kind(r) = "Coalesced" /\ count[r] = 1 THEN "Coalesced" ELSE "Accepted")
    /\ UNCHANGED <<head, tail, slots, gone>>

Store(e) ==
    LET r == route[e] IN
    /\ place[e] = "Store"
    /\ IF Kind(r) = "Queued" THEN StoreQueued(e, r) ELSE StoreOne(e, r)
    /\ stored' = Set(stored, r, Append(stored[r], msg[e]))
    /\ UNCHANGED <<accepting, inFlight, pending, open, work, drain, route, msg, drops, emits,
                   lifecycle, delivered, cleared>>

(* accepted(): the record takes the count read under the lock.             *)
Accepted(e) ==
    LET r == route[e] IN
    /\ place[e] \in {"Accepted", "Coalesced"}
    /\ pending' = Set(pending, r, note[e])
    /\ IF place[e] = "Coalesced" THEN NextRoute(e) ELSE Goto(e, "Submit") /\ UNCHANGED locals
    /\ UNCHANGED <<accepting, inFlight, ring, open, work, drain, emits, lifecycle, history>>

(* submit_registration: the registration's admission check, ...            *)
Submit(e) ==
    /\ place[e] = "Submit"
    /\ Goto(e, IF open[route[e]] THEN "Native" ELSE "Clear")
    /\ UNCHANGED <<accepting, inFlight, ring, pending, open, work, drain, route, msg, drops, note,
                   emits, lifecycle, history>>

(* A native submit that an item already running ignores                    *)
NativeIfIdle(e) ==
    LET r == route[e] IN
    /\ place[e] = "Native"
    /\ work' = IF work[r] = {} THEN Set(work, r, {"QUEUED"}) ELSE work
    /\ NextRoute(e)
    /\ UNCHANGED <<accepting, inFlight, ring, pending, open, drain, emits, lifecycle, history>>

(* ... and the native submit, which an item being cancelled refuses.       *)
Native(e) ==
    LET r == route[e] IN
    /\ place[e] = "Native"
    /\ IF "CANCELING" \in work[r]
       THEN Goto(e, "Clear") /\ UNCHANGED <<work, locals>>
       ELSE work' = Set(work, r, work[r] \cup {"QUEUED"}) /\ NextRoute(e)
    /\ UNCHANGED <<accepting, inFlight, ring, pending, open, drain, emits, lifecycle, history>>

(* The submission failed: everything pending on the route is removed.      *)
Clear(e) ==
    /\ place[e] = "Clear"
    /\ ClearStorage(route[e])
    /\ Goto(e, "Cancelled")
    /\ UNCHANGED <<accepting, inFlight, pending, open, work, drain, route, msg, drops, note,
                   emits, lifecycle>>

Cancelled(e) ==
    /\ place[e] = "Cancelled"
    /\ pending' = Set(pending, route[e], 0)
    /\ NextRoute(e)
    /\ UNCHANGED <<accepting, inFlight, ring, open, work, drain, emits, lifecycle, history>>

(* deliver(), in the emitter's own context                                 *)
Invoke(e) ==
    LET r == route[e] IN
    /\ place[e] = "Invoke"
    /\ inFlight' = Set(inFlight, r, inFlight[r] + 1)
    /\ delivered' = Set(delivered, r, Append(delivered[r], msg[e]))
    /\ Goto(e, "Handle")
    /\ UNCHANGED <<accepting, ring, pending, open, work, drain, route, msg, drops, note, emits,
                   lifecycle, stored, gone, cleared>>

Handled(e) ==
    LET r == route[e] IN
    /\ place[e] = "Handle"
    /\ inFlight' = Set(inFlight, r, inFlight[r] - 1)
    /\ NextRoute(e)
    /\ UNCHANGED <<accepting, ring, pending, open, work, drain, emits, lifecycle, history>>

EmitterStep(e) ==
    \/ Consider(e) \/ Taken(e) \/ Full(e) \/ Store(e) \/ Accepted(e) \/ Submit(e) \/ Native(e)
    \/ Clear(e) \/ Cancelled(e) \/ Invoke(e) \/ Handled(e)
----------------------------------------------------------------------------
(***************************************************************************)
(* drain(), the behaviour of a route's registration.                       *)
(***************************************************************************)
TakeWork(r) ==
    /\ drainer[r] = "Idle" /\ "QUEUED" \in work[r]
    /\ work' = Set(work, r, (work[r] \ {"QUEUED"}) \cup {"RUNNING"})
    /\ drainer' = Set(drainer, r, "Pop")
    /\ UNCHANGED <<accepting, inFlight, ring, pending, open, taken, left, emitter, lifecycle,
                   history>>

(* drain_one, under the storage lock                                       *)
DrainOne(r) ==
    /\ drainer[r] = "Pop"
    /\ IF count[r] = 0
       THEN drainer' = Set(drainer, r, "Return") /\ UNCHANGED <<taken, left, head, count>>
       ELSE /\ taken' = Set(taken, r, storage[r][head[r]])
            /\ head' = IF Kind(r) = "Queued" THEN Set(head, r, Advance(head[r], r)) ELSE head
            /\ count' = Set(count, r, Less(count[r]))
            /\ left' = Set(left, r, Less(count[r]))
            /\ drainer' = Set(drainer, r, IF Kind(r) = "Queued" THEN "Give" ELSE "Record")
    /\ UNCHANGED <<accepting, inFlight, storage, tail, slots, pending, open, work, emitter,
                   lifecycle, history>>

(* A drain that waits until the ring is full                               *)
PopWhenFull(r) == count[r] \in {0, Capacity(r)} /\ DrainOne(r)

Pop(r) == DrainOne(r)

(* k_sem_give does not pass the semaphore's limit.                         *)
Given(r) == IF slots[r] < Capacity(r) THEN slots[r] + 1 ELSE slots[r]

Give(r) ==
    /\ drainer[r] = "Give"
    /\ slots' = Set(slots, r, Given(r))
    /\ drainer' = Set(drainer, r, "Record")
    /\ UNCHANGED <<accepting, inFlight, storage, head, tail, count, pending, open, work, taken,
                   left, emitter, lifecycle, history>>

Record(r) ==
    /\ drainer[r] = "Record"
    /\ pending' = Set(pending, r, left[r])
    /\ left' = Set(left, r, 0)
    /\ drainer' = Set(drainer, r, "Invoke")
    /\ UNCHANGED <<accepting, inFlight, ring, open, work, taken, emitter, lifecycle, history>>

Deliver(r) ==
    /\ drainer[r] = "Invoke"
    /\ inFlight' = Set(inFlight, r, inFlight[r] + 1)
    /\ delivered' = Set(delivered, r, Append(delivered[r], taken[r]))
    /\ drainer' = Set(drainer, r, "Handle")
    /\ UNCHANGED <<accepting, ring, pending, open, work, taken, left, emitter, lifecycle,
                   stored, gone, cleared>>

(* A drain that delivers one message for each run of the work item         *)
OneOnly(r) == "Return"

(* Only a Queued route is drained in a loop.                               *)
AfterHandler(r) == IF Kind(r) = "Queued" THEN "Pop" ELSE "Return"

DeliverDone(r) ==
    /\ drainer[r] = "Handle"
    /\ inFlight' = Set(inFlight, r, inFlight[r] - 1)
    /\ taken' = Set(taken, r, NoMessage)
    /\ drainer' = Set(drainer, r, AfterHandler(r))
    /\ UNCHANGED <<accepting, ring, pending, open, work, left, emitter, lifecycle, history>>

Return(r) ==
    /\ drainer[r] = "Return"
    /\ work' = Set(work, r, work[r] \ {"RUNNING", "CANCELING"})
    /\ drainer' = Set(drainer, r, "Idle")
    /\ UNCHANGED <<accepting, inFlight, ring, pending, open, taken, left, emitter, lifecycle,
                   history>>

DrainStep(r) ==
    TakeWork(r) \/ Pop(r) \/ Give(r) \/ Record(r) \/ Deliver(r) \/ DeliverDone(r) \/ Return(r)
----------------------------------------------------------------------------
(***************************************************************************)
(* The lifecycle: Facility::start, the commit to Running, the activation   *)
(* of the registrations; then the way back.                                *)
(***************************************************************************)
Unchanged == UNCHANGED <<drain, emitter, stored, delivered>>

(* The loop over the routes goes on, or the next stage begins.             *)
Walk(next) ==
    IF at < Len(delivery) THEN at' = at + 1 /\ UNCHANGED stop ELSE at' = 1 /\ stop' = next

Start ==
    /\ stop = "Boot"
    /\ accepting' = [r \in Routes |-> TRUE]
    /\ running' = TRUE
    /\ stop' = "Activate"
    /\ Unchanged /\ UNCHANGED <<inFlight, ring, pending, open, work, at, result, gone, cleared>>

Activate ==
    /\ stop = "Activate"
    /\ open' = Set(open, at, Async(at))
    /\ Walk("Run")
    /\ Unchanged /\ UNCHANGED <<accepting, inFlight, ring, pending, work, running, result, gone,
                                cleared>>

RequestStop ==
    /\ stop = "Run"
    /\ running' = FALSE
    /\ stop' = "Close"
    /\ Unchanged /\ UNCHANGED <<accepting, inFlight, ring, pending, open, work, at, result, gone,
                                cleared>>

(* request_registration_stop                                               *)
CloseRegistration ==
    /\ stop = "Close"
    /\ open' = Set(open, at, FALSE)
    /\ Walk("Cancel")
    /\ Unchanged /\ UNCHANGED <<accepting, inFlight, ring, pending, work, running, result, gone,
                                cleared>>

(* begin_registration_containment                                          *)
CancelWork ==
    /\ stop = "Cancel"
    /\ work' = IF delivery[at].stop = "CancelPending"
               THEN Set(work, at, IF "RUNNING" \in work[at] THEN {"RUNNING", "CANCELING"} ELSE {})
               ELSE work
    /\ Walk("Quiesce")
    /\ Unchanged /\ UNCHANGED <<accepting, inFlight, ring, pending, open, running, result, gone,
                                cleared>>

(* wait_registration_quiescent; a route that is not contained in time      *)
(* keeps the facility up.                                                  *)
Quiesce ==
    /\ stop = "Quiesce"
    /\ work[at] = {}
    /\ Walk("Stop")
    /\ Unchanged /\ UNCHANGED <<accepting, inFlight, ring, pending, open, work, running, result,
                                gone, cleared>>

Uncontained ==
    /\ stop = "Quiesce" /\ work[at] # {}
    /\ stop' = "Preserved"
    /\ Unchanged /\ UNCHANGED <<accepting, inFlight, ring, pending, open, work, running, at,
                                result, gone, cleared>>

(* Facility::stop: admission, ...                                          *)
CloseRoute ==
    /\ stop = "Stop"
    /\ accepting' = Set(accepting, at, FALSE)
    /\ stop' = "Pending"
    /\ Unchanged /\ UNCHANGED <<inFlight, ring, pending, open, work, running, at, result, gone,
                                cleared>>

(* ... what is pending, ...                                                *)
StopRoute ==
    /\ stop = "Pending"
    /\ IF Async(at) /\ delivery[at].stop = "CancelPending"
       THEN /\ ClearStorage(at) /\ pending' = Set(pending, at, 0)
            /\ UNCHANGED result
       ELSE /\ result' = IF Async(at) /\ pending[at] # 0 THEN "Timeout" ELSE result
            /\ UNCHANGED <<ring, pending, history>>
    /\ IF at < Len(delivery) THEN at' = at + 1 /\ stop' = "Stop" ELSE at' = 1 /\ stop' = "InFlight"
    /\ UNCHANGED <<accepting, inFlight, open, work, drain, emitter, running>>

(* ... and the handlers in flight, route by route, until the deadline.     *)
StopDone ==
    /\ stop = "InFlight"
    /\ \/ /\ inFlight[at] = 0 /\ at < Len(delivery)
          /\ at' = at + 1
          /\ UNCHANGED <<stop, result>>
       \/ /\ inFlight[at] = 0 /\ at = Len(delivery)
          /\ stop' = "Stopped"
          /\ result' = IF result = "None" THEN "Ok" ELSE result
          /\ UNCHANGED at
       \/ /\ inFlight[at] # 0
          /\ at' = 1
          /\ UNCHANGED <<stop, result>>
       \/ /\ inFlight[at] # 0
          /\ stop' = "Stopped" /\ result' = "Timeout"
          /\ UNCHANGED at
    /\ Unchanged /\ UNCHANGED <<accepting, inFlight, ring, pending, open, work, running, gone,
                                cleared>>

LifecycleStep ==
    \/ Start \/ Activate \/ RequestStop \/ CloseRegistration \/ CancelWork \/ Quiesce
    \/ Uncontained \/ CloseRoute \/ StopRoute \/ StopDone

Next ==
    /\ \/ \E e \in Emitters : Emit(e) \/ EmitterStep(e)
       \/ \E r \in Routes : DrainStep(r)
       \/ LifecycleStep
    /\ UNCHANGED catalog

Spec == Init /\ [][Next]_vars

AnyRoute == UNION {DOMAIN c.routes : c \in Catalogs}

(* Emitters and queue threads that can run do.                             *)
Fairness ==
    /\ \A e \in Emitters : WF_vars(EmitterStep(e) /\ UNCHANGED catalog)
    /\ \A r \in AnyRoute : WF_vars(r \in Routes /\ DrainStep(r) /\ UNCHANGED catalog)

FairSpec == Spec /\ Fairness
----------------------------------------------------------------------------
Places == {"Idle", "Route", "Take", "Store", "Accepted", "Coalesced", "Submit", "Native",
           "Clear", "Cancelled", "Invoke", "Handle"}

(* The type of every variable.                                             *)
TypeOK ==
    /\ accepting \in [Routes -> BOOLEAN] /\ open \in [Routes -> BOOLEAN]
    /\ \A r \in Routes :
          /\ inFlight[r] \in 0..(Cardinality(Emitters) + 1)
          /\ storage[r] \in [0..(Capacity(r) - 1) -> Messages \cup {NoMessage}]
          /\ head[r] \in 0..(Capacity(r) - 1) /\ tail[r] \in 0..(Capacity(r) - 1)
          /\ count[r] \in 0..(Word - 1) /\ slots[r] \in 0..Capacity(r)
          /\ pending[r] \in 0..(Word - 1) /\ left[r] \in 0..(Word - 1)
          /\ work[r] \subseteq {"QUEUED", "RUNNING", "CANCELING"}
          /\ taken[r] \in Messages \cup {NoMessage}
    /\ place \in [Emitters -> Places] /\ drops \in [Emitters -> BOOLEAN]
    /\ running \in BOOLEAN /\ result \in {"None", "Ok", "Timeout"}

EmittersAt(r, places) == {e \in Emitters : route[e] = r /\ place[e] \in places}

Holders(r) == {e \in EmittersAt(r, {"Store"}) : ~drops[e]}

(* The slots of a queue are accounted for: free, held by an emitter that   *)
(* has not stored yet, occupied, or about to be given back.                *)
SlotsConserved ==
    \A r \in Routes : Kind(r) = "Queued" /\ ~cleared[r] =>
        slots[r] + Cardinality(Holders(r)) + count[r]
            + (IF drainer[r] = "Give" THEN 1 ELSE 0) = Capacity(r)

(* A queue never holds more messages than it has cells.                    *)
QueueBounded == \A r \in Routes : count[r] <= Capacity(r)

(* A message that a queue has stored is delivered, dropped or cleared, in  *)
(* the drainer's hands, or still in the ring; the ring and the deliveries  *)
(* keep the order of storage, without repetition.                          *)
Outstanding(r) == ToSet(stored[r]) \ (ToSet(delivered[r]) \cup gone[r] \cup {taken[r]})

FifoExact ==
    \A r \in Routes : Kind(r) = "Queued" /\ ~cleared[r] =>
        /\ Contents(r) = SelectSeq(stored[r], LAMBDA m : m \in Outstanding(r))
        /\ delivered[r] = SelectSeq(stored[r], LAMBDA m : m \in ToSet(delivered[r]))

(* Nobody is on the way to the route's handler.                            *)
Settled(r) ==
    /\ work[r] = {} /\ ~cleared[r]
    /\ EmittersAt(r, Places \ {"Idle", "Route", "Take"}) = {}

(* When emission has settled, the handler has seen the newest message that *)
(* was accepted, and nothing is left behind in the route.                  *)
NewestSeen ==
    \A r \in Routes : Async(r) /\ Settled(r) /\ (open[r] \/ delivery[r].stop = "Drain") =>
        /\ count[r] = 0
        /\ stored[r] # <<>> => Last(delivered[r]) = Last(stored[r])

(* Every accepted message is delivered, dropped or cleared, although one   *)
(* work item is shared by all of them.                                     *)
AllDelivered ==
    \A r \in Routes : Kind(r) = "Queued" =>
        ToSet(stored[r]) \subseteq ToSet(delivered[r]) \cup gone[r]

AcceptedDelivered == ~AllDelivered ~> AllDelivered

(* A message whose emission has succeeded is not removed by another one    *)
(* that fails to submit.                                                   *)
Visiting(r) == EmittersAt(r, Places \ {"Idle"})

ClearsItsOwn ==
    [][\A e \in Emitters : place[e] = "Clear" /\ place'[e] = "Cancelled" =>
          ToSet(Contents(route[e])) \subseteq {msg[x] : x \in Visiting(route[e])}]_vars

(* stop() answers Timeout only when something is pending, running or being *)
(* emitted.                                                                *)
TimeoutMeansPending ==
    [][result' = "Timeout" /\ result # "Timeout" =>
          \E r \in Routes :
              count[r] # 0 \/ inFlight[r] # 0 \/ work[r] # {} \/ Visiting(r) # {}]_vars

(* After stop() has succeeded no handler is called from an emitter.        *)
InlineLeft ==
    result = "Ok" => \A r \in Routes : EmittersAt(r, {"Handle"}) = {}

(* What the queue of a route promises, together: every slot is accounted   *)
(* for between the semaphore and the ring, and what the ring holds and the *)
(* handler has seen is what was stored, in order (QueuedRoute).            *)
QueueExact == TypeOK /\ SlotsConserved /\ FifoExact

============================================================================
