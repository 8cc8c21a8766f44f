------------------------------- MODULE Events -------------------------------
(***************************************************************************)
(* The Events facility (events/runtime.hpp, events/facility.hpp and        *)
(* events/policy.hpp): threads and interrupts capture occurrences under    *)
(* a spin lock into bounded rings; a work item, or the stop hook, drains   *)
(* the rings in sequence order, retains each record by its event's policy, *)
(* hands it to the observers and keeps the condition that a fault raises   *)
(* and its recovery clears.                                                *)
(*                                                                         *)
(* A step is a section under the lock, an atomic access outside it, or a   *)
(* call out of the facility.  A call that the unlocked checks refuse       *)
(* changes nothing and is not a step.                                      *)
(***************************************************************************)
EXTENDS Integers, Sequences, FiniteSets, SequencesExt, FiniteSetsExt, TLC

CONSTANTS
    EventDesigns,   \* the systems to consider
    EventCatalog,   \* the events, in catalog order
    Observers,      \* the contexts that observe
    Isrs,           \* those of them that are interrupts
    MaxTime,        \* bound on the clock
    NoEvent         \* no event

EventTypes == ToSet(EventCatalog)
Sources == 1..2                 \* SourceId
Keys == 1..2                    \* what a key extractor returns
Drainers == {"work", "stop"}    \* who can be draining

CaptureKinds == {"EveryOccurrence", "SampleEvery", "RateLimited", "AggregateCount"}
RetentionKinds == {"Transient", "Buffered", "Critical", "Persistent"}

(* The policies of an event.  `period' is that of a sample, or the ticks   *)
(* of an interval or a window; `keys' the capacity for keys, 0 if the      *)
(* aggregate has none; `slots' the critical reservation; `size' that of    *)
(* an entry of the history.                                                *)
EventPolicies ==
    [capture : CaptureKinds, period : Nat, keys : Nat, retention : RetentionKinds,
     slots : Nat, panic : BOOLEAN, resolves : EventTypes \cup {NoEvent}, size : Nat]

EventDesignType ==
    [events : [EventTypes -> EventPolicies], threadDepth : Nat, isrDepth : Nat,
     historyBytes : Nat, stop : {"Drain", "CancelPending"},
     early : BOOLEAN,           \* hooks and interrupts observe before the system runs
     failing : BOOLEAN,         \* stores may fail and waits run out
     reader : BOOLEAN,          \* someone pages through the history
     sources : SUBSET Sources, calls : [Observers -> SUBSET EventTypes],
     attempts : [EventTypes -> Nat]] \* bound on the observations of an event

Aggregating(pol) == pol.capture = "AggregateCount"
IsrCompatible(pol) == pol.capture # "RateLimited" /\ (Aggregating(pol) => pol.keys = 0)

(* The static assertions about an event, a recovery and an ISR observation *)
ValidateEvent(pol) ==
    /\ pol.capture # "EveryOccurrence" => pol.period > 0
    /\ pol.retention = "Critical" <=> pol.slots > 0
    /\ pol.panic => pol.retention = "Critical"
    /\ pol.keys > 0 => Aggregating(pol)
ValidateResolution(d, e) == d.events[e].resolves \in EventTypes \cup {NoEvent}
ValidateIsr(d, e) ==
    IsrCompatible(d.events[e]) /\ (d.isrDepth > 0 \/ d.events[e].retention = "Critical")

ASSUME EventsAssumption ==
    /\ \A d \in EventDesigns :
         /\ d \in EventDesignType
         /\ \A e \in EventTypes : ValidateEvent(d.events[e]) /\ ValidateResolution(d, e)
         /\ \A o \in Isrs : \A e \in d.calls[o] : ValidateIsr(d, e)
    /\ Isrs \subseteq Observers /\ NoEvent \notin EventTypes /\ MaxTime \in Nat

VARIABLES
    eDesign,        \* the system
    phase,          \* where the lifecycle engine is with the facility
    accepting,      \* Facility::accepting (Facility::ready is Ready below)
    processorPending, \* Facility::processor_pending
    scheduler,      \* schedule_processor and process_record are set
    regAccepting,   \* the registration "events.processor" accepts submissions
    workQueued,     \* its work item is queued
    rings,          \* thread_ingress and isr_ingress
    critical,       \* EventState: critical_ingress, critical_history, critical_inflight
    history,        \* CompactHistory: its records, the oldest first
    historyEvicted, \* CompactHistory::evicted_ is not 0
    nextSequence,   \* Facility::next_sequence
    counts,         \* EventRecord and EventState: the counters the code or a property reads
    policyStart,    \* EventState::policy_window_start
    aggregation,    \* EventState::aggregation
    condition,      \* EventState::conditions: the sources whose record is active
    observer,       \* each context: where it is, and the event, source and key it observes
    drain,          \* each drainer: where it is, its record, its place in the catalog
    expired,        \* the deadline of stop() has passed
    now,            \* kernel::now_ticks
    cursor,         \* a reader's cursor
    popped,         \* the sequence of the record taken last
    seen            \* what the properties need to remember (SeenType)

(* suppressed is sampled and rate_limited, rejected is ingress_rejected    *)
(* and aggregation_rejected, discarded what cancel_aggregates counts, and  *)
(* losses policy_counter; emitted is the sum of occurrence_count and told  *)
(* that of lost_before over the records made.                              *)
Counters == {"attempts", "captured", "suppressed", "rejected", "discarded", "losses",
             "emitted", "told"}

(* The last of a fault and its recovery that was captured, by source;      *)
(* whether an unread record was evicted, two drainers were at work at      *)
(* once, a record was captured after capture closed, a record was dropped, *)
(* a ring refused the record of a window; the first sequence captured      *)
(* after activation.                                                       *)
SeenType ==
    [last : [Sources -> EventTypes \cup {NoEvent}], gap : BOOLEAN, overlapped : BOOLEAN,
     late : BOOLEAN, dropped : BOOLEAN, forgot : BOOLEAN, running : Nat]

engineVars == <<eDesign, phase, accepting, scheduler, regAccepting>>
ingressVars == <<rings, nextSequence, counts, policyStart, aggregation>>
retainVars == <<history, historyEvicted, condition>>
eventVars == <<engineVars, processorPending, workQueued, ingressVars, critical, retainVars,
               observer, drain, expired, now, cursor, popped, seen>>
----------------------------------------------------------------------------
(***************************************************************************)
(* Policies and storage.                                                   *)
(***************************************************************************)
Pol(e) == eDesign.events[e]
Aggregate(e) == Aggregating(Pol(e))
Critical(e) == Pol(e).retention = "Critical"
Ready == phase \notin {"Off", "Down"}

Slots(e) == IF Aggregate(e) THEN 1..(IF Pol(e).keys = 0 THEN 1 ELSE Pol(e).keys) ELSE {}
Waiting(e) == FoldSet(LAMBDA i, sum : aggregation[e][i].count + sum, 0, Slots(e))
NoSlot == [occupied |-> FALSE, key |-> 0, count |-> 0, start |-> 0, source |-> 1, lost |-> 0]
NoRecord == [event |-> NoEvent, source |-> 1, sequence |-> 0, count |-> 0, lost |-> 0]
NoCall == [at |-> "idle", event |-> NoEvent, source |-> 1, key |-> 0]
NoDrain == [at |-> "idle", record |-> NoRecord, index |-> 0]
NoCritical == [ingress |-> <<>>, history |-> <<>>, inflight |-> 0]
NothingSeen ==
    [last |-> [s \in Sources |-> NoEvent], gap |-> FALSE, overlapped |-> FALSE,
     late |-> FALSE, dropped |-> FALSE, forgot |-> FALSE, running |-> 0]

Tally(e, changes) == counts' = [counts EXCEPT ![e] = changes @@ @]
Bump(e, c, n) == counts[e][c] + n

(* FixedRing::push has room                                                *)
Room(ring, capacity) == Len(ring) < capacity

(* CompactHistory::append drops whole records, the oldest first, until the *)
(* new one fits; one that is larger than the buffer is not stored.         *)
Bytes(records) == FoldSeq(LAMBDA r, sum : Pol(r.event).size + sum, 0, records)
Storable(rec) == Pol(rec.event).size <= eDesign.historyBytes
Without(n) == SubSeq(history, n + 1, Len(history))
Evicted(rec) ==
    Min({n \in 0..Len(history) :
            Bytes(Without(n)) + Pol(rec.event).size <= eDesign.historyBytes})

(* CompactHistory::next takes the first, in storage order, that is at or   *)
(* after a sequence; read_history merges the critical ones by sequence.    *)
OrdinaryNext(search) ==
    LET at == SelectInSeq(history, LAMBDA r : r.sequence >= search) IN
    IF at = 0 THEN {} ELSE {history[at].sequence}
CriticalNext(search) ==
    UNION {{r.sequence : r \in {c \in ToSet(critical[e].history) : c.sequence >= search}} :
              e \in EventTypes}
NextRetained(search) == OrdinaryNext(search) \cup CriticalNext(search)

(* read_history(cursor) into a page of one record: does it report a gap,   *)
(* and where does it leave the cursor                                      *)
Stale(from) ==
    LET oldest == NextRetained(1) IN oldest # {} /\ from < Min(oldest) /\ historyEvicted
PageEnd(from) ==
    IF NextRetained(from) # {} THEN Min(NextRetained(from)) + 1
    ELSE IF Stale(from) THEN Min(NextRetained(1)) ELSE from

(* ingress_empty                                                           *)
Ingress == {rings.thread, rings.isr} \cup {critical[e].ingress : e \in EventTypes}
IngressEmpty == Ingress = {<<>>}
----------------------------------------------------------------------------
(***************************************************************************)
(* The observing side: capture_event and request_processing.               *)
(***************************************************************************)
Stay(o) == observer' = [observer EXCEPT ![o] = NoCall]
Reach(o, at) == observer' = [observer EXCEPT ![o].at = at]

(* The checks before the lock: an observation may start before the system  *)
(* runs only where the design says that hooks and interrupts do.           *)
Enter(o) ==
    /\ observer[o].at = "idle" /\ Ready /\ accepting
    /\ eDesign.early \/ scheduler
    /\ \E e \in eDesign.calls[o], s \in eDesign.sources, k \in Keys :
         /\ counts[e].attempts + Cardinality({p \in Observers : observer[p].event = e})
              < eDesign.attempts[e]
         /\ k = 1 \/ Pol(e).keys > 0
         /\ observer' = [observer EXCEPT ![o] =
                           [at |-> "lock", event |-> e, source |-> s, key |-> k]]
    /\ UNCHANGED <<engineVars, processorPending, workQueued, ingressVars, critical, retainVars,
                   drain, expired, now, cursor, popped, seen>>

(* try_acquire() of an interrupt finds the lock taken by another context   *)
Contended(o) ==
    /\ o \in Isrs /\ observer[o].at = "lock"
    /\ \/ \E p \in Observers \ {o} : observer[p].at = "lock"
       \/ \E d \in Drainers : drain[d].at \notin {"idle", "begin", "offer"}
    /\ Stay(o)
    /\ UNCHANGED <<engineVars, processorPending, workQueued, ingressVars, critical, retainVars,
                   drain, expired, now, cursor, popped, seen>>

(* should_materialize, of the attempt that is being counted                *)
Suppressed(e) ==
    \/ Pol(e).capture = "SampleEvery" /\ counts[e].attempts % Pol(e).period # 0
    \/ /\ Pol(e).capture = "RateLimited" /\ counts[e].attempts > 0
       /\ now - policyStart[e] < Pol(e).period

(* The entry an occurrence accumulates in: the one that holds its key,     *)
(* else the first free one                                                 *)
Holding(e, k) == {i \in Slots(e) : aggregation[e][i].occupied /\ aggregation[e][i].key = k}
Free(e) == {i \in Slots(e) : ~aggregation[e][i].occupied}
Entry(e, k) == Min(IF Holding(e, k) # {} THEN Holding(e, k) ELSE Free(e))
KeysFull(e, k) == Aggregate(e) /\ Holding(e, k) \cup Free(e) = {}

(* Its window has not passed                                               *)
Accumulates(e, k) ==
    /\ Aggregate(e) /\ ~KeysFull(e, k)
    /\ LET slot == aggregation[e][Entry(e, k)] IN
       slot.count = 0 \/ now - slot.start < Pol(e).period

(* The record an observation makes, and the ring that takes it             *)
MadeOf(call) ==
    [event |-> call.event, source |-> call.source, sequence |-> nextSequence,
     count |-> IF Aggregate(call.event)
               THEN aggregation[call.event][Entry(call.event, call.key)].count + 1 ELSE 1,
     lost |-> counts[call.event].losses]
(* A record in the hands of the processor is not counted.                  *)
OccupiedSettled(e) == Len(critical[e].ingress) + Len(critical[e].history)
Occupied(e) == Len(critical[e].ingress) + Len(critical[e].history) + critical[e].inflight
Admits(o, e) ==
    IF Critical(e) THEN Occupied(e) < Pol(e).slots /\ Room(critical[e].ingress, Pol(e).slots)
    ELSE IF o \in Isrs THEN Room(rings.isr, eDesign.isrDepth)
    ELSE Room(rings.thread, eDesign.threadDepth)
Pushed(o, rec) ==
    IF Critical(rec.event)
    THEN /\ critical' = [critical EXCEPT ![rec.event].ingress = Append(@, rec)]
         /\ UNCHANGED rings
    ELSE /\ rings' = [rings EXCEPT ![IF o \in Isrs THEN "isr" ELSE "thread"] = Append(@, rec)]
         /\ UNCHANGED critical

(* An occurrence that materializes past its window empties its entry       *)
(* before the ring is tried.                                               *)
RolledOver(e, k) ==
    aggregation' = IF Aggregate(e) THEN [aggregation EXCEPT ![e][Entry(e, k)] = NoSlot]
                   ELSE aggregation
RateStarted(e) ==
    policyStart' = IF Pol(e).capture = "RateLimited" THEN [policyStart EXCEPT ![e] = now]
                   ELSE policyStart

(* What the properties remember of a record                                *)
Resolving(e) == Pol(e).resolves # NoEvent
Conditional(e) == Resolving(e) \/ \E f \in EventTypes : Pol(f).resolves = e
Remember(rec) ==
    [seen EXCEPT !.last[rec.source] = IF Conditional(rec.event) THEN rec.event ELSE @,
                 !.late = @ \/ ~accepting,
                 !.running = IF @ = 0 /\ scheduler THEN rec.sequence ELSE @]

Suppress(o) ==
    LET e == observer[o].event IN
    /\ observer[o].at = "lock" /\ Suppressed(e)
    /\ Tally(e, [attempts |-> Bump(e, "attempts", 1), suppressed |-> Bump(e, "suppressed", 1)])
    /\ Stay(o)
    /\ UNCHANGED <<engineVars, processorPending, workQueued, rings, nextSequence, policyStart,
                   aggregation, critical, retainVars, drain, expired, now, cursor, popped, seen>>

Accumulate(o) ==
    LET e == observer[o].event
        i == Entry(e, observer[o].key)
        slot == aggregation[e][i]
    IN
    /\ observer[o].at = "lock" /\ Accumulates(e, observer[o].key)
    /\ aggregation' = [aggregation EXCEPT ![e][i] =
            [occupied |-> TRUE, key |-> observer[o].key, count |-> slot.count + 1,
             start |-> IF slot.count = 0 THEN now ELSE slot.start,
             source |-> observer[o].source, lost |-> counts[e].losses]]
    /\ Tally(e, [attempts |-> Bump(e, "attempts", 1)])
    /\ seen' = [seen EXCEPT !.late = @ \/ ~accepting]
    /\ Stay(o)
    /\ UNCHANGED <<engineVars, processorPending, workQueued, rings, nextSequence, policyStart,
                   critical, retainVars, drain, expired, now, cursor, popped>>

ExhaustKeys(o) ==
    LET e == observer[o].event IN
    /\ observer[o].at = "lock" /\ KeysFull(e, observer[o].key)
    /\ Tally(e, [attempts |-> Bump(e, "attempts", 1), rejected |-> Bump(e, "rejected", 1),
                 losses |-> Bump(e, "losses", 1)])
    /\ Stay(o)
    /\ UNCHANGED <<engineVars, processorPending, workQueued, rings, nextSequence, policyStart,
                   aggregation, critical, retainVars, drain, expired, now, cursor, popped, seen>>

Materializes(o) ==
    LET e == observer[o].event IN
    /\ observer[o].at = "lock" /\ ~Suppressed(e)
    /\ ~Accumulates(e, observer[o].key) /\ ~KeysFull(e, observer[o].key)

Refuse(o) ==
    LET e == observer[o].event IN
    /\ Materializes(o) /\ ~Admits(o, e)
    /\ RateStarted(e) /\ RolledOver(e, observer[o].key)
    /\ Tally(e, [attempts |-> Bump(e, "attempts", 1), rejected |-> Bump(e, "rejected", 1),
                 losses |-> Bump(e, "losses", 1)])
    /\ seen' = [seen EXCEPT !.forgot = @ \/ Aggregate(e)]
    /\ phase' = IF Pol(e).panic THEN "Panicked" ELSE phase
    /\ Stay(o)
    /\ UNCHANGED <<eDesign, accepting, scheduler, regAccepting, processorPending, workQueued,
                   rings, nextSequence, critical, retainVars, drain, expired, now, cursor,
                   popped>>

Admit(o) ==
    LET rec == MadeOf(observer[o])
        e == rec.event
    IN
    /\ Materializes(o) /\ Admits(o, e)
    /\ RateStarted(e) /\ RolledOver(e, observer[o].key)
    /\ Pushed(o, rec)
    /\ nextSequence' = nextSequence + 1
    /\ Tally(e, [attempts |-> Bump(e, "attempts", 1), captured |-> Bump(e, "captured", 1),
                 losses |-> 0, emitted |-> Bump(e, "emitted", rec.count),
                 told |-> Bump(e, "told", rec.lost)])
    /\ seen' = Remember(rec)
    /\ Reach(o, "request")
    /\ UNCHANGED <<engineVars, processorPending, workQueued, retainVars, drain, expired, now,
                   cursor, popped>>

(* request_processing: the exchange                                        *)
Request(o) ==
    /\ observer[o].at = "request"
    /\ processorPending' = TRUE
    /\ IF processorPending THEN Stay(o) ELSE Reach(o, "schedule")
    /\ UNCHANGED <<engineVars, workQueued, ingressVars, critical, retainVars, drain, expired,
                   now, cursor, popped, seen>>

(* then the call of schedule_processor, whose registration may be closed,  *)
(* and the undo of a failure                                               *)
Schedule(o) ==
    /\ observer[o].at = "schedule"
    /\ IF scheduler /\ regAccepting THEN Reach(o, "submit") ELSE Reach(o, "undo")
    /\ UNCHANGED <<engineVars, processorPending, workQueued, ingressVars, critical, retainVars,
                   drain, expired, now, cursor, popped, seen>>

Undo(o) ==
    /\ observer[o].at = "undo"
    /\ processorPending' = FALSE
    /\ Stay(o)
    /\ UNCHANGED <<engineVars, workQueued, ingressVars, critical, retainVars, drain, expired,
                   now, cursor, popped, seen>>

(* and the submission to the work queue, which a registration that closes  *)
(* in between does not withhold                                            *)
Submit(o) ==
    /\ observer[o].at = "submit"
    /\ workQueued' = TRUE
    /\ Stay(o)
    /\ UNCHANGED <<engineVars, processorPending, ingressVars, critical, retainVars, drain,
                   expired, now, cursor, popped, seen>>

Capture(o) ==
    \/ Contended(o) \/ Suppress(o) \/ Accumulate(o) \/ ExhaustKeys(o) \/ Refuse(o) \/ Admit(o)
RequestProcessing(o) == Request(o) \/ Schedule(o) \/ Undo(o) \/ Submit(o)
----------------------------------------------------------------------------
(***************************************************************************)
(* The processing side: drain_processor, process_record_for and            *)
(* flush_aggregates.  The work item drains once per run; stop() drains and *)
(* flushes under one deadline.                                             *)
(***************************************************************************)
Other(d) == CHOOSE x \in Drainers : x # d
Set(d, value) == drain' = [drain EXCEPT ![d] = value]
Go(d, at) == drain' = [drain EXCEPT ![d].at = at]

(* Where a drainer goes for its next record: back to the rings, or back to *)
(* the aggregates of the event it is flushing                              *)
NextRecord(d) ==
    Set(d, [NoDrain EXCEPT !.at = IF drain[d].index = 0 THEN "pop" ELSE "flush",
                           !.index = drain[d].index])

TakeWork ==
    /\ workQueued /\ drain.work.at = "idle"
    /\ workQueued' = FALSE
    /\ Go("work", "begin")
    /\ UNCHANGED <<engineVars, processorPending, ingressVars, critical, retainVars, observer,
                   expired, now, cursor, popped, seen>>

BeginDrain(d) ==
    /\ drain[d].at = "begin"
    /\ processorPending' = FALSE
    /\ Go(d, "pop")
    /\ seen' = [seen EXCEPT !.overlapped = @ \/ drain[Other(d)].at # "idle"]
    /\ UNCHANGED <<engineVars, workQueued, ingressVars, critical, retainVars, observer, expired,
                   now, cursor, popped>>

(* pop_next: the lowest sequence at the head of a ring                     *)
Heads == {Head(ring) : ring \in Ingress \ {<<>>}}
ThreadFirst ==
    IF rings.thread # <<>> THEN Head(rings.thread)
    ELSE CHOOSE r \in Heads : \A other \in Heads : r.sequence <= other.sequence
NextUp == CHOOSE r \in Heads : \A other \in Heads : r.sequence <= other.sequence
Dropped(ring, r) == IF ring # <<>> /\ Head(ring) = r THEN Tail(ring) ELSE ring
Popped(r) ==
    /\ rings' = [k \in DOMAIN rings |-> Dropped(rings[k], r)]
    /\ critical' = IF Critical(r.event)
                   THEN [critical EXCEPT ![r.event].ingress = Tail(@), ![r.event].inflight = @ + 1]
                   ELSE critical

(* The deadline is looked at only while there is something to drain.       *)
Pop(d) ==
    /\ drain[d].at = "pop" /\ ~IngressEmpty /\ ~(d = "stop" /\ expired)
    /\ LET r == NextUp IN
       /\ Popped(r)
       /\ popped' = r.sequence
       /\ Set(d, [drain[d] EXCEPT !.at = "process", !.record = r])
    /\ UNCHANGED <<engineVars, processorPending, workQueued, nextSequence, counts, policyStart,
                   aggregation, retainVars, observer, expired, now, cursor, seen>>

EndDrain(d) ==
    /\ drain[d].at = "pop" /\ (IngressEmpty \/ (d = "stop" /\ expired))
    /\ Set(d, IF d = "work" THEN NoDrain ELSE [NoDrain EXCEPT !.at = "flush", !.index = 1])
    /\ UNCHANGED <<engineVars, processorPending, workQueued, ingressVars, critical, retainVars,
                   observer, expired, now, cursor, popped, seen>>

(* process_record is null before activation and after deinit()             *)
Unprocessed(d) ==
    /\ drain[d].at = "process" /\ ~scheduler
    /\ NextRecord(d)
    /\ seen' = [seen EXCEPT !.dropped = TRUE]
    /\ UNCHANGED <<engineVars, processorPending, workQueued, ingressVars, critical, retainVars,
                   observer, expired, now, cursor, popped>>

(* retain_record: nothing, the history, the reservation, or a store        *)
RetainBuffered(d) ==
    LET r == drain[d].record
        n == Evicted(r)
    IN
    /\ Pol(r.event).retention = "Buffered"
    /\ IF Storable(r)
       THEN /\ history' = Append(Without(n), r)
            /\ historyEvicted' = (historyEvicted \/ n > 0)
            /\ seen' = [seen EXCEPT !.gap = @ \/ \E i \in 1..n : history[i].sequence >= cursor]
       ELSE UNCHANGED <<history, historyEvicted, seen>>
    /\ UNCHANGED critical
RetainCritical(d) ==
    LET r == drain[d].record
        c == critical[r.event]
        kept == Room(c.history, Pol(r.event).slots)
    IN
    /\ Critical(r.event)
    /\ critical' = [critical EXCEPT ![r.event] =
            [c EXCEPT !.history = IF kept THEN Append(@, r) ELSE @,
                      !.inflight = IF @ = 0 THEN 0 ELSE @ - 1]]
    /\ UNCHANGED <<history, historyEvicted, seen>>
RetainElsewhere(d) ==
    /\ Pol(drain[d].record.event).retention \in {"Transient", "Persistent"}
    /\ UNCHANGED <<critical, history, historyEvicted, seen>>
Retain(d) ==
    /\ drain[d].at = "process" /\ scheduler
    /\ RetainBuffered(d) \/ RetainCritical(d) \/ RetainElsewhere(d)
    /\ Go(d, "offer")
    /\ UNCHANGED <<engineVars, processorPending, workQueued, ingressVars, condition, observer,
                   expired, now, cursor, popped>>

(* The observers of the event are called, outside the lock.  What they     *)
(* return is counted and changes nothing else.                             *)
Offer(d) ==
    /\ drain[d].at = "offer"
    /\ Go(d, "settle")
    /\ UNCHANGED <<engineVars, processorPending, workQueued, ingressVars, critical, retainVars,
                   observer, expired, now, cursor, popped, seen>>

(* The record's own condition becomes active and that of the event it      *)
(* resolves, by the same source, inactive.                                 *)
Conditions(r) ==
    [e \in EventTypes |->
        IF e = Pol(r.event).resolves THEN condition[e] \ {r.source}
        ELSE IF e = r.event THEN condition[e] \cup {r.source} ELSE condition[e]]
Settle(d) ==
    /\ drain[d].at = "settle"
    /\ condition' = Conditions(drain[d].record)
    /\ NextRecord(d)
    /\ UNCHANGED <<engineVars, processorPending, workQueued, ingressVars, critical, history,
                   historyEvicted, observer, expired, now, cursor, popped, seen>>

Process(d) == Unprocessed(d) \/ Retain(d) \/ Offer(d) \/ Settle(d)
DrainProcessor(d) == BeginDrain(d) \/ Pop(d) \/ EndDrain(d) \/ Process(d)

(* take_pending_aggregate: the first entry of the event that has a count   *)
Flushing == EventCatalog[drain.stop.index]
Pending(e) == {i \in Slots(e) : aggregation[e][i].count > 0}
FlushOne ==
    LET e == Flushing
        i == Min(Pending(e))
        slot == aggregation[e][i]
        r == [event |-> e, source |-> slot.source, sequence |-> nextSequence,
              count |-> slot.count, lost |-> slot.lost]
    IN
    /\ drain.stop.at = "flush" /\ drain.stop.index <= Len(EventCatalog)
    /\ ~expired /\ Pending(e) # {}
    /\ aggregation' = [aggregation EXCEPT ![e][i] = NoSlot]
    /\ nextSequence' = nextSequence + 1
    /\ popped' = nextSequence
    /\ Tally(e, [captured |-> Bump(e, "captured", 1), losses |-> 0,
                 emitted |-> Bump(e, "emitted", r.count), told |-> Bump(e, "told", r.lost)])
    /\ Set("stop", [drain.stop EXCEPT !.at = "process", !.record = r])
    /\ seen' = [seen EXCEPT !.last[r.source] = IF Conditional(e) THEN e ELSE @]
    /\ UNCHANGED <<engineVars, processorPending, workQueued, rings, policyStart, critical,
                   retainVars, observer, expired, now, cursor>>

(* Nothing left of this event, or no time left                             *)
FlushNext ==
    /\ drain.stop.at = "flush" /\ drain.stop.index <= Len(EventCatalog)
    /\ expired \/ Pending(Flushing) = {}
    /\ Set("stop", [drain.stop EXCEPT !.index = @ + 1])
    /\ UNCHANGED <<engineVars, processorPending, workQueued, ingressVars, critical, retainVars,
                   observer, expired, now, cursor, popped, seen>>

FlushAggregates == FlushOne \/ FlushNext
----------------------------------------------------------------------------
(***************************************************************************)
(* The lifecycle engine's calls, and what surrounds the facility.          *)
(***************************************************************************)
EventsInit ==
    /\ eDesign \in EventDesigns
    /\ phase = "Off" /\ accepting = FALSE /\ processorPending = FALSE
    /\ scheduler = FALSE /\ regAccepting = FALSE /\ workQueued = FALSE
    /\ rings = [thread |-> <<>>, isr |-> <<>>]
    /\ critical = [e \in EventTypes |-> NoCritical]
    /\ history = <<>> /\ historyEvicted = FALSE /\ nextSequence = 1
    /\ counts = [e \in EventTypes |-> [c \in Counters |-> 0]]
    /\ policyStart = [e \in EventTypes |-> 0]
    /\ aggregation = [e \in EventTypes |-> [i \in Slots(e) |-> NoSlot]]
    /\ condition = [e \in EventTypes |-> {}]
    /\ observer = [o \in Observers |-> NoCall]
    /\ drain = [d \in Drainers |-> NoDrain]
    /\ expired = FALSE /\ now = 0 /\ cursor = 1 /\ popped = 0 /\ seen = NothingSeen

(* init(): the storage is as it is at reset; a store that cannot be        *)
(* initialized fails the hook after the facility became ready.             *)
FacilityInit ==
    /\ phase = "Off"
    /\ accepting' = TRUE
    /\ \/ phase' = "Initialized"
       \/ /\ eDesign.failing /\ \E e \in EventTypes : Pol(e).retention = "Persistent"
          /\ phase' = "InitFailed"
    /\ UNCHANGED <<eDesign, scheduler, regAccepting, processorPending, workQueued, ingressVars,
                   critical, retainVars, observer, drain, expired, now, cursor, popped, seen>>

(* start(): what was captured already is requested, and a request that     *)
(* cannot be made fails the hook.                                          *)
FacilityStart ==
    /\ phase = "Initialized"
    /\ accepting' = TRUE
    /\ IF IngressEmpty THEN phase' = "Started" /\ UNCHANGED processorPending
       ELSE phase' = "Requesting" /\ processorPending' = FALSE
    /\ UNCHANGED <<eDesign, scheduler, regAccepting, workQueued, ingressVars, critical,
                   retainVars, observer, drain, expired, now, cursor, popped, seen>>

StartRequest ==
    /\ phase = "Requesting"
    /\ phase' = IF processorPending \/ scheduler THEN "Started" ELSE "StartFailed"
    /\ UNCHANGED <<eDesign, accepting, scheduler, regAccepting, processorPending, workQueued,
                   ingressVars, critical, retainVars, observer, drain, expired, now, cursor,
                   popped, seen>>

(* The registrations accept, then activate_runtime() sets the pointers.    *)
AcceptRegistration ==
    /\ phase = "Started"
    /\ phase' = "Running" /\ regAccepting' = TRUE
    /\ UNCHANGED <<eDesign, accepting, scheduler, processorPending, workQueued, ingressVars,
                   critical, retainVars, observer, drain, expired, now, cursor, popped, seen>>

ActivateRuntime ==
    /\ phase = "Running" /\ ~scheduler
    /\ scheduler' = TRUE
    /\ UNCHANGED <<eDesign, phase, accepting, regAccepting, processorPending, workQueued,
                   ingressVars, critical, retainVars, observer, drain, expired, now, cursor,
                   popped, seen>>

(* The engine closes the registration and waits for its work; a wait that  *)
(* runs out leaves the facility as it is.                                  *)
CloseRegistration ==
    /\ phase = "Running" /\ scheduler
    /\ phase' = "Closing" /\ regAccepting' = FALSE
    /\ UNCHANGED <<eDesign, accepting, scheduler, processorPending, workQueued, ingressVars,
                   critical, retainVars, observer, drain, expired, now, cursor, popped, seen>>

WorkIdle == ~workQueued /\ drain.work.at = "idle"

PreserveFacility ==
    /\ phase = "Closing" /\ ~WorkIdle /\ eDesign.failing
    /\ phase' = "Preserved"
    /\ UNCHANGED <<eDesign, accepting, scheduler, regAccepting, processorPending, workQueued,
                   ingressVars, critical, retainVars, observer, drain, expired, now, cursor,
                   popped, seen>>

(* stop(): capture closes, then the rings are drained, or cleared          *)
CloseCapture ==
    /\ phase = "Closing" /\ WorkIdle
    /\ accepting' = FALSE
    /\ phase' = "Stopping"
    /\ IF eDesign.stop = "Drain" THEN Go("stop", "begin") ELSE UNCHANGED drain
    /\ UNCHANGED <<eDesign, scheduler, regAccepting, processorPending, workQueued, ingressVars,
                   critical, retainVars, observer, expired, now, cursor, popped, seen>>

(* cancel_aggregates counts what it discards; the rings are just cleared.  *)
CancelPending ==
    /\ phase = "Stopping" /\ eDesign.stop = "CancelPending"
    /\ phase' = "Stopped"
    /\ rings' = [k \in DOMAIN rings |-> <<>>]
    /\ critical' = [e \in EventTypes |-> [critical[e] EXCEPT !.ingress = <<>>]]
    /\ counts' = [e \in EventTypes |-> [counts[e] EXCEPT !.discarded = @ + Waiting(e)]]
    /\ aggregation' = [e \in EventTypes |-> [i \in Slots(e) |-> NoSlot]]
    /\ seen' = [seen EXCEPT !.dropped = @ \/ ~IngressEmpty]
    /\ UNCHANGED <<eDesign, accepting, scheduler, regAccepting, processorPending, workQueued,
                   nextSequence, policyStart, retainVars, observer, drain, expired, now, cursor,
                   popped>>

StopReturns ==
    /\ phase = "Stopping"
    /\ drain.stop.at = "flush" /\ drain.stop.index > Len(EventCatalog)
    /\ phase' = "Stopped"
    /\ Set("stop", NoDrain)
    /\ UNCHANGED <<eDesign, accepting, scheduler, regAccepting, processorPending, workQueued,
                   ingressVars, critical, retainVars, observer, expired, now, cursor, popped,
                   seen>>

(* deinit(), also in the rollback of a failed start                        *)
FacilityDeinit ==
    /\ phase \in {"Stopped", "StartFailed"}
    /\ phase' = "Down" /\ scheduler' = FALSE
    /\ UNCHANGED <<eDesign, accepting, regAccepting, processorPending, workQueued, ingressVars,
                   critical, retainVars, observer, drain, expired, now, cursor, popped, seen>>

Timed(e) == Pol(e).capture \in {"RateLimited", "AggregateCount"}
Tick ==
    /\ now < MaxTime /\ \E e \in EventTypes : Timed(e)
    /\ now' = now + 1
    /\ UNCHANGED <<engineVars, processorPending, workQueued, ingressVars, critical, retainVars,
                   observer, drain, expired, cursor, popped, seen>>

DeadlinePasses ==
    /\ drain.stop.at # "idle" /\ ~expired /\ eDesign.failing
    /\ expired' = TRUE
    /\ UNCHANGED <<engineVars, processorPending, workQueued, ingressVars, critical, retainVars,
                   observer, drain, now, cursor, popped, seen>>

(* read_history() and latest_history() of a client                         *)
ReadHistory ==
    /\ eDesign.reader /\ PageEnd(cursor) # cursor
    /\ cursor' = PageEnd(cursor)
    /\ seen' = [seen EXCEPT !.gap = FALSE]
    /\ UNCHANGED <<engineVars, processorPending, workQueued, ingressVars, critical, retainVars,
                   observer, drain, expired, now, popped>>

Boot == FacilityInit \/ FacilityStart \/ StartRequest \/ AcceptRegistration \/ ActivateRuntime
Shutdown ==
    \/ CloseRegistration \/ PreserveFacility \/ CloseCapture \/ CancelPending
    \/ StopReturns \/ FacilityDeinit

EventsNext ==
    /\ phase # "Panicked"
    /\ \/ Boot \/ Shutdown \/ Tick \/ DeadlinePasses \/ ReadHistory
       \/ \E o \in Observers : Enter(o) \/ Capture(o) \/ RequestProcessing(o)
       \/ TakeWork \/ \E d \in Drainers : DrainProcessor(d)
       \/ FlushAggregates

(* A context that entered comes out, the work queue runs its work and the  *)
(* stop hook goes on: each is a thread of its own, or an interrupt.  The   *)
(* engine is under no obligation.                                          *)
EventsFairness ==
    /\ \A o \in Observers :
         WF_eventVars(phase # "Panicked" /\ (Capture(o) \/ RequestProcessing(o)))
    /\ WF_eventVars(phase # "Panicked" /\ (TakeWork \/ DrainProcessor("work")))
    /\ WF_eventVars(phase # "Panicked" /\ (DrainProcessor("stop") \/ FlushAggregates))

EventsSpec == EventsInit /\ [][EventsNext]_eventVars /\ EventsFairness
----------------------------------------------------------------------------
(***************************************************************************)
(* Properties.                                                             *)
(***************************************************************************)
RecordType ==
    [event : EventTypes \cup {NoEvent}, source : Sources, sequence : Nat, count : Nat, lost : Nat]

(* The variables have their types; no ring exceeds its capacity            *)
(* (FixedRing) and the history its bytes (CompactHistory::append).         *)
EventsTypeOK ==
    /\ eDesign \in EventDesigns
    /\ phase \in {"Off", "Initialized", "InitFailed", "Requesting", "Started", "StartFailed",
                  "Running", "Closing", "Preserved", "Stopping", "Stopped", "Down", "Panicked"}
    /\ {accepting, processorPending, scheduler, regAccepting, workQueued, historyEvicted,
        expired} \subseteq BOOLEAN
    /\ \A ring \in Ingress \cup {history} : ToSet(ring) \subseteq RecordType
    /\ Len(rings.thread) <= eDesign.threadDepth /\ Len(rings.isr) <= eDesign.isrDepth
    /\ Bytes(history) <= eDesign.historyBytes
    /\ \A e \in EventTypes : DOMAIN aggregation[e] = Slots(e) /\ DOMAIN counts[e] = Counters
    /\ condition \in [EventTypes -> SUBSET Sources]
    /\ seen \in SeenType

(* The history is in order of sequence, which CompactHistory::next and     *)
(* read_history take for granted, however thread, interrupt and critical   *)
(* captures interleave with the drain that merges their rings, as long as  *)
(* the work item and stop() have not drained side by side.                 *)
HistorySorted ==
    ~seen.overlapped =>
        \A i, j \in DOMAIN history : i < j => history[i].sequence < history[j].sequence

(* A critical occurrence that was captured finds its place in the reserved *)
(* history: until it is there it is in its ring or in the hands of a       *)
(* drainer, and retain_record never refuses it (aggregates excepted: a     *)
(* flush makes records no reservation was made for).                       *)
InHand(e) ==
    Cardinality({d \in Drainers : drain[d].record.event = e /\ drain[d].at = "process"})
CriticalKept ==
    \A e \in EventTypes :
        Critical(e) /\ ~Aggregate(e) /\ ~seen.dropped =>
            counts[e].captured
                = Len(critical[e].ingress) + Len(critical[e].history) + InHand(e)

(* Every occurrence observed is in a record, waits in an aggregate, or is  *)
(* counted as suppressed, rejected or discarded, through windows that roll *)
(* over, keys that run out, flushes and cancellations, unless a ring has   *)
(* refused the record of a whole window, which counts as one loss.         *)
OccurrencesAccounted ==
    \A e \in EventTypes :
        ~seen.forgot =>
            counts[e].attempts
                = counts[e].emitted + counts[e].suppressed + counts[e].rejected
                  + counts[e].discarded
                  + Waiting(e)

(* What was rejected is announced: the lost_before of the records of an    *)
(* event add up to its rejections, less those since the last record        *)
(* (aggregates excepted: a representative keeps the count of its own       *)
(* observation and a later rejection is cleared with it).                  *)
LossesAnnounced ==
    \A e \in EventTypes :
        ~Aggregate(e) => counts[e].told + counts[e].losses = counts[e].rejected

(* Once everything captured has been processed, the condition of a fault   *)
(* is active at a source exactly when the fault, and not its recovery, is  *)
(* what was captured there last, whichever contexts they came from.        *)
Quiet == IngressEmpty /\ \A d \in Drainers : drain[d].at \in {"idle", "pop", "flush"}
ConditionTracks ==
    Quiet /\ ~seen.overlapped /\ ~seen.dropped =>
        \A e \in EventTypes : \A s \in Sources :
            Resolving(e) /\ seen.last[s] # NoEvent =>
                (s \in condition[Pol(e).resolves] <=> seen.last[s] = Pol(e).resolves)

(* A reader whose next records were evicted is told so: read_history       *)
(* reports a stale cursor (of systems without critical records, which are  *)
(* never evicted and hide the gap).                                        *)
GapReported ==
    seen.gap /\ ~seen.overlapped /\ (\A e \in EventTypes : ~Critical(e)) => Stale(cursor)

(* stop() under the Drain policy leaves nothing behind: with the deadline  *)
(* kept and no capture that slipped past the closing check, the rings and  *)
(* the aggregates are empty when it returns.                               *)
StopDrains ==
    /\ phase = "Stopped" /\ eDesign.stop = "Drain" /\ ~expired
    /\ ~seen.late /\ \A o \in Observers : observer[o].at # "lock"
    => IngressEmpty /\ \A e \in EventTypes : Pending(e) = {}

(* Once the runtime is active, whatever has been captured is processed, as *)
(* long as the system keeps running: the flag that coalesces requests      *)
(* never swallows the last one.                                            *)
Active == phase = "Running" /\ scheduler
RecordsProcessed ==
    Active /\ ~eDesign.early ~> popped = nextSequence - 1 \/ ~Active

(* Component init and start hooks may record boot-time facts: a fact that  *)
(* is captured before the system runs does not fail the facility's start.  *)
BootFactsAccepted == phase # "StartFailed"
----------------------------------------------------------------------------

(* What the history and the conditions tell is true, together: it is in    *)
(* order, a reader is told of a gap, a condition is the last fact          *)
(* captured for its source, and a stop that drains leaves nothing behind.  *)
HistoryTrue == EventsTypeOK /\ HistorySorted /\ GapReported /\ ConditionTracks /\ StopDrains

(* Every occurrence and every loss is in the books, together: critical     *)
(* records are kept, occurrences are accounted for, losses announced.      *)
BooksBalance == CriticalKept /\ OccurrencesAccounted /\ LossesAnnounced

=============================================================================
