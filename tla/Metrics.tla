------------------------------- MODULE Metrics -------------------------------
(***************************************************************************)
(* The Metrics facility (metrics/storage.hpp, runtime.hpp, facility.hpp,   *)
(* reducer.hpp, and the bulk read of api.hpp).  Every metric has one slot. *)
(* A locked slot is changed and read under its lock.  An atomic slot holds *)
(* each of its fields in an atomic of its own: writers announce themselves *)
(* in a counter, bump a generation when they are done, and a reader takes  *)
(* a reading only when nobody wrote and the generation stayed.             *)
(*                                                                         *)
(* A step is a section under a lock or an atomic access that another user  *)
(* can tell from the ones beside it.  Timestamps and the last status are   *)
(* left out; failures are counted by contention only.                      *)
(***************************************************************************)
EXTENDS Integers, Sequences, FiniteSets, SequencesExt, FiniteSetsExt

CONSTANTS
    MetricDesigns,  \* the systems to consider
    Users           \* the threads and interrupts that use metrics

Scalars == {"counter", "gauge"}
Reducers == {"last", "minimum", "maximum", "summary", "window", "ema", "histogram"}

(* A declaration with its policies: what the accumulator can hold, the     *)
(* size of a window, the boundaries of a histogram, the ratio of an EMA    *)
MetricType ==
    [backend : {"atomic", "locked"}, instrument : Scalars \cup Reducers,
     overflow : {"reject", "saturate", "wrap"}, lowest : Int, highest : Int,
     size : Nat, boundaries : Seq(Int), ratio : Seq(Nat)]

Verbs == {"add", "set", "observe", "reject", "reset", "get", "export"}
OpType == [verb : Verbs, m : Nat, arg : Int, noWait : BOOLEAN]

MetricDesignType ==
    [metrics : Seq(MetricType), ops : [Users -> SUBSET OpType], calls : [Users -> Nat],
     page : Nat,            \* the records an exporter has room for
     stops : BOOLEAN]       \* the system is seen from boot to stop, or while it runs

(* validate_metric: an atomic slot is a scalar, a counter is unsigned      *)
ValidateMetric(d) ==
    \A i \in DOMAIN d.metrics :
        LET metric == d.metrics[i]
        IN /\ metric.backend = "atomic" => metric.instrument \in Scalars
           /\ metric.instrument = "counter" => metric.lowest = 0
           /\ metric.instrument = "window" => metric.size > 0
           /\ metric.instrument = "ema" => metric.ratio[1] <= metric.ratio[2]
           /\ \A b \in 1..(Len(metric.boundaries) - 1) :
                  metric.boundaries[b] < metric.boundaries[b + 1]

(* The frontends: what may be asked of an instrument. A conversion that    *)
(* fails is noted (reject) for any of them.                                *)
Supports(metric, verb) ==
    CASE verb = "add" -> metric.instrument = "counter"
      [] verb = "set" -> metric.instrument = "gauge"
      [] verb = "observe" -> metric.instrument \in Reducers
      [] OTHER -> TRUE

(* require_counter, require_gauge, require_distribution, require_timer     *)
ValidateOps(d) ==
    \A op \in UNION {d.ops[u] : u \in Users} :
        op.m \in DOMAIN d.metrics /\ Supports(d.metrics[op.m], op.verb)

ASSUME MetricAssumption ==
    \A d \in MetricDesigns : d \in MetricDesignType /\ ValidateMetric(d) /\ ValidateOps(d)

VARIABLES
    mDesign,    \* the system
    slots,      \* the slot of each metric
    facility,   \* Facility: ready, accepting and lifecycle_record; who was inside at stop()
    user,       \* where each user is
    used,       \* how many calls each user has made
    export,     \* the cursor of the exporter and the records it holds
    truth       \* what the accepted updates of each metric were

metricVars == <<mDesign, slots, facility, user, used, export, truth>>

Metric(m) == mDesign.metrics[m]
MetricIds == DOMAIN mDesign.metrics
Total(s) == FoldLeft(LAMBDA a, b : a + b, 0, s)

(*-------------------------------------------------------------------------*)
(* Arithmetic                                                              *)

Width(metric) == metric.highest - metric.lowest + 1
Wrapped(metric, n) == metric.lowest + ((n - metric.lowest) % Width(metric))

CheckedAdd(metric, current, amount) ==
    IF amount <= metric.highest - current
    THEN [value |-> current + amount, done |-> "Updated"]
    ELSE CASE metric.overflow = "reject" -> [value |-> current, done |-> "Rejected"]
           [] metric.overflow = "wrap" ->
                  [value |-> Wrapped(metric, current + amount), done |-> "Wrapped"]
           [] OTHER -> [value |-> metric.highest, done |-> "Saturated"]

AddSum(metric, current, v) ==
    CASE metric.lowest = 0 -> CheckedAdd(metric, current, v)
      [] metric.lowest # 0 /\ current + v \in metric.lowest..metric.highest ->
             [value |-> current + v, done |-> "Updated"]
      [] OTHER ->
             CASE metric.overflow = "reject" -> [value |-> current, done |-> "Rejected"]
               [] metric.overflow = "wrap" ->
                      [value |-> Wrapped(metric, current + v), done |-> "Wrapped"]
               [] OTHER -> [value |-> IF v < 0 THEN metric.lowest ELSE metric.highest,
                            done |-> "Saturated"]

(* A floating value outside of the range stands for one that is not finite *)
ValidNumeric(metric, v) == v \in metric.lowest..metric.highest

(*-------------------------------------------------------------------------*)
(* Reducers: the state after an observation, and what became of it         *)

Point(s, v) == [s EXCEPT !.value = v, !.count = @ + 1]

ReduceExtreme(s, v, better) ==
    IF s.count = 0 \/ better THEN Point(s, v) ELSE Point(s, s.value)

ReduceSummary(s, v, sum) ==
    [count |-> s.count + 1, sum |-> sum,
     minimum |-> IF s.count = 0 THEN v ELSE Min({s.minimum, v}),
     maximum |-> IF s.count = 0 THEN v ELSE Max({s.maximum, v})]

(* An unsigned sum: what a saturated one loses here wraps around           *)
Remaining(metric, s) ==
    IF s.count = metric.size THEN Wrapped(metric, s.sum - s.values[s.next]) ELSE s.sum

ReduceWindow(metric, s, v, sum) ==
    [count |-> Min({s.count + 1, metric.size}), sum |-> sum, latest |-> v,
     values |-> [s.values EXCEPT ![s.next] = v], next |-> (s.next % metric.size) + 1]

(* The mean is kept as a numerator over denominator^(count - 1)            *)
ReduceEma(metric, s, v) ==
    LET num == metric.ratio[1]
        den == metric.ratio[2]
    IN [count |-> s.count + 1, latest |-> v,
        mean |-> IF s.count = 0 THEN v
                 ELSE num * v * den^(s.count - 1) + (den - num) * s.mean]

Bucket(metric, v) == Cardinality({b \in DOMAIN metric.boundaries : v > metric.boundaries[b]})

ReduceHistogram(metric, s, v, sum) ==
    [count |-> s.count + 1, sum |-> sum, buckets |-> [s.buckets EXCEPT ![Bucket(metric, v)] = @ + 1]]

Summing == {"summary", "window", "histogram"}

(* add_sum comes before anything is changed                                *)
SumAfter(metric, s, v) ==
    IF metric.instrument \notin Summing THEN [value |-> 0, done |-> "Updated"]
    ELSE AddSum(metric, IF metric.instrument = "window" THEN Remaining(metric, s) ELSE s.sum, v)

Prepared(metric, s, v, sum) ==
    CASE metric.instrument = "last" -> Point(s, v)
      [] metric.instrument = "minimum" -> ReduceExtreme(s, v, v < s.value)
      [] metric.instrument = "maximum" -> ReduceExtreme(s, v, v > s.value)
      [] metric.instrument = "summary" -> ReduceSummary(s, v, sum)
      [] metric.instrument = "window" -> ReduceWindow(metric, s, v, sum)
      [] metric.instrument = "ema" -> ReduceEma(metric, s, v)
      [] OTHER -> ReduceHistogram(metric, s, v, sum)

Unobserved(metric) ==
    CASE metric.instrument \in Scalars -> [value |-> 0]
      [] metric.instrument \in {"last", "minimum", "maximum"} -> [value |-> 0, count |-> 0]
      [] metric.instrument = "summary" -> [count |-> 0, sum |-> 0, minimum |-> 0, maximum |-> 0]
      [] metric.instrument = "window" ->
             [count |-> 0, sum |-> 0, latest |-> 0, next |-> 1,
              values |-> [i \in 1..metric.size |-> 0]]
      [] metric.instrument = "ema" -> [count |-> 0, latest |-> 0, mean |-> 0]
      [] OTHER -> [count |-> 0, sum |-> 0, buckets |-> [b \in 0..Len(metric.boundaries) |-> 0]]

(*-------------------------------------------------------------------------*)
(* Slots                                                                   *)

NoUser == "nobody"

Blank(metric) ==
    [state |-> Unobserved(metric), initialized |-> metric.instrument = "counter",
     epoch |-> 0, revision |-> 0, updates |-> 0,
     saturated |-> FALSE, wrapped |-> FALSE, degraded |-> FALSE,
     writers |-> 0, generation |-> 0,               \* of an atomic slot
     owner |-> NoUser, fallback |-> 0,              \* of a locked slot
     contention |-> 0]

Reading(slot) ==
    [state |-> slot.state, epoch |-> slot.epoch, revision |-> slot.revision,
     updates |-> slot.updates, initialized |-> slot.initialized,
     saturated |-> slot.saturated, wrapped |-> slot.wrapped, degraded |-> slot.degraded]

(* Only a locked counter is not degraded by an overflow                    *)
Flagged(metric, slot, done) ==
    [slot EXCEPT !.saturated = @ \/ done = "Saturated", !.wrapped = @ \/ done = "Wrapped",
                 !.degraded = \/ @
                              \/ /\ done \in {"Saturated", "Wrapped"}
                                 /\ metric.backend = "atomic" \/ metric.instrument # "counter"]

(* Bug: the epoch stays                                                    *)
RestartedInPlace(slot, metric) ==
    [slot EXCEPT !.state = Unobserved(metric), !.revision = 0, !.updates = 0,
                 !.saturated = FALSE, !.wrapped = FALSE, !.degraded = FALSE,
                 !.initialized = metric.instrument = "counter"]

Restarted(slot, metric) ==
    [slot EXCEPT !.state = Unobserved(metric), !.epoch = @ + 1, !.revision = 0, !.updates = 0,
                 !.saturated = FALSE, !.wrapped = FALSE, !.degraded = FALSE,
                 !.initialized = metric.instrument = "counter"]

(* What a locked slot becomes, and what came of it                         *)
Changed(slot, metric, state, done) ==
    [slot |-> Flagged(metric, [slot EXCEPT !.state = state, !.revision = @ + 1, !.updates = @ + 1,
                                           !.initialized = TRUE], done),
     done |-> done]
Left(slot, done) == [slot |-> slot, done |-> done]

AddCounter(slot, metric, amount) ==
    LET added == CheckedAdd(metric, slot.state.value, amount)
    IN CASE amount = 0 -> Left(slot, "Unchanged")
         [] amount # 0 /\ added.done = "Rejected" -> Left(slot, "Rejected")
         [] OTHER -> Changed(slot, metric, [value |-> added.value], added.done)

SetGauge(slot, metric, v) ==
    IF ValidNumeric(metric, v) THEN Changed(slot, metric, [value |-> v], "Updated")
    ELSE Left(slot, "Rejected")

ObserveDistribution(slot, metric, v) ==
    LET sum == SumAfter(metric, slot.state, v)
    IN IF ~ValidNumeric(metric, v) \/ sum.done = "Rejected" THEN Left(slot, "Rejected")
       ELSE Changed(slot, metric, Prepared(metric, slot.state, v, sum.value), sum.done)

Applied(slot, metric, op) ==
    CASE op.verb = "add" -> AddCounter(slot, metric, op.arg)
      [] op.verb = "set" -> SetGauge(slot, metric, op.arg)
      [] op.verb = "observe" -> ObserveDistribution(slot, metric, op.arg)
      [] op.verb = "reset" -> Left(Restarted(slot, metric), "Updated")
      [] op.verb = "reject" -> Left(slot, "Rejected")
      [] OTHER -> Left(slot, "Read")

MergeContention(slot) == [slot EXCEPT !.contention = @ + slot.fallback, !.fallback = 0]

(*-------------------------------------------------------------------------*)
(* A call                                                                  *)

NoOp == [verb |-> "get", m |-> 1, arg |-> 0, noWait |-> FALSE]
NoReading ==
    [state |-> [value |-> 0], epoch |-> 0, revision |-> 0, updates |-> 0, initialized |-> FALSE,
     saturated |-> FALSE, wrapped |-> FALSE, degraded |-> FALSE]
FromMetric(m) == [m |-> m, view |-> 0, epoch |-> 0, valid |-> FALSE]     \* Cursor
NoPage == [m |-> 0, available |-> 0, written |-> 0, next |-> FromMetric(1), got |-> {}]
Idle == [at |-> "idle", op |-> NoOp, current |-> 0, done |-> "no", generation |-> 0,
         reading |-> NoReading, page |-> NoPage]

Reads(op) == op.verb \in {"get", "export"}
Target(u) == IF user[u].op.verb = "export" THEN user[u].page.m ELSE user[u].op.m
Slot(u) == slots[Target(u)]
Backend(u) == Metric(Target(u)).backend

Step(u, from, to) == user[u].at = from /\ user' = [user EXCEPT ![u].at = to]
Outcome(u, done) == user' = [user EXCEPT ![u].at = "account", ![u].done = done]
SetSlot(u, slot) == slots' = [slots EXCEPT ![Target(u)] = slot]
Elsewhere == UNCHANGED <<mDesign, used>>

Call(u) ==
    /\ user[u].at = "idle"
    /\ \E op \in mDesign.ops[u] :
        /\ IF op.verb = "export" THEN export.cursor.m \in MetricIds
           ELSE used[u] < mDesign.calls[u]
        /\ used' = [used EXCEPT ![u] = IF op.verb = "export" THEN @ ELSE @ + 1]
        /\ user' = [user EXCEPT ![u] =
               [Idle EXCEPT !.at = "prepare", !.op = op,
                            !.page = IF op.verb # "export" THEN @
                                     ELSE [@ EXCEPT !.m = 1, !.next = export.cursor]]]
    /\ UNCHANGED <<mDesign, slots, facility, export, truth>>

AdmitsOp(op) == facility.ready /\ (Reads(op) \/ facility.accepting)

Prepare(u) ==
    /\ user[u].at = "prepare"
    /\ \/ AdmitsOp(user[u].op) /\ Step(u, "prepare", "enter")
       \/ ~AdmitsOp(user[u].op) /\ Outcome(u, "Refused")
    /\ Elsewhere /\ UNCHANGED <<slots, facility, export, truth>>

(* account_success, account_failure; a reading that succeeds counts nowhere *)
Account(u) ==
    /\ user[u].at = "account"
    /\ user' = [user EXCEPT ![u] = Idle]
    /\ facility' = [facility EXCEPT !.contention = IF user[u].done = "WouldBlock" THEN @ + 1 ELSE @,
                                    !.inside = @ \ {u}]
    /\ Elsewhere /\ UNCHANGED <<slots, export, truth>>

(*-------------------------------------------------------------------------*)
(* A locked slot: try or wait for the lock, then merge, apply and unlock   *)

Recorded(m, v) == [truth EXCEPT ![m].history = Append(@, v)]
Committed == {"Updated", "Saturated", "Wrapped"}

Lock(u) ==
    /\ Backend(u) = "locked"
    /\ \/ /\ Slot(u).owner = NoUser
          /\ Step(u, "enter", "inside")
          /\ SetSlot(u, [Slot(u) EXCEPT !.owner = u])
       \/ /\ Slot(u).owner # NoUser /\ user[u].op.noWait /\ user[u].at = "enter"
          /\ Outcome(u, "WouldBlock")
          /\ SetSlot(u, [Slot(u) EXCEPT !.fallback = @ + 1])
    /\ Elsewhere /\ UNCHANGED <<facility, export, truth>>

AfterApplied(u, result, history) ==
    [truth EXCEPT ![Target(u)] = [@ EXCEPT !.history = history, !.settled = Reading(result.slot)]]

Access(u) ==
    LET op == user[u].op
        m == Target(u)
        result == Applied(MergeContention(Slot(u)), Metric(m), op)
        history == CASE op.verb = "reset" -> <<>>
                     [] op.verb # "reset" /\ result.done \in Committed ->
                            Append(truth[m].history, op.arg)
                     [] OTHER -> truth[m].history
    IN /\ user[u].at = "inside"
       /\ SetSlot(u, [result.slot EXCEPT !.owner = NoUser])
       /\ truth' = AfterApplied(u, result, history)
       /\ IF Reads(op)
          THEN user' = [user EXCEPT ![u].at = "read", ![u].reading = Reading(result.slot)]
          ELSE Outcome(u, result.done)
       /\ Elsewhere /\ UNCHANGED <<facility, export>>

(*-------------------------------------------------------------------------*)
(* Writers of an atomic slot                                               *)

Writing == {"load", "cas", "store", "zero", "epoch", "restart", "revision", "rest", "clear", "end",
            "leave"}
WritersOf(m) == {u \in Users : user[u].at \in Writing /\ Target(u) = m}
Resetters(m) == {u \in WritersOf(m) : user[u].op.verb = "reset"}

First(op) == CASE op.verb = "add" -> "load" [] op.verb = "set" -> "store" [] OTHER -> "zero"

(* add of zero, a set of what is not finite, and reject() write no value   *)
WritesNothing(m, op) ==
    CASE op.verb = "add" /\ op.arg = 0 -> "Unchanged"
      [] op.verb = "set" /\ ~ValidNumeric(Metric(m), op.arg) -> "Rejected"
      [] op.verb \in {"reject", "observe"} -> "Rejected"
      [] OTHER -> "no"

BeginWrite(u) ==
    LET op == user[u].op
        m == Target(u)
    IN /\ user[u].at = "enter" /\ Backend(u) = "atomic" /\ ~Reads(op)
       /\ \/ /\ WritesNothing(m, op) # "no" /\ Outcome(u, WritesNothing(m, op))
             /\ UNCHANGED <<slots, truth>>
          \/ /\ WritesNothing(m, op) = "no" /\ Step(u, "enter", First(op))
             /\ SetSlot(u, [Slot(u) EXCEPT !.writers = @ + 1])
             /\ truth' = [truth EXCEPT ![m].raced =
                    \/ @
                    \/ Resetters(m) # {}
                    \/ op.verb = "reset" /\ WritersOf(m) # {}]
       /\ Elsewhere /\ UNCHANGED <<facility, export>>

Load(u) ==
    /\ user[u].at = "load"
    /\ user' = [user EXCEPT ![u].at = "cas", ![u].current = Slot(u).state.value]
    /\ Elsewhere /\ UNCHANGED <<slots, facility, export, truth>>

(* Bug: the failure leaves without end_write                               *)
AfterRejectLeaves == "account"

AfterReject == "end"

Unmoved(u) == Slot(u).state.value = user[u].current

(* compare_exchange loads the value anew when it fails                     *)
CompareExchange(u) ==
    LET added == CheckedAdd(Metric(Target(u)), user[u].current, user[u].op.arg)
    IN /\ user[u].at = "cas"
       /\ \/ /\ added.done = "Rejected"
             /\ user' = [user EXCEPT ![u].at = AfterReject, ![u].done = "Rejected"]
             /\ UNCHANGED <<slots, truth>>
          \/ /\ added.done # "Rejected" /\ Unmoved(u)
             /\ user' = [user EXCEPT ![u].at = "revision", ![u].done = added.done]
             /\ SetSlot(u, [Slot(u) EXCEPT !.state.value = added.value])
             /\ truth' = Recorded(Target(u), user[u].op.arg)
          \/ /\ added.done # "Rejected" /\ ~Unmoved(u)
             /\ user' = [user EXCEPT ![u].current = Slot(u).state.value]
             /\ UNCHANGED <<slots, truth>>
       /\ Elsewhere /\ UNCHANGED <<facility, export>>

Store(u) ==
    /\ user[u].at = "store"
    /\ user' = [user EXCEPT ![u].at = "revision", ![u].done = "Updated"]
    /\ SetSlot(u, [Slot(u) EXCEPT !.state.value = user[u].op.arg, !.initialized = TRUE])
    /\ truth' = Recorded(Target(u), user[u].op.arg)
    /\ Elsewhere /\ UNCHANGED <<facility, export>>

(* One field of the slot after the other                                   *)
Field(u, from, to, slot) ==
    /\ Step(u, from, to) /\ SetSlot(u, slot)
    /\ Elsewhere /\ UNCHANGED <<facility, export, truth>>

Finish(u) ==
    \/ Field(u, "revision", "rest", [Slot(u) EXCEPT !.revision = @ + 1])
    \/ Field(u, "rest", "end",
             Flagged(Metric(Target(u)), [Slot(u) EXCEPT !.updates = @ + 1], user[u].done))

Reset(u) ==
    \/ /\ Step(u, "zero", "epoch")
       /\ SetSlot(u, [Slot(u) EXCEPT !.state = Unobserved(Metric(Target(u))),
                                     !.initialized = Metric(Target(u)).instrument = "counter"])
       /\ truth' = [truth EXCEPT ![Target(u)].history = <<>>]
       /\ Elsewhere /\ UNCHANGED <<facility, export>>
    \/ Field(u, "epoch", "restart", [Slot(u) EXCEPT !.epoch = @ + 1])
    \/ Field(u, "restart", "clear", [Slot(u) EXCEPT !.revision = 0])
    \/ /\ user[u].at = "clear"
       /\ user' = [user EXCEPT ![u].at = "end", ![u].done = "Updated"]
       /\ SetSlot(u, [Slot(u) EXCEPT !.updates = 0, !.saturated = FALSE, !.wrapped = FALSE,
                                     !.degraded = FALSE])
       /\ Elsewhere /\ UNCHANGED <<facility, export, truth>>

(* Bug: the writer is gone before the generation tells of it               *)
EndOrderSwapped == [end |-> "writers", leave |-> "generation"]

EndOrder == [end |-> "generation", leave |-> "writers"]

EndWrite(u) ==
    LET at == user[u].at
        slot == IF EndOrder[at] = "generation" THEN [Slot(u) EXCEPT !.generation = @ + 1]
                ELSE [Slot(u) EXCEPT !.writers = @ - 1]
    IN /\ at \in {"end", "leave"}
       /\ Step(u, at, IF at = "end" THEN "leave" ELSE "account")
       /\ SetSlot(u, slot)
       /\ truth' = [truth EXCEPT ![Target(u)].settled =
                        IF slot.writers = 0 THEN Reading(slot) ELSE @]
       /\ Elsewhere /\ UNCHANGED <<facility, export>>

(*-------------------------------------------------------------------------*)
(* Readers of an atomic slot                                               *)

Local(u, next) ==
    /\ user' = [user EXCEPT ![u] = next]
    /\ Elsewhere /\ UNCHANGED <<slots, facility, export, truth>>

(* Someone writes: a try gives up, the others sleep a tick and start again *)
Disturbed(u) ==
    \/ /\ user[u].op.noWait /\ Outcome(u, "WouldBlock")
       /\ SetSlot(u, [Slot(u) EXCEPT !.contention = @ + 1])
       /\ Elsewhere /\ UNCHANGED <<facility, export, truth>>
    \/ /\ ~user[u].op.noWait
       /\ Local(u, [user[u] EXCEPT !.at = "enter", !.generation = 0, !.reading = NoReading])

Check(u) ==
    /\ user[u].at = "enter" /\ Backend(u) = "atomic" /\ Reads(user[u].op)
    /\ \/ Slot(u).writers = 0 /\ Local(u, [user[u] EXCEPT !.at = "generation"])
       \/ Slot(u).writers # 0 /\ Disturbed(u)

LoadFields(u) ==
    LET me == user[u]
        now == Reading(Slot(u))
    IN \/ /\ me.at = "generation"
          /\ Local(u, [me EXCEPT !.at = "value", !.generation = Slot(u).generation])
       \/ /\ me.at = "value"
          /\ Local(u, [me EXCEPT !.at = "epochs", !.reading.state = now.state])
       \/ /\ me.at = "epochs"
          /\ Local(u, [me EXCEPT !.at = "others", !.reading.epoch = now.epoch,
                                 !.reading.revision = now.revision])
       \/ /\ me.at = "others"
          /\ Local(u, [me EXCEPT !.at = "quiet",
                                 !.reading = [now EXCEPT !.state = me.reading.state,
                                                         !.epoch = me.reading.epoch,
                                                         !.revision = me.reading.revision]])

UnchangedSince(u) == Slot(u).generation = user[u].generation

Validate(u) ==
    \/ /\ user[u].at = "quiet"
       /\ \/ Slot(u).writers = 0 /\ Local(u, [user[u] EXCEPT !.at = "confirm"])
          \/ Slot(u).writers # 0 /\ Disturbed(u)
    \/ /\ user[u].at = "confirm"
       /\ \/ UnchangedSince(u) /\ Local(u, [user[u] EXCEPT !.at = "read"])
          \/ ~UnchangedSince(u) /\ Disturbed(u)

(*-------------------------------------------------------------------------*)
(* A reading is returned, or goes into a page                              *)

Returns(u) == user[u].at = "read" /\ user[u].op.verb = "get" /\ Local(u, Idle)

Views(metric) ==
    CASE metric.instrument \in Scalars -> 1
      [] metric.instrument \in {"last", "minimum", "maximum", "ema"} -> 2
      [] metric.instrument = "window" -> 3
      [] metric.instrument = "summary" -> 5
      [] OTHER -> Len(metric.boundaries) + 3

(* The cursor stopped inside of a metric that was reset since              *)
StaleMetric(m, cursor, reading) ==
    m = cursor.m /\ cursor.valid /\ reading.epoch # cursor.epoch

FirstView(m, cursor, reading) ==
    IF m = cursor.m /\ ~StaleMetric(m, cursor, reading) THEN cursor.view ELSE 0

NextCursor(m, last, reading) ==
    IF last + 1 = Views(Metric(m)) THEN FromMetric(m + 1)
    ELSE [m |-> m, view |-> last + 1, epoch |-> reading.epoch, valid |-> TRUE]

(* emit_metric_views into what is left of the page                         *)
Emitted(page, cursor, reading) ==
    LET m == page.m
        first == FirstView(m, cursor, reading)
        available == IF m < cursor.m THEN 0 ELSE Views(Metric(m)) - first
        written == Min({available, mDesign.page - page.written})
        last == first + written - 1
    IN [page EXCEPT
           !.available = @ + available, !.written = @ + written,
           !.next = IF written = 0 THEN @ ELSE NextCursor(m, last, reading),
           !.got = @ \cup {[m |-> m, view |-> v, epoch |-> reading.epoch] : v \in first..last}]

(* An exporter keeps the records of the latest epoch of each metric        *)
Kept(records) == {r \in records : \A s \in records : s.m = r.m => s.epoch <= r.epoch}

Emit(u) ==
    LET page == Emitted(user[u].page, export.cursor, user[u].reading)
    IN /\ user[u].at = "read" /\ user[u].op.verb = "export"
       /\ \/ /\ page.m < Len(mDesign.metrics)
             /\ Local(u, [Idle EXCEPT !.at = "prepare", !.op = user[u].op,
                                      !.page = [page EXCEPT !.m = @ + 1]])
          \/ /\ page.m = Len(mDesign.metrics)
             /\ user' = [user EXCEPT ![u] = Idle]
             /\ export' = [cursor |-> IF page.written = page.available THEN FromMetric(page.m + 1)
                                      ELSE page.next,
                           got |-> Kept(export.got \cup page.got)]
             /\ Elsewhere /\ UNCHANGED <<slots, facility, truth>>

(*-------------------------------------------------------------------------*)
(* The facility                                                            *)

(* initialize() of every slot                                              *)
NewSlots == [m \in MetricIds |-> Blank(Metric(m))]

InitFacility ==
    /\ facility.phase = "Down"
    /\ facility' = [phase |-> "Initialized", ready |-> TRUE, accepting |-> TRUE,
                    contention |-> 0, inside |-> {}]
    /\ slots' = NewSlots
    /\ UNCHANGED <<mDesign, user, used, export, truth>>

(* The calls that passed prepare(), and may still change a metric          *)
Mutating == {u \in Users : ~Reads(user[u].op) /\ user[u].at \in Writing \cup {"enter", "inside"}}

Facility(from, to, ready, accepting) ==
    /\ facility.phase = from
    /\ facility' = [facility EXCEPT !.phase = to, !.ready = ready, !.accepting = accepting,
                                    !.inside = IF to = "Stopped" THEN Mutating ELSE @]
    /\ UNCHANGED <<mDesign, slots, user, used, export, truth>>

StartFacility == Facility("Initialized", "Started", TRUE, TRUE)
StopFacility == mDesign.stops /\ Facility("Started", "Stopped", TRUE, FALSE)
DeinitFacility == Facility("Stopped", "Deinitialized", FALSE, FALSE)

(*-------------------------------------------------------------------------*)

MetricInit ==
    /\ mDesign \in MetricDesigns
    /\ slots = NewSlots
    /\ facility = [phase |-> IF mDesign.stops THEN "Down" ELSE "Started",
                   ready |-> ~mDesign.stops, accepting |-> ~mDesign.stops,
                   contention |-> 0, inside |-> {}]
    /\ user = [u \in Users |-> Idle]
    /\ used = [u \in Users |-> 0]
    /\ export = [cursor |-> FromMetric(1), got |-> {}]
    /\ truth = [m \in MetricIds |->
                   [history |-> <<>>, raced |-> FALSE, settled |-> Reading(Blank(Metric(m)))]]

Within(u) ==
    \/ Prepare(u) \/ Account(u)
    \/ Lock(u) \/ Access(u)
    \/ BeginWrite(u) \/ Load(u) \/ CompareExchange(u) \/ Store(u) \/ Finish(u) \/ Reset(u)
    \/ EndWrite(u)
    \/ Check(u) \/ LoadFields(u) \/ Validate(u)
    \/ Returns(u) \/ Emit(u)

FacilityStep == InitFacility \/ StartFacility \/ StopFacility \/ DeinitFacility

(* Everyone has made their calls                                           *)
Rest ==
    /\ \A u \in Users : user[u].at = "idle" /\ used[u] = mDesign.calls[u]
    /\ mDesign.stops => facility.phase = "Deinitialized"
    /\ UNCHANGED metricVars

MetricNext == FacilityStep \/ Rest \/ \E u \in Users : Call(u) \/ Within(u)

(* The threads of a system are scheduled; a reader that waits sleeps, so   *)
(* that a writer of a lower priority gets to the end.  An exporter asks    *)
(* for pages until it has them all.                                        *)
Exporters == {u \in Users : \E op \in mDesign.ops[u] : op.verb = "export"}
Exporting(u) == Call(u) /\ user'[u].op.verb = "export"
MetricFairness ==
    \A u \in Users : WF_metricVars(Within(u)) /\ WF_metricVars(Exporting(u))

MetricSpec == MetricInit /\ [][MetricNext]_metricVars /\ MetricFairness

(*-------------------------------------------------------------------------*)
(* Properties                                                              *)

Steps == {"idle", "prepare", "account", "enter", "inside", "read", "generation", "value", "epochs",
          "others", "quiet", "confirm"} \cup Writing
Outcomes == Committed \cup {"no", "Unchanged", "Rejected", "Refused", "WouldBlock", "Read"}

(* Every variable is in its type, a scalar in the range of its own.        *)
MetricTypeOK ==
    /\ \A m \in MetricIds :
        /\ slots[m].writers \in Nat /\ slots[m].generation \in Nat
        /\ slots[m].owner \in Users \cup {NoUser}
        /\ slots[m].epoch \in Nat /\ slots[m].revision \in Nat /\ slots[m].updates \in Nat
        /\ Metric(m).instrument \in Scalars =>
               slots[m].state.value \in Metric(m).lowest..Metric(m).highest
    /\ \A u \in Users : user[u].at \in Steps /\ user[u].done \in Outcomes /\ used[u] \in Nat
    /\ export.cursor.m \in 1..(Len(mDesign.metrics) + 1)
    /\ facility.accepting => facility.ready

Untouched(m) == \A u \in Users : Target(u) = m => user[u].at \notin Writing

(* A scalar that nobody is writing is what its accepted updates make it:   *)
(* no concurrent addition is lost, none counts twice, and an overflow      *)
(* leaves its mark.  A reset that overlaps another writer is excepted: the *)
(* two write the same fields one after the other (AtomicSlot::reset).      *)
UpdatesCounted ==
    \A m \in MetricIds :
        LET slot == slots[m]
            metric == Metric(m)
            history == truth[m].history
            sum == Total(history)
        IN metric.instrument \in Scalars /\ Untouched(m) /\ ~truth[m].raced =>
               /\ slot.updates = Len(history) /\ slot.revision = Len(history)
               /\ metric.instrument = "counter" =>
                      /\ slot.state.value = CASE metric.overflow = "wrap" -> Wrapped(metric, sum)
                                              [] OTHER -> Min({sum, metric.highest})
                      /\ slot.saturated = (metric.overflow = "saturate" /\ sum > metric.highest)
                      /\ slot.wrapped = (metric.overflow = "wrap" /\ sum > metric.highest)
               /\ metric.instrument = "gauge" /\ history # <<>> =>
                      slot.state.value = Last(history) /\ slot.initialized

Window(metric, history) ==
    SubSeq(history, Max({1, Len(history) - metric.size + 1}), Len(history))
InBucket(metric, b, v) ==
    /\ b > 0 => v > metric.boundaries[b]
    /\ b < Len(metric.boundaries) => v <= metric.boundaries[b + 1]

(* A reducer, updated value by value, holds what a reduction of all the    *)
(* accepted values would: extremes, sums, the window that is left, and     *)
(* buckets that every value is in once.  A sum that has overflowed is      *)
(* excepted, and marked as degraded.                                       *)
ReducersAgree ==
    \A m \in MetricIds :
        LET s == slots[m].state
            metric == Metric(m)
            history == truth[m].history
            values == ToSet(history)
            exact == ~slots[m].degraded
        IN metric.instrument \in Reducers /\ history # <<>> =>
               CASE metric.instrument = "last" -> s.value = Last(history) /\ s.count = Len(history)
                 [] metric.instrument = "minimum" -> s.value = Min(values)
                 [] metric.instrument = "maximum" -> s.value = Max(values)
                 [] metric.instrument = "summary" ->
                        /\ s.minimum = Min(values) /\ s.maximum = Max(values)
                        /\ s.count = Len(history) /\ (exact => s.sum = Total(history))
                 [] metric.instrument = "window" ->
                        LET window == Window(metric, history)
                        IN /\ s.count = Len(window) /\ s.latest = Last(history)
                           /\ exact => s.sum = Total(window)
                 [] metric.instrument = "ema" ->
                        LET scale == metric.ratio[2]^(s.count - 1)
                        IN s.mean \in (Min(values) * scale)..(Max(values) * scale)
                 [] OTHER ->
                        /\ exact => s.sum = Total(history)
                        /\ \A b \in DOMAIN s.buckets :
                               s.buckets[b] = Cardinality({i \in DOMAIN history :
                                                              InBucket(metric, b, history[i])})

(* The reading that get() is about to return is the state of the slot at a *)
(* moment when no write was under way: its value, epoch, revision and      *)
(* flags belong together, whatever ran between the loads.                  *)
ReadingCoherent ==
    \A u \in Users :
        user[u].at = "confirm" /\ UnchangedSince(u) =>
            user[u].reading = truth[Target(u)].settled

(* Within an epoch a counter does not go back, unless it says that it      *)
(* wrapped, and its revisions do not either.                               *)
MonotoneInEpoch ==
    [][\A m \in MetricIds :
           LET before == truth[m].settled
               after == truth'[m].settled
           IN after.epoch = before.epoch =>
                  /\ after.revision >= before.revision
                  /\ Metric(m).instrument = "counter" =>
                         after.state.value >= before.state.value \/ after.wrapped]_metricVars

(* With everyone back, the record of the facility and the slots agree on   *)
(* how often a try found a metric busy.                                    *)
Accounted ==
    (\A u \in Users : user[u].at = "idle") =>
        facility.contention =
            Total([m \in MetricIds |-> slots[m].contention + slots[m].fallback])

(* After stop() only the calls that had passed prepare() by then still     *)
(* change a metric: once they are back, the readings are final.            *)
ClosedIsFinal ==
    facility.phase \in {"Stopped", "Deinitialized"} => Mutating \subseteq facility.inside

(* Of a metric that the cursor has passed the exporter holds all views,    *)
(* and all of them from one epoch, also when a reset came between pages.   *)
ExportWhole ==
    \A m \in MetricIds :
        LET records == {r \in export.got : r.m = m}
        IN m < export.cursor.m =>
               /\ {r.view : r \in records} = 0..(Views(Metric(m)) - 1)
               /\ Cardinality({r.epoch : r \in records}) = 1

(* Every call comes to its end: a reader that waits for writers finds the  *)
(* slot quiet, because each of them reaches end_write, and a lock is free  *)
(* again.                                                                  *)
CallsReturn == []<>(\A u \in Users : user[u].at = "idle")

(* An exporter that goes on asking has everything in the end, even when    *)
(* resets send it back to the start of a metric.                           *)
ExportEnds == <>(Exporters # {} => export.cursor.m \notin MetricIds)

(* What a metric tells is true, together: its scalars are what the         *)
(* accepted updates make of them, its reducers what a reduction of all     *)
(* values would give, a reading is one state of its slot, contention is    *)
(* counted once, an export is whole and of one epoch per metric, and after *)
(* stop() readings are final.                                              *)
MetricsTrue ==
    /\ MetricTypeOK /\ UpdatesCounted /\ ReducersAgree /\ ReadingCoherent
    /\ Accounted /\ ExportWhole /\ ClosedIsFinal

(* Every call and every export comes to its end.                           *)
MetricsProgress == CallsReturn /\ ExportEnds

=============================================================================
