----------------------------- MODULE Parameters -----------------------------
(***************************************************************************)
(* The Parameters facility (parameters/runtime.hpp, parameters/facility.hpp*)
(* and parameters/policy.hpp): values in memory, written by callers under  *)
(* the write gate; a record per parameter that says what has to be saved;  *)
(* a store that outlives a power failure, written under the persistence    *)
(* gate by callers and by the deferred worker; change hooks, held back     *)
(* until the system runs.                                                  *)
(*                                                                         *)
(* A step is what happens between two points where another thread can be   *)
(* seen.  Time is counted down: a deadline is the ticks that remain.       *)
(***************************************************************************)
EXTENDS Integers, Sequences, FiniteSets, SequencesExt, FiniteSetsExt, TLC

CONSTANTS
    Designs,        \* the systems to consider
    Params,         \* the catalog of parameters
    Order,          \* the same, in catalog order
    Clients,        \* threads that call the facility
    Worker,         \* the thread that runs the deferred registration
    Main,           \* the thread of the lifecycle engine
    Group,          \* the persistence group
    MaxWrites,      \* bound on the writes of a parameter
    MaxBoots        \* bound on the boots

Default == 0
Maximum == 1                    \* the upper bound of a Range policy
Candidates == 0..(Maximum + 1)  \* what a caller may ask for
Values == 0..(Maximum + 1)
None == 99                      \* an empty std::optional
MaxDelay == 2                   \* the longest quiet period, in ticks
Threads == Clients \cup {Worker, Main}

Kinds == {"Volatile", "Immediate", "Deferred", "Manual", "Transactional"}

DesignType ==
    [kind : [Params -> Kinds], delay : [Params -> 1..MaxDelay],
     commit : Kinds, groupDelay : 1..MaxDelay,
     validation : {"AcceptAny", "Reject", "Clamp"}, hooked : SUBSET Params,
     readonly : SUBSET Params,
     stop : {"FlushDeferred", "CancelPending"}, load : {"UseDefault", "FailBoot"},
     calls : [Clients -> SUBSET {"set", "try_set", "reset", "set_all", "save", "try_save",
                                 "flush", "try_flush"}],
     found : {"none", "ok", "old", "bad"}, faults : BOOLEAN, boots : 1..MaxBoots,
     writes : 1..MaxWrites]

(* normalize: the value a candidate becomes, or None if it is refused      *)
NormalizeBy(validation, c) ==
    CASE validation = "AcceptAny" -> c
      [] validation = "Clamp" -> Min({c, Maximum})
      [] validation = "Reject" -> IF c > Maximum THEN None ELSE c

(* What the static assertions require of a design.  The default is         *)
(* accepted as it is; a group is saved at once, late or by hand; hooks are *)
(* for parameters of the catalog; and a transaction writes nothing that is *)
(* read-only, nor several parameters of which one has a record of its own  *)
(* to be written at once.                                                  *)
ValidateParameter(d) == NormalizeBy(d.validation, Default) = Default
ValidateGroup(d) == d.commit \in {"Immediate", "Deferred", "Manual"}
ValidateChange(d) == d.hooked \subseteq Params
ValidateTransaction(d) ==
    \A c \in Clients : "set_all" \in d.calls[c] =>
        \A p \in Params : d.kind[p] # "Immediate" /\ p \notin d.readonly

WellFormed(d) ==
    /\ d \in DesignType
    /\ ValidateParameter(d) /\ ValidateGroup(d) /\ ValidateChange(d) /\ ValidateTransaction(d)

ASSUME ParametersAssumption ==
    /\ \A d \in Designs : WellFormed(d)
    /\ Order \in Seq(Params) /\ ToSet(Order) = Params /\ Len(Order) = Cardinality(Params)
    /\ Worker \notin Clients /\ Main \notin Clients /\ Worker # Main /\ Group \notin Params
    /\ MaxWrites \in Nat /\ MaxBoots \in Nat

VARIABLES
    design,         \* the policies of this system
    value,          \* ParameterSlot::value_
    rec,            \* ParameterSlot::record_, due_ and erase_pending_
    group,          \* GroupState
    store,          \* the stored records; those of the group are one image
    writeGate, persistGate,
    sys,            \* Engine::state()
    flags,          \* the facility's atomics, of those {"ready", "mutation_open",
                    \* "activating_changes", "persistence_active"} that are set,
                    \* and "accepting" of the deferred registration
    timer,          \* the delay of the deferred registration, or None
    pending,        \* ChangeState::pending_
    known,          \* the value each hook was last called with, or loaded
    th,             \* where each thread is, and its locals
    base,           \* the writes a parameter had seen when it was loaded
    late,           \* parameters written after the facility had closed to writes
    crossed,        \* parameters with a write told across the activation of the hooks
    boots           \* boots so far

vars == <<design, value, rec, group, store, writeGate, persistGate, sys, flags, timer, pending,
          known, th, base, late, crossed, boots>>
----------------------------------------------------------------------------
(***************************************************************************)
(* Policies.                                                               *)
(***************************************************************************)
Kind(p) == design.kind[p]
Members == {p \in Params : Kind(p) = "Transactional"}
Writable == Params \ design.readonly
Persistent(p) == Kind(p) # "Volatile"

(* The policy that decides when a parameter is written: its own, or that   *)
(* of its group                                                            *)
Commit(p) == IF Kind(p) = "Transactional" THEN design.commit ELSE Kind(p)

EffectiveDeferred(p) == Commit(p) = "Deferred"
Delay(p) == IF Kind(p) = "Transactional" THEN design.groupDelay ELSE design.delay[p]
HasDeferred == \E p \in Params : EffectiveDeferred(p)

Normalize(c) == NormalizeBy(design.validation, c)

(* The deferred items, in catalog order: parameters, then the group        *)
GroupItem(kinds) == IF Members # {} /\ design.commit \in kinds THEN <<Group>> ELSE <<>>
Items(kinds) == SelectSeq(Order, LAMBDA p : Kind(p) \in kinds) \o GroupItem(kinds)

Of(item) == IF item = Group THEN Members ELSE {item}
----------------------------------------------------------------------------
(***************************************************************************)
(* The records.                                                            *)
(***************************************************************************)
Fresh == [revision |-> 0, wanted |-> 0, saved |-> 0, dirty |-> FALSE, due |-> None,
          erase |-> FALSE, state |-> "Clean"]

MarkDirty(r, revision, reset, due) ==
    [r EXCEPT !.dirty = TRUE, !.wanted = revision, !.due = due, !.erase = reset,
              !.state = CASE reset -> "ResetPending" [] due # None -> "Scheduled"
                          [] OTHER -> "Dirty"]

(* The save ignores the revision it was for.                               *)
FinishAnyRevision(r, revision, ok) ==
    IF ok THEN [r EXCEPT !.saved = revision, !.dirty = FALSE, !.due = None, !.erase = FALSE,
                         !.state = "Clean"]
    ELSE [r EXCEPT !.state = "Failed", !.due = None]

FinishPersistence(r, revision, ok) ==
    CASE ok /\ r.wanted = revision ->
            [r EXCEPT !.saved = revision, !.dirty = FALSE, !.due = None, !.erase = FALSE,
                      !.state = "Clean"]
      [] ok /\ r.wanted # revision -> [r EXCEPT !.saved = revision]
      [] ~ok -> [r EXCEPT !.state = "Failed", !.due = None]

MarkPersisted(r, revision) ==
    [r EXCEPT !.saved = revision, !.wanted = revision, !.dirty = FALSE, !.due = None,
              !.erase = FALSE, !.state = "Clean"]

MarkScheduleFailure(r) == [r EXCEPT !.state = "Failed", !.due = None]

(* mark_committed_persistence for a parameter that now has `revision'      *)
MarkCommitted(p, r, revision, reset) ==
    CASE Commit(p) = "Volatile" -> [r EXCEPT !.revision = revision]
      [] Commit(p) = "Immediate" -> MarkPersisted([r EXCEPT !.revision = revision], revision)
      [] Commit(p) = "Deferred" ->
            MarkDirty([r EXCEPT !.revision = revision], revision, reset, Delay(p))
      [] Commit(p) = "Manual" ->
            MarkDirty([r EXCEPT !.revision = revision], revision, reset, None)

(* GroupState::mark_dirty, once for each member written                    *)
GroupMarked(written) ==
    IF written \cap Members = {} \/ design.commit = "Immediate" THEN group
    ELSE [revision |-> group.revision + Cardinality(written \cap Members), dirty |-> TRUE,
          due |-> IF design.commit = "Deferred" THEN design.groupDelay ELSE None]

(* A stored record, with the number of the write it holds                  *)
Stored(v, n) == [st |-> "ok", val |-> v, num |-> n]
Erased(n) == [st |-> "none", val |-> Default, num |-> n]
Number(p) == base[p] + rec[p].revision
----------------------------------------------------------------------------
Free(t) == [pc |-> "idle", op |-> "none", asg |-> <<>>, reset |-> FALSE, at |-> "Off",
            todo |-> <<>>, force |-> FALSE, wait |-> FALSE, work |-> <<>>, revision |-> 0,
            delay |-> None, failed |-> FALSE]

Locals(t, changes) == th' = [th EXCEPT ![t] = changes @@ @]
Goto(t, pc) == Locals(t, [pc |-> pc])
Return(t) == th' = [th EXCEPT ![t] = Free(t)]

memory == <<value, rec, group>>
gates == <<writeGate, persistGate>>
lifecycle == <<design, sys, flags, base, boots>>
hooks == <<pending, known, crossed>>

(* A record that is found, decoded or migrated, and accepted; that of a    *)
(* group for all members                                                   *)
Loaded(p) ==
    \A q \in IF p \in Members THEN Members ELSE {p} :
        store[q].st \in {"ok", "old"} /\ Normalize(store[q].val) # None

(* A migrated record is noted, and its value forgotten.                    *)
LoadForgetsMigrated ==
    /\ value' = [p \in Params |-> IF Persistent(p) /\ store[p].st = "ok" /\ Loaded(p)
                                  THEN Normalize(store[p].val) ELSE Default]
    /\ rec' = [p \in Params |->
                  IF Persistent(p) /\ Loaded(p) /\ store[p].st = "old" /\ p \notin Members
                  THEN MarkDirty(Fresh, 0, FALSE, None) ELSE Fresh]
    /\ group' = IF \E p \in Members : Loaded(p) /\ store[p].st = "old"
                THEN [revision |-> 1, dirty |-> TRUE, due |-> None]
                ELSE [revision |-> 0, dirty |-> FALSE, due |-> None]
    /\ known' = value'
    /\ base' = [p \in Params |-> store[p].num]

(* load_persistent_parameter and load_persistent_group, for all: a record  *)
(* that is missing, damaged or refused leaves the default; an older one is *)
(* migrated and has to be written again.                                   *)
LoadAll ==
    /\ value' = [p \in Params |-> IF Persistent(p) /\ Loaded(p) THEN Normalize(store[p].val)
                                  ELSE Default]
    /\ rec' = [p \in Params |->
                  IF Persistent(p) /\ Loaded(p) /\ store[p].st = "old" /\ p \notin Members
                  THEN MarkDirty(Fresh, 0, FALSE, None) ELSE Fresh]
    /\ group' = IF \E p \in Members : Loaded(p) /\ store[p].st = "old"
                THEN [revision |-> 1, dirty |-> TRUE, due |-> None]
                ELSE [revision |-> 0, dirty |-> FALSE, due |-> None]
    /\ known' = value'
    /\ base' = [p \in Params |-> store[p].num]

LoadFails ==
    design.load = "FailBoot" /\ \E p \in Params : Persistent(p) /\ store[p].st # "none" /\ ~Loaded(p)

Init ==
    /\ design \in Designs
    /\ store = [p \in Params |-> [st |-> IF Persistent(p) THEN design.found ELSE "none",
                                   val |-> IF design.found \in {"ok", "old"} THEN Maximum ELSE Default,
                                   num |-> 0]]
    /\ value = [p \in Params |-> Default] /\ rec = [p \in Params |-> Fresh]
    /\ group = [revision |-> 0, dirty |-> FALSE, due |-> None]
    /\ writeGate = None /\ persistGate = None
    /\ sys = "Off" /\ flags = {} /\ timer = None
    /\ pending = [p \in Params |-> <<>>] /\ known = [p \in Params |-> Default]
    /\ th = [t \in Threads |-> Free(t)]
    /\ base = [p \in Params |-> 0] /\ late = {} /\ crossed = {} /\ boots = 0
----------------------------------------------------------------------------
(***************************************************************************)
(* set_parameter and set_all_parameters.                                   *)
(***************************************************************************)
Open == {"ready", "mutation_open"} \subseteq flags /\ sys \notin {"Stopping", "Stopped", "Failed"}

SetBegin(t, op, asg, reset) ==
    /\ th[t].pc = "idle" /\ op \in design.calls[t] /\ Open
    /\ \A p \in DOMAIN asg : asg[p] # None /\ Number(p) < design.writes
    /\ Locals(t, [pc |-> "gate", op |-> op, asg |-> asg, reset |-> reset, at |-> sys])
    /\ UNCHANGED <<memory, store, gates, lifecycle, timer, hooks, late>>

Changed(t) == {p \in DOMAIN th[t].asg : value[p] # th[t].asg[p]}
Touches(t, kinds) == \E p \in DOMAIN th[t].asg : Commit(p) \in kinds

(* write_transaction_values: only what changed is written                  *)
ValuesAfter(t) == [p \in Changed(t) |-> th[t].asg[p]] @@ value

(* update_transaction_records                                              *)
Revision(t, p) == rec[p].revision + (IF p \in Changed(t) THEN 1 ELSE 0)

(* A reset writes a parameter that is at its default too.                  *)
Recorded(t) == IF th[t].reset THEN DOMAIN th[t].asg ELSE Changed(t)

(* mark_transaction_persistence                                            *)
Marked(t) == [p \in Recorded(t) |-> MarkCommitted(p, rec[p], Revision(t, p), th[t].reset)] @@ rec

(* What the hooks are told of                                              *)
Changes(t) == [p \in Changed(t) \cap design.hooked |-> [old |-> value[p], new |-> th[t].asg[p]]]

(* The values and the records, after which the write gate is released      *)
Committed(t) ==
    /\ value' = ValuesAfter(t)
    /\ rec' = Marked(t)
    /\ group' = GroupMarked(Recorded(t))
    /\ late' = IF "mutation_open" \in flags THEN late ELSE late \cup Changed(t)
    /\ writeGate' = None
    /\ Locals(t, [pc |-> IF Touches(t, {"Deferred"}) THEN "sched" ELSE "notify",
                  asg |-> [p \in DOMAIN th[t].asg |-> Default], work |-> Changes(t)])

(* try_set does not wait.                                                  *)
SetRefused(t) ==
    /\ th[t].pc = "gate" /\ th[t].op = "try_set" /\ writeGate # None
    /\ Return(t)
    /\ UNCHANGED <<memory, store, gates, lifecycle, timer, hooks, late>>

SetLock(t) ==
    /\ th[t].pc = "gate" /\ writeGate = None
    /\ \/ /\ Changed(t) = {} /\ ~th[t].reset /\ th[t].op # "set_all"
          /\ Return(t)
          /\ UNCHANGED <<memory, writeGate, late>>
       \/ /\ Changed(t) # {} \/ th[t].reset \/ th[t].op = "set_all"
          /\ IF Touches(t, {"Immediate"})
             THEN writeGate' = t /\ Goto(t, "store") /\ UNCHANGED <<memory, late>>
             ELSE Committed(t)
    /\ UNCHANGED <<store, persistGate, lifecycle, timer, hooks>>

(* prepare_transaction_persistence: whose records are written at once; a   *)
(* group is written with all its members                                   *)
Prepared(t) ==
    LET own == {p \in DOMAIN th[t].asg : Commit(p) = "Immediate"}
    IN own \cup (IF own \cap Members # {} THEN Members ELSE {})

(* What storage has to hold once the write of `t' is made                  *)
Image(t) ==
    LET num(p) == base[p] + Revision(t, p)
    IN [p \in Prepared(t) |->
           IF th[t].reset /\ p \notin Members THEN Erased(num(p))
           ELSE Stored(IF p \in DOMAIN th[t].asg THEN th[t].asg[p] ELSE value[p], num(p))]

(* prepare_immediate_persistence: storage before memory                    *)
SetStore(t) ==
    /\ th[t].pc = "store" /\ persistGate = None
    /\ \/ /\ store' = Image(t) @@ store
          /\ Goto(t, "commit")
          /\ UNCHANGED <<rec, writeGate>>
       \/ /\ design.faults
          /\ rec' = IF th[t].op = "set_all" THEN rec
                    ELSE [p \in DOMAIN th[t].asg |-> [rec[p] EXCEPT !.state = "Failed"]] @@ rec
          /\ writeGate' = None
          /\ Return(t)
          /\ UNCHANGED store
    /\ UNCHANGED <<value, group, persistGate, lifecycle, timer, hooks, late>>

SetCommit(t) ==
    /\ th[t].pc = "commit"
    /\ Committed(t)
    /\ UNCHANGED <<store, persistGate, lifecycle, timer, hooks>>

(* dispatch_change: the system state is the one read before the gate.      *)
HoldsBack(t) == th[t].at # "Running" /\ "activating_changes" \notin flags

(* ChangeState::defer: the first old value, the last new one               *)
Coalesce(held, change) == IF held = <<>> THEN <<change>> ELSE <<[held[1] EXCEPT !.new = change.new]>>

BeforeActivation == sys = "Starting" /\ th[Main].pc = "idle"

Notify(t) ==
    LET told == DOMAIN th[t].work IN
    /\ th[t].pc = "notify"
    /\ IF HoldsBack(t)
       THEN /\ pending' = [p \in told |-> Coalesce(pending[p], th[t].work[p])] @@ pending
            /\ UNCHANGED known
       ELSE /\ known' = [p \in told |-> th[t].work[p].new] @@ known
            /\ UNCHANGED pending
    /\ crossed' = IF th[t].at = "Running" \/ BeforeActivation THEN crossed ELSE crossed \cup told
    /\ Return(t)
    /\ UNCHANGED <<memory, store, gates, lifecycle, timer, late>>
----------------------------------------------------------------------------
(***************************************************************************)
(* schedule_deferred_persistence and schedule_next_deferred.               *)
(***************************************************************************)
Dues ==
    {rec[p].due : p \in {q \in Params : EffectiveDeferred(q) /\ rec[q].dirty}}
    \cup (IF Members # {} /\ design.commit = "Deferred" /\ group.dirty THEN {group.due} ELSE {})

AfterSchedule(t) == IF t \in Clients THEN Goto(t, "notify") ELSE Return(t)

Schedule(t) ==
    /\ th[t].pc = "sched"
    /\ IF "persistence_active" \in flags /\ Dues \ {None} # {}
       THEN Locals(t, [pc |-> "arm", delay |-> Min(Dues \ {None})])
       ELSE AfterSchedule(t)
    /\ UNCHANGED <<memory, store, gates, lifecycle, timer, hooks, late>>

(* schedule_registration; a caller notes that it was refused.              *)
Arm(t) ==
    /\ th[t].pc = "arm"
    /\ IF "accepting" \in flags
       THEN timer' = th[t].delay /\ UNCHANGED rec
       ELSE /\ rec' = [p \in {q \in DOMAIN th[t].asg : EffectiveDeferred(q)} |->
                          MarkScheduleFailure(rec[p])] @@ rec
            /\ UNCHANGED timer
    /\ AfterSchedule(t)
    /\ UNCHANGED <<value, group, store, gates, lifecycle, hooks, late>>
----------------------------------------------------------------------------
(***************************************************************************)
(* persist_parameter_slot and persist_group_slot.                          *)
(***************************************************************************)
Persist(t, op, items, force, wait) ==
    Locals(t, [pc |-> "visit", op |-> op, todo |-> items, force |-> force, wait |-> wait,
               failed |-> FALSE])

NextItem(t, failed) ==
    Locals(t, [pc |-> "visit", todo |-> Tail(th[t].todo), failed |-> th[t].failed \/ failed,
               work |-> <<>>, revision |-> 0])

(* A deadline that is now counts as still to come.                         *)
DueAfterDeadline(t, dirty, due) == dirty /\ (th[t].force \/ due = None)

Due(t, dirty, due) == dirty /\ (th[t].force \/ due \in {None, 0})
Snapshot(p) == [val |-> value[p], num |-> Number(p), erase |-> rec[p].erase /\ p \notin Members]

(* A no-wait call that finds the gate taken                                *)
Refused(t, gate) == gate # None /\ ~th[t].wait /\ NextItem(t, TRUE)

(* The value and what is to be done with it, under the write gate          *)
VisitParameter(t) ==
    LET p == Head(th[t].todo) IN
    /\ p # Group
    /\ \/ Refused(t, writeGate)
       \/ /\ writeGate = None
          /\ IF Due(t, rec[p].dirty, rec[p].due)
             THEN Locals(t, [pc |-> "write", revision |-> rec[p].wanted,
                             work |-> (p :> Snapshot(p))])
             ELSE NextItem(t, FALSE)

(* The group's revision, before the gate                                   *)
VisitGroup(t) ==
    /\ Head(th[t].todo) = Group
    /\ IF Due(t, group.dirty, group.due)
       THEN Locals(t, [pc |-> "encode", revision |-> group.revision])
       ELSE NextItem(t, FALSE)

Visit(t) ==
    /\ th[t].pc = "visit" /\ th[t].todo # <<>>
    /\ VisitParameter(t) \/ VisitGroup(t)
    /\ UNCHANGED <<memory, store, gates, lifecycle, timer, hooks, late>>

Encode(t) ==
    /\ th[t].pc = "encode"
    /\ \/ Refused(t, writeGate)
       \/ /\ writeGate = None
          /\ Locals(t, [pc |-> "write", work |-> [p \in Members |-> Snapshot(p)]])
    /\ UNCHANGED <<memory, store, gates, lifecycle, timer, hooks, late>>

(* persist_value, or the group's image                                     *)
Write(t) ==
    /\ th[t].pc = "write"
    /\ \/ Refused(t, persistGate) /\ UNCHANGED <<store, persistGate>>
       \/ /\ persistGate = None /\ persistGate' = t
          /\ \/ /\ store' = [p \in DOMAIN th[t].work |->
                                LET w == th[t].work[p] IN
                                IF w.erase THEN Erased(w.num) ELSE Stored(w.val, w.num)] @@ store
                /\ Goto(t, "saved")
             \/ design.faults /\ Goto(t, "unsaved") /\ UNCHANGED store
    /\ UNCHANGED <<memory, writeGate, lifecycle, timer, hooks, late>>

FinishParameter(t, ok) ==
    LET p == Head(th[t].todo) IN
    /\ p # Group
    /\ rec' = [rec EXCEPT ![p] = FinishPersistence(@, th[t].revision, ok)]
    /\ persistGate' = None
    /\ NextItem(t, ~ok)
    /\ UNCHANGED group

(* GroupState::finish; the members follow if the group is clean or the     *)
(* save failed.                                                            *)
FinishGroup(t, ok) ==
    /\ Head(th[t].todo) = Group
    /\ group' = CASE ok /\ group.revision = th[t].revision ->
                        [group EXCEPT !.dirty = FALSE, !.due = None]
                  [] ok /\ group.revision # th[t].revision -> group
                  [] ~ok -> [group EXCEPT !.due = None]
    /\ IF ok /\ group.revision # th[t].revision
       THEN persistGate' = None /\ NextItem(t, FALSE)
       ELSE /\ Goto(t, IF ok THEN "savedMembers" ELSE "unsavedMembers")
            /\ UNCHANGED persistGate
    /\ UNCHANGED rec

Finish(t) ==
    /\ th[t].pc \in {"saved", "unsaved"}
    /\ FinishParameter(t, th[t].pc = "saved") \/ FinishGroup(t, th[t].pc = "saved")
    /\ UNCHANGED <<value, store, writeGate, lifecycle, timer, hooks, late>>

(* Each member is finished with the revision it has by now.                *)
FinishMembers(t) ==
    LET ok == th[t].pc = "savedMembers" IN
    /\ th[t].pc \in {"savedMembers", "unsavedMembers"}
    /\ rec' = [p \in Members |-> FinishPersistence(rec[p], rec[p].wanted, ok)] @@ rec
    /\ persistGate' = None
    /\ NextItem(t, ~ok)
    /\ UNCHANGED <<value, group, store, writeGate, lifecycle, timer, hooks, late>>
----------------------------------------------------------------------------
(***************************************************************************)
(* The deferred worker, save, save_all and flush.                          *)
(***************************************************************************)
RunDeferred ==
    /\ th[Worker].pc = "idle" /\ timer = 0
    /\ timer' = None
    /\ Persist(Worker, "deferred", Items({"Deferred"}), FALSE, TRUE)
    /\ UNCHANGED <<memory, store, gates, lifecycle, hooks, late>>

(* run_deferred schedules the next deadline only if nothing failed.        *)
DeferredDone ==
    /\ th[Worker].pc = "visit" /\ th[Worker].todo = <<>>
    /\ IF th[Worker].failed THEN Return(Worker) ELSE Goto(Worker, "sched")
    /\ UNCHANGED <<memory, store, gates, lifecycle, timer, hooks, late>>

SavedItems(p) == {IF Kind(p) = "Transactional" THEN <<Group>> ELSE <<p>>,
                  Items({"Immediate", "Deferred", "Manual"})}

Save(t) ==
    /\ th[t].pc = "idle" /\ "ready" \in flags
    /\ \E op \in {"save", "try_save"} \cap design.calls[t], p \in {q \in Params : Persistent(q)} :
           \E items \in SavedItems(p) : Persist(t, op, items, TRUE, op = "save")
    /\ UNCHANGED <<memory, store, gates, lifecycle, timer, hooks, late>>

(* flush_parameters cancels the registration and waits for its quiescence. *)
Flush(t) ==
    /\ th[t].pc = "idle" /\ HasDeferred /\ "ready" \in flags
    /\ \E op \in {"flush", "try_flush"} \cap design.calls[t] :
           Locals(t, [pc |-> "quiesce", op |-> op, wait |-> op = "flush"])
    /\ timer' = None
    /\ UNCHANGED <<memory, store, gates, lifecycle, hooks, late>>

Quiescent == timer = None /\ th[Worker].pc = "idle"

FlushQuiescent(t) ==
    /\ th[t].pc = "quiesce"
    /\ IF Quiescent
       THEN Persist(t, th[t].op, Items({"Deferred"}), TRUE, th[t].wait)
       ELSE Return(t)       \* WouldBlock, or the wait has timed out
    /\ UNCHANGED <<memory, store, gates, lifecycle, timer, hooks, late>>

CallDone(t) ==
    /\ th[t].pc = "visit" /\ th[t].todo = <<>>
    /\ Return(t)
    /\ UNCHANGED <<memory, store, gates, lifecycle, timer, hooks, late>>
----------------------------------------------------------------------------
(***************************************************************************)
(* The lifecycle: boot, activation, stop, and the loss of power.           *)
(***************************************************************************)
Boot ==
    /\ sys = "Off" /\ boots < design.boots /\ boots' = boots + 1
    /\ IF LoadFails
       THEN sys' = "Failed" /\ UNCHANGED <<memory, known, base, flags>>
       ELSE LoadAll /\ sys' = "Starting" /\ flags' = {"ready", "mutation_open"}
    /\ UNCHANGED <<design, store, gates, timer, pending, th, late, crossed>>

(* activate_changes: the pending changes are taken and told.               *)
ActivateChanges ==
    /\ sys = "Starting" /\ th[Main].pc = "idle"
    /\ flags' = flags \cup {"activating_changes"}
    /\ Locals(Main, [pc |-> "activate", todo |-> SelectSeq(Order, LAMBDA p : p \in design.hooked)])
    /\ UNCHANGED <<memory, store, gates, design, sys, base, boots, timer, hooks, late>>

ActivateHook ==
    LET p == Head(th[Main].todo) IN
    /\ th[Main].pc = "activate" /\ th[Main].todo # <<>>
    /\ pending' = [pending EXCEPT ![p] = <<>>]
    /\ known' = IF pending[p] # <<>> /\ pending[p][1].old # pending[p][1].new
                THEN [known EXCEPT ![p] = pending[p][1].new] ELSE known
    /\ UNCHANGED crossed
    /\ Locals(Main, [todo |-> Tail(th[Main].todo)])
    /\ UNCHANGED <<memory, store, gates, lifecycle, timer, late>>

Activated ==
    /\ th[Main].pc = "activate" /\ th[Main].todo = <<>>
    /\ flags' = flags \ {"activating_changes"}
    /\ Goto(Main, "run")
    /\ UNCHANGED <<memory, store, gates, design, sys, base, boots, timer, hooks, late>>

EnterRunning ==
    /\ th[Main].pc = "run"
    /\ sys' = "Running"
    /\ Goto(Main, "runtime")
    /\ UNCHANGED <<memory, store, gates, design, flags, base, boots, timer, hooks, late>>

ActivateRuntime ==
    /\ th[Main].pc = "runtime"
    /\ IF HasDeferred
       THEN flags' = flags \cup {"accepting", "persistence_active"} /\ Goto(Main, "sched")
       ELSE flags' = flags /\ Return(Main)
    /\ UNCHANGED <<memory, store, gates, design, sys, base, boots, timer, hooks, late>>

(* Engine::stop: the registration is closed and cancelled, ...             *)
StopRequest ==
    /\ sys = "Running" /\ th[Main].pc = "idle"
    /\ sys' = "Stopping"
    /\ flags' = flags \ {"accepting"}
    /\ timer' = None
    /\ Goto(Main, "contain")
    /\ UNCHANGED <<memory, store, gates, design, base, boots, hooks, late>>

(* ... contained, and then the facility's stop hook runs.                  *)
FacilityStop ==
    /\ th[Main].pc = "contain" /\ Quiescent
    /\ flags' = flags \ {"mutation_open", "persistence_active"}
    /\ IF HasDeferred /\ design.stop = "FlushDeferred"
       THEN Persist(Main, "stop", Items({"Deferred"}), TRUE, TRUE)
       ELSE Locals(Main, [pc |-> "visit", todo |-> <<>>])
    /\ UNCHANGED <<memory, store, gates, design, sys, base, boots, timer, hooks, late>>

Deinit ==
    /\ th[Main].pc = "visit" /\ th[Main].todo = <<>>
    /\ flags' = {}
    /\ sys' = "Stopped"
    /\ Return(Main)
    /\ UNCHANGED <<memory, store, gates, design, base, boots, timer, hooks, late>>

(* Everything but the store is gone.                                       *)
PowerLoss ==
    /\ sys # "Off" /\ boots < design.boots
    /\ value' = [p \in Params |-> Default] /\ rec' = [p \in Params |-> Fresh]
    /\ group' = [revision |-> 0, dirty |-> FALSE, due |-> None]
    /\ writeGate' = None /\ persistGate' = None /\ sys' = "Off" /\ flags' = {} /\ timer' = None
    /\ pending' = [p \in Params |-> <<>>] /\ known' = [p \in Params |-> Default]
    /\ th' = [t \in Threads |-> Free(t)]
    /\ base' = [p \in Params |-> store[p].num] /\ late' = {} /\ crossed' = {}
    /\ UNCHANGED <<design, store, boots>>

Less(due) == IF due \in {None, 0} THEN due ELSE due - 1
Running == timer \notin {None, 0} \/ \E d \in Dues : d \notin {None, 0}

Tick ==
    /\ Running
    /\ timer' = Less(timer)
    /\ rec' = [p \in Params |-> [rec[p] EXCEPT !.due = Less(@)]]
    /\ group' = [group EXCEPT !.due = Less(@)]
    /\ UNCHANGED <<value, store, gates, lifecycle, hooks, th, late>>
----------------------------------------------------------------------------
SetCall(t) ==
    \/ \E op \in {"set", "try_set"}, p \in Writable, c \in Candidates :
           SetBegin(t, op, p :> Normalize(c), FALSE)
    \/ \E p \in Writable : SetBegin(t, "reset", p :> Default, TRUE)
    \/ \E c \in Candidates : SetBegin(t, "set_all", [p \in Params |-> Normalize(c)], FALSE)

PersistStep(t) == Visit(t) \/ Encode(t) \/ Write(t) \/ Finish(t) \/ FinishMembers(t)

(* What a thread does once it is in a call                                 *)
Step(t) ==
    \/ SetRefused(t) \/ SetLock(t) \/ SetStore(t) \/ SetCommit(t) \/ Notify(t) \/ Schedule(t) \/ Arm(t)
    \/ PersistStep(t)

ClientStep(c) == Step(c) \/ FlushQuiescent(c) \/ CallDone(c)
WorkerStep == Step(Worker) \/ DeferredDone
MainStep == Step(Main) \/ ActivateHook \/ Activated \/ EnterRunning \/ ActivateRuntime
            \/ FacilityStop \/ Deinit

Next ==
    \/ \E c \in Clients : SetCall(c) \/ Save(c) \/ Flush(c) \/ ClientStep(c)
    \/ WorkerStep \/ RunDeferred \/ MainStep
    \/ Boot \/ ActivateChanges \/ StopRequest \/ PowerLoss \/ Tick

(* The kernel runs every thread that can run, time passes, and a timer     *)
(* that expires runs its work.                                             *)
Fairness ==
    /\ \A c \in Clients : WF_vars(ClientStep(c))
    /\ WF_vars(WorkerStep) /\ WF_vars(RunDeferred) /\ WF_vars(MainStep) /\ WF_vars(Tick)

Spec == Init /\ [][Next]_vars
FairSpec == Spec /\ Fairness
----------------------------------------------------------------------------
(***************************************************************************)
(* Properties.                                                             *)
(***************************************************************************)
Pcs == {"idle", "gate", "store", "commit", "sched", "arm", "notify", "visit", "encode", "write",
        "saved", "unsaved", "savedMembers", "unsavedMembers", "quiesce", "activate", "run",
        "runtime", "contain"}
Dueness == 0..MaxDelay \cup {None}
Revisions == 0..(MaxWrites + Cardinality(Clients))

(* Every slot, record, gate and deadline has the type the facility gives   *)
(* it, and a gate is held only by a thread that is inside its section.     *)
TypeOK ==
    /\ design \in Designs
    /\ value \in [Params -> Values]
    /\ rec \in [Params -> [revision : Revisions, wanted : Revisions, saved : Revisions,
                           dirty : BOOLEAN, due : Dueness, erase : BOOLEAN,
                           state : {"Clean", "Dirty", "Scheduled", "ResetPending", "Failed"}]]
    /\ group.dirty \in BOOLEAN /\ group.due \in Dueness /\ group.revision \in Nat
    /\ \A p \in Params : store[p].st \in {"none", "ok", "old", "bad"} /\ store[p].val \in Values
    /\ \A t \in Threads : th[t].pc \in Pcs
    /\ \A t \in Threads : th[t].pc \in {"store", "commit"} <=> writeGate = t
    /\ \A t \in Threads :
           th[t].pc \in {"saved", "unsaved", "savedMembers", "unsavedMembers"} <=> persistGate = t
    /\ timer \in Dueness /\ boots \in 0..MaxBoots

(* Nobody but the deferred worker saves what somebody else may be writing: *)
(* a client that saves is the only client, saves nothing deferred, and     *)
(* does not meet the flush of the stop hook.                               *)
Saver(c) == design.calls[c] \cap {"save", "try_save", "flush", "try_flush"} # {}
Alone ==
    \A c \in Clients : Saver(c) =>
        /\ \A d \in Clients \ {c} : design.calls[d] = {}
        /\ {"save", "try_save"} \cap design.calls[c] # {} => ~HasDeferred
        /\ HasDeferred => design.stop = "CancelPending"

Up == sys \notin {"Off", "Failed"}
Holds(p) == value[p] = IF store[p].st = "none" THEN Default ELSE store[p].val
Readable(p) == store[p].st = "none" \/ Loaded(p)

(* finish_persistence and GroupState::finish clear a dirty mark only for   *)
(* the revision that was written: whatever writes and saves overlap, a     *)
(* parameter that claims to be clean is what storage holds, and so is a    *)
(* group, as long as there is one saver.                                   *)
CleanMeansStored ==
    Alone /\ Up /\ writeGate = None =>
        \A p \in Params : Persistent(p) /\ Readable(p) =>
            \/ IF p \in Members THEN group.dirty ELSE rec[p].dirty
            \/ Holds(p)

(* The same of the members of a group, as the design document has it:      *)
(* "Successful later save clears dirty state only for the value revision   *)
(* actually written."                                                      *)
MembersCleanWhenWritten ==
    Up /\ writeGate = None => \A p \in Members : Readable(p) => rec[p].dirty \/ Holds(p)

(* encode_group_payload reads the members under the write gate, and        *)
(* set_all writes them under it: where only whole transactions write, the  *)
(* stored image is never half of one.                                      *)
GroupImageWhole ==
    (\A c \in Clients : design.calls[c] \subseteq {"set_all", "save", "try_save", "flush"}) =>
        \A p, q \in Members : store[p].val = store[q].val

(* Facility::stop saves what is deferred: after an orderly stop without    *)
(* storage errors, what was written before the facility closed is stored.  *)
StopSaves ==
    (sys = "Stopped" /\ design.stop = "FlushDeferred" /\ ~design.faults) =>
        \A p \in Params \ late : EffectiveDeferred(p) /\ Readable(p) => Holds(p)

(* A hook learns of every change: what it was last told is the value, or   *)
(* the change to that value is held back, or its writer is about to tell.  *)
(* (One writer, none of whose writes crossed the activation of the hooks:  *)
(* otherwise the changes may be told in another order.)                    *)
ChangeAccounted ==
    Cardinality({c \in Clients : design.calls[c] # {}}) = 1 /\ Up =>
        \A p \in design.hooked \ crossed :
            \/ known[p] = value[p]
            \/ pending[p] # <<>> /\ pending[p][1].new = value[p]
            \/ \E c \in Clients : th[c].pc \in {"sched", "arm", "notify"} /\ p \in DOMAIN th[c].work

(* A deferred write does not depend on another call: without storage       *)
(* errors, a dirty value with a deadline is saved while the system runs.   *)
(* (A reset of a value that is the default already restarts the quiet      *)
(* period for ever; try_flush gives up with the timer cancelled.)          *)
Waiting(p) ==
    /\ EffectiveDeferred(p) /\ ~design.faults /\ sys = "Running" /\ "persistence_active" \in flags
    /\ \A c \in Clients : design.calls[c] \cap {"try_flush", "reset"} = {}
    /\ IF p \in Members THEN group.dirty /\ group.due # None ELSE rec[p].dirty /\ rec[p].due # None
Written(p) == (IF p \in Members THEN ~group.dirty ELSE ~rec[p].dirty) \/ sys # "Running"

DeferredWritten == \A p \in Params : Waiting(p) ~> Written(p)

(* What memory and storage hold, as the numbered values of DurableValue:   *)
(* a system that is off, or failed to boot, holds what it would load.      *)
KeptValue(p) == [num |-> store[p].num,
                 val |-> IF Loaded(p) THEN Normalize(store[p].val) ELSE Default]
NowValue(p) == IF Up THEN [num |-> Number(p), val |-> value[p]] ELSE KeptValue(p)

Unused == [num |-> 0, val |-> Default]

(* With one saver, the facility implements the durable value: storage      *)
(* follows the history of the writes, never goes back along it, also       *)
(* across a loss of power, and a boot resumes from it.                     *)
Durable == INSTANCE DurableValue WITH
               Names <- Params, Vals <- Values,
               now <- [p \in Params |-> IF Alone THEN NowValue(p) ELSE Unused],
               kept <- [p \in Params |-> IF Alone THEN KeptValue(p) ELSE Unused]
DurableHistory == Durable!Spec

(* What the records of the parameters say is true, together: clean means   *)
(* stored, a stored group image is one transaction, an orderly stop leaves *)
(* nothing deferred behind, and no change is kept from a hook.             *)
RecordsTrue == TypeOK /\ CleanMeansStored /\ GroupImageWhole /\ StopSaves /\ ChangeAccounted

=============================================================================
