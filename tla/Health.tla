------------------------------- MODULE Health -------------------------------
(***************************************************************************)
(* The health facility: components report, advance their progress cells    *)
(* and are observed; refresh() pulls the evidence of the other sources and *)
(* of the monitors.  Every commit recomputes the record of its subject and *)
(* the record of the system under one mutex, and keeps the last condition  *)
(* changes in a ring.                                                      *)
(*                                                                         *)
(* A step is one critical section, one atomic or one hook.  An assessment  *)
(* keeps the five graded fields of the code as the numbers of their        *)
(* enumerators; evidence references, errors and counters are left out.     *)
(***************************************************************************)
EXTENDS Integers, Sequences, FiniteSets, SequencesExt, FiniteSetsExt, Functions

CONSTANTS
    Designs,    \* what may be declared, chosen at the start: see Design
    StaleTicks, \* CONFIG_SOLAR_HEALTH_DEFAULT_STALE_MS
    Grace,      \* CONFIG_SOLAR_HEALTH_PROGRESS_GRACE_MS
    Depth,      \* CONFIG_SOLAR_HEALTH_HISTORY_DEPTH
    Ingress     \* CONFIG_SOLAR_HEALTH_ISR_INGRESS_DEPTH

VARIABLES
    design,     \* the design
    clock,      \* kernel::now_ticks()
    broken,     \* subjects whose execution failed, as their records tell
    inner,      \* what the hooks of each subject find; Unknown when they fail
    sources,    \* the evidence of each subject, by source
    monitors,   \* the observation of each monitor
    cell,       \* the progress cell of each subject
    ingress,    \* reports from interrupts
    subjects,   \* the record of each subject
    system,     \* the record of the system
    history,    \* the ring of condition changes, and the next sequence number
    first,      \* first_refresh
    wake,       \* the supervisor's semaphore
    worker,     \* the thread of each subject
    isr,        \* the interrupt: "Idle" or about to wake the supervisor
    refresh,    \* the place of each refresher in refresh()
    changes     \* how many more reports, failures and findings there will be

evidence == <<sources, monitors, subjects, system, history>>
environment == <<broken, inner, changes>>
healthVars == <<design, clock, evidence, environment, cell, ingress, first, wake, worker, isr,
                refresh>>
-----------------------------------------------------------------------------
Unknown == 0
Nominal == 1
Degraded == 2
Faulted == 3
Conditions == Unknown..Faulted

Live == 1
Late == 2
Stalled == 3
Exited == 4
Ready == 1
NotReady == 2
Acceptable == 1
AtRisk == 2
Unsafe == 3
Current == 1
Stale == 2

Assessments == [condition : Conditions, liveness : 0..Exited, readiness : 0..NotReady,
                safety : 0..Unsafe, freshness : 0..Stale]

Assess(condition, liveness, readiness, safety, freshness) ==
    [condition |-> condition, liveness |-> liveness, readiness |-> readiness,
     safety |-> safety, freshness |-> freshness]

Nothing == Assess(Unknown, Unknown, Unknown, Unknown, Unknown)

(* nominal(), degraded() and faulted(): what components report             *)
Report(condition) ==
    CASE condition = Nominal -> Assess(Nominal, Unknown, Ready, Acceptable, Current)
      [] condition = Degraded -> Assess(Degraded, Unknown, Unknown, Unknown, Current)
      [] condition = Faulted -> Assess(Faulted, Unknown, NotReady, AtRisk, Current)

(* A design: how many subjects there are, which of them have assess(), the *)
(* monitors; and the bounds: what happens, how often, which conditions are *)
(* told, and how far the clock runs                                        *)
Subjects == 1..design.subjects
Assessing == design.assessing
Monitors == DOMAIN design.monitors
Monitor(m) == design.monitors[m]
SubjectOf(m) == Monitor(m).subject
Reportable == design.says
Happens(act) == act \in design.acts /\ changes > 0

(* The threads that call refresh()                                         *)
Self == "supervisor"
Application == "application"
Refreshers == {Self} \cup IF "Refresh" \in design.acts THEN {Application} ELSE {}

SourceKinds == {"reported", "assessment", "lifecycle", "execution", "adapter"}
-----------------------------------------------------------------------------
Evidence(a, available, required, observed, stale) ==
    [present |-> TRUE, a |-> a, available |-> available, required |-> required,
     observed |-> observed, stale |-> stale]

Absent(required) ==
    [present |-> FALSE, a |-> Nothing, available |-> FALSE, required |-> required,
     observed |-> 0, stale |-> 0]

Expired(now, observed, stale) == observed > 0 /\ stale > 0 /\ now - observed > stale

(* recompute_subject_locked, merge: the assessment one piece of evidence   *)
(* contributes, whether it is missing, and whether it counts               *)
Contribution(e, now) ==
    IF Expired(now, e.observed, e.stale)
    THEN [e.a EXCEPT !.freshness = Stale,
                     !.condition = IF e.required /\ @ # Faulted THEN Degraded ELSE @]
    ELSE e.a

Missing(e) == e.required /\ (~e.present \/ ~e.available)

Counts(e, now) ==
    /\ e.present /\ ~Missing(e)
    /\ e.required \/ Contribution(e, now).condition = Nominal

(* worse(): each field is the worst of what counts                         *)
Worst(E, now, field) == Max({Contribution(e, now)[field] : e \in {x \in E : Counts(x, now)}} \cup {0})

Concluded(E, condition) ==
    IF \/ ~\E e \in E : e.present
       \/ condition = Nominal /\ \E e \in E : Missing(e)
    THEN Unknown
    ELSE condition

Aggregate(E, now) ==
    [[field \in DOMAIN Nothing |-> Worst(E, now, field)]
        EXCEPT !.condition = Concluded(E, @)]

(* recompute_system_locked                                                 *)
Summary(S, records) ==
    LET Has(field, value) == \E s \in S : records[s][field] = value
        Pick(field, order, otherwise) ==
            IF \E i \in DOMAIN order : Has(field, order[i])
            THEN order[Min({i \in DOMAIN order : Has(field, order[i])})]
            ELSE otherwise
    IN [condition |-> Pick("condition", <<Faulted, Degraded, Unknown>>, Nominal),
        readiness |-> Pick("readiness", <<NotReady, Unknown>>, Ready),
        safety |-> Pick("safety", <<Unsafe, AtRisk>>, Acceptable),
        freshness |-> Pick("freshness", <<Stale, Unknown>>, Current)]

(* An entry one cell late                                                  *)
AppendedLate(h, s, previous, current) ==
    IF previous = current THEN h
    ELSE [next |-> h.next + 1,
          ring |-> [h.ring EXCEPT ![h.next % Depth] =
                        [sequence |-> h.next, subject |-> s, previous |-> previous,
                         current |-> current]]]

(* append_history                                                          *)
Appended(h, s, previous, current) ==
    IF previous = current THEN h
    ELSE [next |-> h.next + 1,
          ring |-> [h.ring EXCEPT ![(h.next - 1) % Depth] =
                        [sequence |-> h.next, subject |-> s, previous |-> previous,
                         current |-> current]]]

EvidenceOf(s, src, mon) ==
    Range(src[s]) \cup {mon[m] : m \in {x \in Monitors : SubjectOf(x) = s}}

(* recompute_subject_locked for each subject of a sequence, in its order,  *)
(* and recompute_system_locked                                             *)
Recompute(order, now) ==
    /\ subjects' = [s \in Subjects |->
                       IF s \in Range(order)
                       THEN Aggregate(EvidenceOf(s, sources', monitors'), now)
                       ELSE subjects[s]]
    /\ system' = Summary(Subjects, subjects')
    /\ history' = FoldLeft(
            LAMBDA h, s : Appended(h, s, subjects[s].condition, subjects'[s].condition),
            history, order)

(* The liveness of the last commit replaces the worst                      *)
OverwritesLiveness(s, source, a, available, now) ==
    /\ sources' = [sources EXCEPT ![s][source] = Evidence(a, available, TRUE, now, StaleTicks)]
    /\ UNCHANGED monitors
    /\ subjects' = [subjects EXCEPT ![s] = [Aggregate(EvidenceOf(s, sources', monitors), now)
                                               EXCEPT !.liveness = a.liveness]]
    /\ system' = Summary(Subjects, subjects')
    /\ history' = Appended(history, s, subjects[s].condition, subjects'[s].condition)

(* report() and commit_source() under the mutex                            *)
CommitSource(s, source, a, available, now) ==
    /\ sources' = [sources EXCEPT ![s][source] = Evidence(a, available, TRUE, now, StaleTicks)]
    /\ UNCHANGED monitors
    /\ Recompute(<<s>>, now)

(* commit_monitor() under the mutex                                        *)
CommitMonitor(m, a, available, now, stale) ==
    /\ monitors' = [monitors EXCEPT ![m] = Evidence(a, available, Monitor(m).required, now, stale)]
    /\ UNCHANGED sources
    /\ Recompute(<<SubjectOf(m)>>, now)
-----------------------------------------------------------------------------
HealthInit ==
    /\ design \in Designs
    /\ clock = 1
    /\ broken = {} /\ inner = [s \in Subjects |-> Nominal]
    /\ sources = [s \in Subjects |-> [k \in SourceKinds |-> Absent(FALSE)]]
    /\ monitors = [m \in Monitors |-> Absent(Monitor(m).required)]
    /\ cell = [s \in Subjects |-> [observed |-> 0, begun |-> FALSE]]
    /\ ingress = <<>>
    /\ subjects = [s \in Subjects |-> Nothing]
    /\ system = [condition |-> Unknown, readiness |-> Unknown, safety |-> Unknown,
                 freshness |-> Unknown]
    /\ history = [next |-> 1, ring |-> [i \in 0..(Depth - 1) |-> [sequence |-> 0]]]
    /\ first = 0
    /\ wake = 0
    /\ worker = [s \in Subjects |-> [pc |-> "Idle", now |-> 0, says |-> Unknown]]
    /\ isr = "Idle"
    /\ refresh = [t \in Refreshers |-> [pc |-> "Idle", now |-> 0, i |-> 0, got |-> Nothing]]
    /\ changes = design.changes

Tick ==
    /\ clock < design.clock
    /\ clock' = clock + 1
    /\ UNCHANGED <<design, evidence, environment, cell, ingress, first, wake, worker, isr, refresh>>

(* The semaphore is binary                                                 *)
Give == wake' = 1

(* A service leaves run() and its records say so                           *)
Break(s) ==
    /\ Happens("Break") /\ s \notin broken
    /\ broken' = broken \cup {s}
    /\ changes' = changes - 1
    /\ UNCHANGED <<design, clock, evidence, inner, cell, ingress, first, wake, worker, isr, refresh>>

(* The answer of assess() or check() becomes another one                   *)
Find(s, finding) ==
    /\ Happens("Find") /\ inner[s] # finding
    /\ s \in Assessing \/ \E m \in Monitors : SubjectOf(m) = s /\ Monitor(m).kind \in {"Check", "StackMargin"}
    /\ inner' = [inner EXCEPT ![s] = finding]
    /\ changes' = changes - 1
    /\ UNCHANGED <<design, clock, evidence, broken, cell, ingress, first, wake, worker, isr, refresh>>
-----------------------------------------------------------------------------
(* report() by the thread of a subject: the clock, the commit, the waker   *)
WorkerTo(s, pc) == worker' = [worker EXCEPT ![s].pc = pc]

WorkerReports(s, condition) ==
    /\ worker[s].pc = "Idle" /\ Happens("Report")
    /\ worker' = [worker EXCEPT ![s] = [pc |-> "Report", now |-> clock, says |-> condition]]
    /\ changes' = changes - 1
    /\ UNCHANGED <<design, clock, evidence, broken, inner, cell, ingress, first, wake, isr, refresh>>

WorkerCommits(s) ==
    /\ worker[s].pc = "Report"
    /\ CommitSource(s, "reported", Report(worker[s].says), TRUE, worker[s].now)
    /\ WorkerTo(s, "Wake")
    /\ UNCHANGED <<design, clock, environment, cell, ingress, first, wake, isr, refresh>>

WorkerWakes(s) ==
    /\ worker[s].pc = "Wake"
    /\ Give
    /\ worker' = [worker EXCEPT ![s] = [pc |-> "Idle", now |-> 0, says |-> Unknown]]
    /\ UNCHANGED <<design, clock, evidence, environment, cell, ingress, first, isr, refresh>>

(* progress(): the clock, the store of the time, the generation            *)
WorkerProgresses(s) ==
    /\ worker[s].pc = "Idle" /\ clock > cell[s].observed
    /\ \E m \in Monitors : SubjectOf(m) = s /\ Monitor(m).kind = "Progress"
    /\ worker' = [worker EXCEPT ![s] = [pc |-> "Observe", now |-> clock, says |-> Unknown]]
    /\ UNCHANGED <<design, clock, evidence, environment, cell, ingress, first, wake, isr, refresh>>

WorkerObserves(s) ==
    /\ worker[s].pc = "Observe"
    /\ cell' = [cell EXCEPT ![s].observed = worker[s].now]
    /\ WorkerTo(s, "Count")
    /\ UNCHANGED <<design, clock, evidence, environment, ingress, first, wake, isr, refresh>>

WorkerCounts(s) ==
    /\ worker[s].pc = "Count"
    /\ cell' = [cell EXCEPT ![s].begun = TRUE]
    /\ worker' = [worker EXCEPT ![s] = [pc |-> "Idle", now |-> 0, says |-> Unknown]]
    /\ UNCHANGED <<design, clock, evidence, environment, ingress, first, wake, isr, refresh>>

(* commit_adapter() and observe(): nobody is woken                         *)
Adapt(s, condition) ==
    /\ worker[s].pc = "Idle" /\ Happens("Adapt")
    /\ CommitSource(s, "adapter", Report(condition), TRUE, clock)
    /\ changes' = changes - 1
    /\ UNCHANGED <<design, clock, broken, inner, cell, ingress, first, wake, worker, isr, refresh>>

Observe(m, condition) ==
    /\ Monitor(m).kind = "Signal" /\ worker[SubjectOf(m)].pc = "Idle" /\ Happens("Observe")
    /\ CommitMonitor(m, Report(condition), TRUE, clock, StaleTicks)
    /\ changes' = changes - 1
    /\ UNCHANGED <<design, clock, broken, inner, cell, ingress, first, wake, worker, isr, refresh>>

(* report_isr(): a full ingress drops the report                           *)
ReportIsr(s, condition) ==
    /\ isr = "Idle" /\ Happens("Interrupt")
    /\ changes' = changes - 1
    /\ IF Len(ingress) < Ingress
       THEN /\ ingress' = Append(ingress, [subject |-> s, says |-> condition])
            /\ isr' = "Wake"
       ELSE UNCHANGED <<ingress, isr>>
    /\ UNCHANGED <<design, clock, evidence, broken, inner, cell, first, wake, worker, refresh>>

IsrWakes ==
    /\ isr = "Wake"
    /\ Give
    /\ isr' = "Idle"
    /\ UNCHANGED <<design, clock, evidence, environment, cell, ingress, first, worker, refresh>>
-----------------------------------------------------------------------------
(* refresh(): drain the ingress, read the clock, then the sources of every *)
(* subject and every monitor, and recompute                                *)
At(t, pc) == refresh[t].pc = pc
Now(t) == refresh[t].now
Index(t) == refresh[t].i
GoTo(t, pc, i) == refresh' = [refresh EXCEPT ![t].pc = pc, ![t].i = i]

RefreshCalled(t) == refresh' = [refresh EXCEPT ![t].pc = "Drain"]

(* drain_isr(): receive, then report() as a component would                *)
Receive(t) ==
    /\ At(t, "Drain") /\ ingress # <<>>
    /\ refresh' = [refresh EXCEPT ![t].pc = "Drained", ![t].now = clock, ![t].got = Head(ingress)]
    /\ ingress' = Tail(ingress)
    /\ UNCHANGED <<design, clock, evidence, environment, cell, first, wake, worker, isr>>

CommitDrained(t) ==
    /\ At(t, "Drained")
    /\ CommitSource(refresh[t].got.subject, "reported", Report(refresh[t].got.says), TRUE, Now(t))
    /\ GoTo(t, "DrainWake", 0)
    /\ UNCHANGED <<design, clock, environment, cell, ingress, first, wake, worker, isr>>

WakeDrained(t) ==
    /\ At(t, "DrainWake")
    /\ Give
    /\ refresh' = [refresh EXCEPT ![t].pc = "Drain", ![t].got = Nothing]
    /\ UNCHANGED <<design, clock, evidence, environment, cell, ingress, first, worker, isr>>

Drained(t) ==
    /\ At(t, "Drain") /\ ingress = <<>>
    /\ refresh' = [refresh EXCEPT ![t].pc = "Lifecycle", ![t].now = clock, ![t].i = 1]
    /\ first' = IF first = 0 THEN clock ELSE first
    /\ UNCHANGED <<design, clock, evidence, environment, cell, ingress, wake, worker, isr>>

(* refresh_lifecycle(): a component is Running or Failed                   *)
RefreshLifecycle(t) ==
    LET s == Index(t) IN
    /\ At(t, "Lifecycle")
    /\ CommitSource(s, "lifecycle",
                    IF s \in broken THEN Assess(Faulted, Unknown, NotReady, AtRisk, Current)
                    ELSE Assess(Nominal, Unknown, Ready, Unknown, Current), TRUE, clock)
    /\ GoTo(t, "Execution", s)
    /\ UNCHANGED <<design, clock, environment, cell, ingress, first, wake, worker, isr>>

(* refresh_execution() of a service: its thread runs or exited early       *)
ExecutionAssessment(s) ==
    IF s \in broken THEN Assess(Faulted, Exited, NotReady, Unknown, Current)
    ELSE Assess(Nominal, Live, Ready, Unknown, Current)

RefreshExecution(t) ==
    LET s == Index(t) IN
    /\ At(t, "Execution")
    /\ CommitSource(s, "execution", ExecutionAssessment(s), TRUE, clock)
    /\ GoTo(t, "Assess", s)
    /\ UNCHANGED <<design, clock, environment, cell, ingress, first, wake, worker, isr>>

AfterAssess(t) ==
    IF Index(t) < design.subjects THEN GoTo(t, "Lifecycle", Index(t) + 1) ELSE GoTo(t, "Monitor", 1)

(* refresh_assessment() and assess_component(); assess() may fail          *)
RefreshAssessment(t) ==
    LET s == Index(t) IN
    /\ At(t, "Assess")
    /\ IF s \in Assessing
       THEN IF inner[s] = Unknown THEN CommitSource(s, "assessment", Nothing, FALSE, clock)
            ELSE CommitSource(s, "assessment", Report(inner[s]), TRUE, clock)
       ELSE UNCHANGED evidence
    /\ AfterAssess(t)
    /\ UNCHANGED <<design, clock, environment, cell, ingress, first, wake, worker, isr>>

NextMonitor(t) == GoTo(t, "Monitor", Index(t) + 1)

(* refresh_monitor(): the check of the period, on a copy of the record     *)
Due(t, m) ==
    ~(monitors[m].present /\ Monitor(m).period > 0 /\ Now(t) - monitors[m].observed < Monitor(m).period)

SkipMonitor(t) ==
    /\ At(t, "Monitor") /\ Index(t) \in Monitors
    /\ ~Due(t, Index(t)) \/ Monitor(Index(t)).kind = "Signal"
    /\ NextMonitor(t)
    /\ UNCHANGED <<design, clock, evidence, environment, cell, ingress, first, wake, worker, isr>>

BeginMonitor(t) ==
    /\ At(t, "Monitor") /\ Index(t) \in Monitors
    /\ Due(t, Index(t)) /\ Monitor(Index(t)).kind # "Signal"
    /\ GoTo(t, Monitor(Index(t)).kind, Index(t))
    /\ UNCHANGED <<design, clock, evidence, environment, cell, ingress, first, wake, worker, isr>>

(* refresh_progress(): what the cell means.  The two loads are one step:   *)
(* the time is only used when a generation was seen, and generations stay  *)
ProgressAssessment(t, m) ==
    LET c == cell[SubjectOf(m)]
        age == Now(t) - c.observed
        p == Monitor(m).period
        Verdict(condition, liveness) == Assess(condition, liveness, Unknown, Unknown, Current)
    IN CASE ~c.begun /\ first > 0 /\ Now(t) - first > p + Grace -> Verdict(Faulted, Stalled)
         [] ~c.begun /\ ~(first > 0 /\ Now(t) - first > p + Grace) -> Verdict(Unknown, Unknown)
         [] c.begun /\ age > 2 * p -> Verdict(Faulted, Stalled)
         [] c.begun /\ age > p /\ age <= 2 * p -> Verdict(Degraded, Late)
         [] OTHER -> Verdict(Nominal, Live)

LoadProgress(t) ==
    /\ At(t, "Progress")
    /\ refresh' = [refresh EXCEPT ![t].pc = "CommitProgress",
                                  ![t].got = ProgressAssessment(t, Index(t))]
    /\ UNCHANGED <<design, clock, evidence, environment, cell, ingress, first, wake, worker, isr>>

CommitProgress(t) ==
    /\ At(t, "CommitProgress")
    /\ CommitMonitor(Index(t), refresh[t].got, TRUE, Now(t), 2 * Monitor(Index(t)).period)
    /\ refresh' = [refresh EXCEPT ![t].pc = "Monitor", ![t].i = @ + 1, ![t].got = Nothing]
    /\ UNCHANGED <<design, clock, environment, cell, ingress, first, wake, worker, isr>>

(* A monitor of the execution refreshes the execution source               *)
RefreshExecutionMonitor(t) ==
    /\ At(t, "ExecutionMonitor")
    /\ CommitSource(SubjectOf(Index(t)), "execution", ExecutionAssessment(SubjectOf(Index(t))),
                    TRUE, clock)
    /\ NextMonitor(t)
    /\ UNCHANGED <<design, clock, environment, cell, ingress, first, wake, worker, isr>>

(* run_check(); check() may fail                                           *)
RunCheck(t) ==
    LET m == Index(t)
        finding == inner[SubjectOf(m)]
    IN
    /\ At(t, "Check")
    /\ IF finding = Unknown THEN CommitMonitor(m, Nothing, FALSE, clock, StaleTicks)
       ELSE CommitMonitor(m, Report(finding), TRUE, clock, StaleTicks)
    /\ NextMonitor(t)
    /\ UNCHANGED <<design, clock, environment, cell, ingress, first, wake, worker, isr>>

(* refresh_stack(): stack_usage() may fail                                 *)
RefreshStack(t) ==
    LET m == Index(t)
        finding == inner[SubjectOf(m)]
        safety == IF finding = Nominal THEN Acceptable ELSE AtRisk
    IN
    /\ At(t, "StackMargin")
    /\ IF finding = Unknown THEN CommitMonitor(m, Nothing, FALSE, Now(t), StaleTicks)
       ELSE CommitMonitor(m, Assess(Min({finding, Degraded}), Unknown, Unknown, safety, Current),
                          TRUE, Now(t), StaleTicks)
    /\ NextMonitor(t)
    /\ UNCHANGED <<design, clock, environment, cell, ingress, first, wake, worker, isr>>

RecomputeAll(t) ==
    /\ At(t, "Monitor") /\ Index(t) \notin Monitors
    /\ UNCHANGED <<sources, monitors>>
    /\ Recompute([s \in Subjects |-> s], Now(t))
    /\ GoTo(t, "Done", 0)
    /\ UNCHANGED <<design, clock, environment, cell, ingress, first, wake, worker, isr>>

RefreshStep(t) ==
    \/ Receive(t) \/ CommitDrained(t) \/ WakeDrained(t) \/ Drained(t)
    \/ RefreshLifecycle(t) \/ RefreshExecution(t) \/ RefreshAssessment(t)
    \/ SkipMonitor(t) \/ BeginMonitor(t) \/ LoadProgress(t) \/ CommitProgress(t)
    \/ RefreshExecutionMonitor(t) \/ RunCheck(t) \/ RefreshStack(t) \/ RecomputeAll(t)

WorkerStep(s) ==
    WorkerCommits(s) \/ WorkerWakes(s) \/ WorkerObserves(s) \/ WorkerCounts(s)

HealthEnvironment ==
    \/ Tick \/ IsrWakes
    \/ \E s \in Subjects :
           \/ Break(s) \/ WorkerProgresses(s) \/ WorkerStep(s)
           \/ \E x \in Reportable \cup {Unknown} : Find(s, x)
           \/ \E x \in Reportable : WorkerReports(s, x) \/ Adapt(s, x) \/ ReportIsr(s, x)
    \/ \E m \in Monitors, x \in Reportable : Observe(m, x)
============================================================================
