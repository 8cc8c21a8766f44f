----------------------------- MODULE Supervisor -----------------------------
(***************************************************************************)
(* The supervisor: a service whose thread refreshes the health records,    *)
(* evaluates the declared rules and feeds the watchdog, once per cycle; it *)
(* waits between cycles for its period or for a report.  It is composed    *)
(* with the health facility (Health) and with the hooks the lifecycle      *)
(* engine calls on it.                                                     *)
(***************************************************************************)
EXTENDS Health

CONSTANTS
    Attempts,  \* CONFIG_SOLAR_SUPERVISOR_RECOVERY_ATTEMPTS
    Cooldown   \* CONFIG_SOLAR_SUPERVISOR_RECOVERY_COOLDOWN_MS

VARIABLES
    service,   \* the component: where the lifecycle engine has brought it
    token,     \* its stop token
    sup,       \* the place of its thread, and its locals
    rules,     \* the state of each rule
    watchdog,  \* WatchdogRecord: withheld and permitted
    requested, \* what was requested of the system
    log,       \* the responses of this cycle, as (rule, action)
    ill        \* subjects Faulted in every state since the cycle began

supVars == <<service, token, sup, rules, watchdog, requested, log, ill>>
vars == <<healthVars, supVars>>

(* Policy: the rules, and how many responses a cycle may execute           *)
Rules == DOMAIN design.rules
Rule(r) == design.rules[r]
Budget == design.budget

Retries(r) == "TryRecover" \in Range(Rule(r).actions)

(* cycle(): the rules in the order it evaluates them                       *)
DeclaredOrder == [r \in Rules |-> r]

EvaluationOrder ==
    LET Escalates(r) == Rule(r).trigger = "RecoveryFailure"
        Calm(r) == ~Escalates(r)
    IN SelectSeq([r \in Rules |-> r], Calm) \o SelectSeq([r \in Rules |-> r], Escalates)

(* triggered()                                                             *)
Triggered(r, failed) ==
    LET record == subjects[Rule(r).subject] IN
    CASE Rule(r).trigger = "Fault" -> record.condition = Faulted
      [] Rule(r).trigger = "Degraded" -> record.condition = Degraded
      [] Rule(r).trigger = "Stall" -> record.liveness = Stalled
      [] Rule(r).trigger = "RecoveryFailure" -> Rule(r).subject \in failed

Idle == [active |-> FALSE, attempts |-> 0, next |-> 0]
Locals == [pc |-> "Unborn", now |-> 0, seen |-> Nothing, spent |-> 0, failed |-> {}, k |-> 0, j |-> 0]

Init ==
    /\ HealthInit
    /\ service = "Registered" /\ token = FALSE
    /\ sup = Locals
    /\ rules = [r \in Rules |-> Idle]
    /\ watchdog = [withheld |-> FALSE, permitted |-> FALSE]
    /\ requested = {}
    /\ log = {}
    /\ ill = {}

AtSup(pc) == sup.pc = pc
SupTo(pc) == sup' = [sup EXCEPT !.pc = pc]
-----------------------------------------------------------------------------
(* The hooks of the component, as the lifecycle engine calls them          *)
InitHook ==
    /\ service = "Registered" /\ service' = "Initialized"
    /\ rules' = [r \in Rules |-> Idle]
    /\ watchdog' = [withheld |-> FALSE, permitted |-> FALSE]
    /\ requested' = {}
    /\ wake' = 0
    /\ UNCHANGED <<token, sup, log>>

(* start() starts the watchdog provider, which may fail                    *)
StartHook ==
    /\ service = "Initialized" /\ service' \in {"Started", "Failed"}
    /\ UNCHANGED <<token, sup, rules, watchdog, requested, log, wake>>

Activate ==
    /\ service = "Started" /\ service' = "Running"
    /\ SupTo("Check")
    /\ UNCHANGED <<token, rules, watchdog, requested, log, wake>>

(* request_service_stop: the token, then notify_stop                       *)
RequestStop ==
    /\ "Stop" \in design.acts
    /\ service = "Running" /\ service' = "StopRequested"
    /\ token' = TRUE
    /\ UNCHANGED <<sup, rules, watchdog, requested, log, wake>>

(* The thread is only woken when it waits                                  *)
NotifyIfWaiting ==
    /\ service = "StopRequested" /\ service' = "Stopping"
    /\ wake' = IF AtSup("Wait") THEN 1 ELSE wake
    /\ UNCHANGED <<token, sup, rules, watchdog, requested, log>>

NotifyStop ==
    /\ service = "StopRequested" /\ service' = "Stopping"
    /\ Give
    /\ UNCHANGED <<token, sup, rules, watchdog, requested, log>>

(* contain_service joins the thread; then stop() and deinit()              *)
StopHook ==
    /\ service = "Stopping" /\ AtSup("Exited") /\ service' = "Stopped"
    /\ watchdog' = [watchdog EXCEPT !.permitted = FALSE]
    /\ Give
    /\ UNCHANGED <<token, sup, rules, requested, log>>

LifecycleStep ==
    /\ InitHook \/ StartHook \/ Activate \/ RequestStop \/ NotifyStop \/ StopHook
    /\ UNCHANGED <<design, clock, evidence, environment, cell, ingress, first, worker, isr, refresh>>
-----------------------------------------------------------------------------
(* run(): the loop                                                         *)
CheckStop ==
    /\ AtSup("Check")
    /\ SupTo(IF token THEN "Exited" ELSE "Begin")
    /\ UNCHANGED <<service, token, rules, watchdog, requested, log, wake, refresh>>

Begin ==
    /\ AtSup("Begin")
    /\ sup' = [Locals EXCEPT !.pc = "Refresh", !.now = clock]
    /\ watchdog' = [withheld |-> FALSE, permitted |-> FALSE]
    /\ log' = {}
    /\ RefreshCalled(Self)
    /\ UNCHANGED <<service, token, rules, requested, wake>>

(* system_record()                                                         *)
Snapshot ==
    /\ AtSup("Refresh") /\ At(Self, "Done")
    /\ sup' = [sup EXCEPT !.pc = "Rule", !.seen = system, !.k = 1]
    /\ refresh' = [refresh EXCEPT ![Self] = [pc |-> "Idle", now |-> 0, i |-> 0, got |-> Nothing]]
    /\ UNCHANGED <<service, token, rules, watchdog, requested, log, wake>>

(* evaluate_rule                                                           *)
Holds(r) ==
    /\ rules[r].active
    /\ ~Retries(r) \/ rules[r].attempts >= Attempts \/ sup.now < rules[r].next

Evaluate ==
    /\ AtSup("Rule") /\ sup.k \in DOMAIN EvaluationOrder
    /\ LET r == EvaluationOrder[sup.k] IN
       CASE ~Triggered(r, sup.failed) ->
               /\ rules' = [rules EXCEPT ![r] = Idle]
               /\ sup' = [sup EXCEPT !.k = @ + 1]
         [] Triggered(r, sup.failed) /\ Holds(r) ->
               /\ sup' = [sup EXCEPT !.k = @ + 1]
               /\ UNCHANGED rules
         [] OTHER ->
               /\ rules' = [rules EXCEPT ![r] = [active |-> TRUE, attempts |-> @.attempts + 1,
                                                 next |-> sup.now + Cooldown]]
               /\ sup' = [sup EXCEPT !.pc = "Act", !.j = 1]
    /\ UNCHANGED <<service, token, watchdog, requested, log, wake, refresh>>

(* execute_action and append_response                                      *)
NextAction ==
    IF sup.j < Len(Rule(EvaluationOrder[sup.k]).actions)
    THEN [sup EXCEPT !.j = @ + 1]
    ELSE [sup EXCEPT !.pc = "Rule", !.k = @ + 1, !.j = 0]

Act ==
    /\ AtSup("Act")
    /\ LET r == EvaluationOrder[sup.k]
           action == Rule(r).actions[sup.j]
       IN IF sup.spent >= Budget
          THEN /\ sup' = NextAction
               /\ UNCHANGED <<watchdog, requested, log>>
          ELSE /\ log' = log \cup {<<r, action>>}
               /\ requested' = IF action \in {"RequestSystemStop", "RequestReboot", "Panic"}
                               THEN requested \cup {action} ELSE requested
               /\ watchdog' = IF action = "StopFeedingWatchdog"
                              THEN [withheld |-> TRUE, permitted |-> FALSE] ELSE watchdog
               /\ \E recovered \in BOOLEAN :
                     /\ action # "TryRecover" => recovered
                     /\ sup' = [NextAction EXCEPT
                                   !.spent = @ + 1,
                                   !.failed = IF recovered THEN @ ELSE @ \cup {Rule(r).subject},
                                   !.pc = IF action = "Panic" THEN "Panicked" ELSE @]
    /\ UNCHANGED <<service, token, rules, wake, refresh>>

(* The watchdog gate, and feed()                                           *)
Gate(seen, withheld) ==
    /\ ~withheld
    /\ seen.condition # Faulted /\ seen.safety # Unsafe /\ seen.freshness # Stale

Permit ==
    /\ AtSup("Rule") /\ sup.k \notin DOMAIN EvaluationOrder
    /\ watchdog' = [watchdog EXCEPT !.permitted = Gate(sup.seen, watchdog.withheld)]
    /\ SupTo("Feed")
    /\ UNCHANGED <<service, token, rules, requested, log, wake, refresh>>

(* The supervisor is not one of the subjects: its own progress() at the    *)
(* end of the cycle has no part here                                       *)
Feed ==
    /\ AtSup("Feed")
    /\ SupTo("Wait")
    /\ UNCHANGED <<service, token, rules, watchdog, requested, log, wake, refresh>>

(* wake.take(period)                                                       *)
Taken ==
    /\ AtSup("Wait") /\ wake = 1
    /\ wake' = 0
    /\ SupTo("Check")
    /\ UNCHANGED <<service, token, rules, watchdog, requested, log, refresh>>

TimedOut ==
    /\ AtSup("Wait") /\ wake = 0
    /\ SupTo("Check")
    /\ UNCHANGED <<service, token, rules, watchdog, requested, log, wake, refresh>>

(* The steps of the thread, and those of them that need no timeout         *)
Awake == CheckStop \/ Begin \/ Snapshot \/ Evaluate \/ Act \/ Permit \/ Feed \/ Taken

SupStep ==
    /\ Awake \/ TimedOut
    /\ UNCHANGED <<design, clock, evidence, environment, cell, ingress, first, worker, isr>>

Running == sup.pc # "Panicked"

(* An application thread calls refresh() as well                           *)
CallRefresh(t) ==
    /\ At(t, "Idle") /\ Happens("Refresh")
    /\ RefreshCalled(t)
    /\ changes' = changes - 1
    /\ UNCHANGED <<design, clock, evidence, broken, inner, cell, ingress, first, wake, worker, isr>>

Returned(t) ==
    /\ At(t, "Done")
    /\ refresh' = [refresh EXCEPT ![t] = [pc |-> "Idle", now |-> 0, i |-> 0, got |-> Nothing]]
    /\ UNCHANGED <<design, clock, evidence, environment, cell, ingress, first, wake, worker, isr>>

HealthStep ==
    /\ \/ HealthEnvironment
       \/ \E t \in Refreshers : RefreshStep(t)
       \/ \E t \in Refreshers \ {Self} : CallRefresh(t) \/ Returned(t)
    /\ UNCHANGED <<service, token, sup, rules, watchdog, requested, log>>

Watched ==
    ill' = IF AtSup("Begin") /\ sup'.pc = "Refresh"
           THEN {s \in Subjects : subjects[s].condition = Faulted}
           ELSE {s \in ill : subjects'[s].condition = Faulted}

Next == Running /\ (LifecycleStep \/ SupStep \/ HealthStep) /\ Watched

Spec == Init /\ [][Next]_vars

(* Threads run, timeouts need not come: the wait of the supervisor ends by *)
(* its semaphore or not at all                                             *)
FairSpec ==
    /\ Spec
    /\ WF_vars(Running /\ Awake /\ UNCHANGED <<design, clock, evidence, environment, cell, ingress,
                                               first, worker, isr>> /\ Watched)
    /\ WF_vars(Running /\ RefreshStep(Self)
                /\ UNCHANGED <<service, token, sup, rules, watchdog, requested, log>> /\ Watched)
    /\ WF_vars(Running /\ NotifyStop
                /\ UNCHANGED <<design, clock, evidence, environment, cell, ingress, first, worker,
                               isr, refresh>> /\ Watched)
-----------------------------------------------------------------------------
(* Types                                                                   *)
TypeOK ==
    /\ clock \in 1..design.clock /\ wake \in 0..1 /\ token \in BOOLEAN
    /\ \A s \in Subjects :
          /\ subjects[s] \in Assessments
          /\ inner[s] \in Conditions /\ cell[s].observed \in 0..clock
    /\ Len(ingress) <= Ingress
    /\ \A r \in Rules : rules[r].attempts \in 0..Attempts
    /\ sup.spent \in 0..Budget
    /\ broken \subseteq Subjects /\ ill \subseteq Subjects

(* A subject is Nominal only when every required monitor of it was         *)
(* observed and was available, and no required evidence is worse: a        *)
(* component cannot report over its monitors, and what is missing does not *)
(* count as good (recompute_subject_locked).                               *)
NeverNominalByOmission ==
    \A s \in Subjects : subjects[s].condition = Nominal =>
        \A e \in EvidenceOf(s, sources, monitors) :
            e.required => e.present /\ e.available /\ e.a.condition \in {Unknown, Nominal}

(* The retained history is what read_history looks for, and tells each     *)
(* subject's conditions without a gap, up to the current one               *)
(* (append_history).                                                       *)
HistoryTells ==
    LET oldest == IF history.next > Depth THEN history.next - Depth ELSE 1
        Entry(q) == history.ring[(q - 1) % Depth]
        About(s) == {q \in oldest..(history.next - 1) : Entry(q).subject = s}
    IN /\ \A q \in oldest..(history.next - 1) : Entry(q).sequence = q
       /\ \A s \in Subjects :
             /\ \A q \in About(s) : \A p \in About(s) :
                   p < q /\ (\A x \in About(s) : x <= p \/ x >= q)
                       => Entry(p).current = Entry(q).previous
             /\ About(s) # {} => Entry(Max(About(s))).current = subjects[s].condition

(* When the supervisor sleeps and nobody is about to wake it, it has seen  *)
(* everything that was reported: the ingress is empty and every rule on a  *)
(* reported fault is active (report, report_isr, wake_supervisor, run).    *)
SleepsOnlyWhenDone ==
    /\ AtSup("Wait") /\ wake = 0 /\ isr = "Idle"
    /\ \A s \in Subjects : worker[s].pc # "Wake"
    /\ \A t \in Refreshers : At(t, "Idle")
    => /\ ingress = <<>>
       /\ \A r \in Rules :
             Rule(r).trigger = "Fault" /\ sources[Rule(r).subject]["reported"].a.condition = Faulted
                 => rules[r].active

(* Once progress has been seen, a refresh that ends three periods or more  *)
(* after the last of it finds the subject Stalled, although it looks at    *)
(* the monitor only once a period                                          *)
(* (refresh_monitor, refresh_progress).                                    *)
StallDetected ==
    \A t \in Refreshers, m \in Monitors :
        LET c == cell[SubjectOf(m)] IN
        /\ At(t, "Done") /\ Monitor(m).kind = "Progress"
        /\ monitors[m].a.liveness # Unknown
        /\ Now(t) - c.observed >= 3 * Monitor(m).period
        => subjects[SubjectOf(m)].liveness >= Stalled

(* A stalled subject is taken for live again only after it has made        *)
(* progress that is newer than the stall (refresh_progress).               *)
StallNeedsProgress ==
    [][\A m \in Monitors :
         LET s == SubjectOf(m) IN
         /\ Monitor(m).kind = "Progress" /\ monitors[m].a.liveness = Stalled
         /\ subjects[s].liveness = Stalled /\ subjects'[s].liveness < Stalled
         => cell[s].begun /\ cell[s].observed >= monitors[m].observed - 2 * Monitor(m).period]_vars

(* A recovery that failed is escalated in the same cycle, before the       *)
(* watchdog is considered (cycle).                                         *)
EscalationFollows ==
    AtSup("Feed") =>
        \A r \in Rules : Rule(r).trigger = "RecoveryFailure" /\ Rule(r).subject \in sup.failed
                           => rules[r].active

(* The watchdog is not fed in a cycle throughout which a subject was       *)
(* Faulted, nor in one that withheld the feed (cycle).                     *)
FedOnlyHealthy ==
    AtSup("Feed") /\ watchdog.permitted =>
        ill = {} /\ ~\E r \in Rules : <<r, "StopFeedingWatchdog">> \in log

(* A requested stop ends the thread, without the help of a timeout         *)
(* (request_service_stop, notify_stop, run).                               *)
StopEnds == token ~> sup.pc \in {"Exited", "Panicked"}

(* The feed is withheld as long as a rule that demands it is active        *)
(* (cycle); it does not hold: a rule responds once.                        *)
WithheldWhileActive ==
    AtSup("Feed") /\ watchdog.permitted =>
        \A r \in Rules : rules[r].active => "StopFeedingWatchdog" \notin Range(Rule(r).actions)

(* After a refresh that found everything well, no subject is Unknown       *)
(* (refresh); it does not hold with a declared Execution monitor.          *)
KnownAfterRefresh ==
    AtSup("Refresh") /\ At(Self, "Done") /\ broken = {} =>
        \A s \in Subjects : subjects[s].condition # Unknown

(* What Health tells is true, however reports, refreshes and cycles        *)
(* interleave: no subject is Nominal by omission, and the retained history *)
(* leads to the current conditions without a gap; a stall is found.        *)
HealthTrue == TypeOK /\ NeverNominalByOmission /\ HistoryTells /\ StallDetected

(* What a cycle of the supervisor promises, together: it sleeps only when  *)
(* everything reported was seen, a failed recovery is escalated before the *)
(* feed, and the watchdog is fed only when it may be.                      *)
CycleSound == SleepsOnlyWhenDone /\ EscalationFollows /\ FedOnlyHealthy

============================================================================
