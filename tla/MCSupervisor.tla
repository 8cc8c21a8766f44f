---------------------------- MODULE MCSupervisor ----------------------------
(***************************************************************************)
(* Instances of Supervisor.                                                *)
(***************************************************************************)
EXTENDS Supervisor

Watch(subject, kind, period, required) ==
    [subject |-> subject, kind |-> kind, period |-> period, required |-> required]

On(trigger, subject, actions) == [trigger |-> trigger, subject |-> subject, actions |-> actions]

Plain == [subjects |-> 1, assessing |-> {}, monitors |-> <<>>, rules |-> <<>>, budget |-> 8,
          acts |-> {"Report"}, says |-> {Degraded}, changes |-> 2, clock |-> 2]

(* A service that must make progress, and a rule on its stall              *)
Progressing == [Plain EXCEPT !.monitors = <<Watch(1, "Progress", 1, TRUE)>>,
                             !.rules = <<On("Stall", 1, <<"Latch", "StopFeedingWatchdog">>)>>,
                             !.changes = 0, !.clock = 4]

(* Reports that grow old; recovery and its escalation                      *)
Recovering == [Plain EXCEPT !.rules = <<On("RecoveryFailure", 1, <<"RequestReboot">>),
                                        On("Fault", 1, <<"Warn", "TryRecover">>)>>,
                            !.says = {Nominal, Faulted}, !.clock = 3]

(* Interrupts that fill the ingress, and a thread that refreshes as well   *)
Interrupting == [Plain EXCEPT !.monitors = <<Watch(1, "ExecutionMonitor", 0, TRUE)>>,
                              !.rules = <<On("Fault", 1, <<"Observe">>)>>, !.changes = 3,
                              !.acts = {"Interrupt", "Refresh", "Stop"}, !.says = {Faulted},
                              !.clock = 1]

(* Two subjects with a hook, a check, a signal and adapters                *)
Observed == [Plain EXCEPT !.subjects = 2, !.assessing = {1},
                          !.acts = {"Find", "Break", "Adapt", "Observe", "Stop"},
                          !.says = {Degraded, Faulted}, !.changes = 1,
                          !.monitors = <<Watch(2, "Check", 0, TRUE), Watch(1, "Signal", 0, FALSE),
                                         Watch(2, "StackMargin", 0, FALSE)>>,
                          !.rules = <<On("Degraded", 2, <<"RequestSystemStop">>),
                                      On("Fault", 1, <<"EnterSafeState", "Panic">>)>>]

Sound == {Progressing, Recovering, Interrupting, Observed}

Withholding == {[Plain EXCEPT !.rules = <<On("Degraded", 1, <<"StopFeedingWatchdog">>)>>]}
Executing == {[Plain EXCEPT !.monitors = <<Watch(1, "ExecutionMonitor", 0, TRUE)>>, !.changes = 0]}
Racing == {[Progressing EXCEPT !.acts = {"Refresh"}, !.changes = 1]}
============================================================================
