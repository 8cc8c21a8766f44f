--------------------------- MODULE MCRegistration ---------------------------
(***************************************************************************)
(* Instances of Registration: one declaration of every kind, with the      *)
(* load that reaches its interesting cases.                                *)
(***************************************************************************)
EXTENDS Registration

CONSTANTS c1, c2

Two == {c1, c2}
ZeroOrTwo == {0, 2}

Declaration(kind, stopPolicy, suspends, fixedRate, ops, maxCalls, maxTick) ==
    [kind |-> kind, capacity |-> 2, stop |-> stopPolicy, suspends |-> suspends,
     fixedRate |-> fixedRate, period |-> 2, ops |-> ops, maxCalls |-> maxCalls,
     maxTick |-> maxTick]

Schedules == {"schedule", "reschedule"}
Cancels == {"cancel", "cancelSync", "flush"}

Counted == Declaration("Counted", "Drain", TRUE, FALSE, {"submit"}, 4, 0)
Coalesced == Declaration("Coalesced", "CancelPending", FALSE, FALSE, {"submit", "cancel"}, 3, 0)
Delayable == Declaration("Delayable", "Drain", FALSE, FALSE, Schedules \cup Cancels, 2, 3)
FixedRatePeriodic == Declaration("Periodic", "Drain", TRUE, TRUE, Cancels, 2, 7)
FixedDelayPeriodic == Declaration("Periodic", "CancelPending", FALSE, FALSE, {"flush"}, 1, 5)
Triggered == Declaration("PollTriggered", "CancelPending", TRUE, FALSE, {"cancel", "flush"}, 3, 0)

Sound == {Counted, Coalesced, Delayable, FixedRatePeriodic, FixedDelayPeriodic, Triggered}

(* They are the ones the theorems of RegistrationProofs are about.         *)
ASSUME SoundUncancelled == \A d \in Sound : Uncancelled(d)
============================================================================
