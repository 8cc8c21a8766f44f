---------------------------- MODULE MCParameters ----------------------------
(***************************************************************************)
(* Instances of Parameters for TLC.                                        *)
(***************************************************************************)
EXTENDS Parameters

CONSTANTS p1, p2, c1, c2

MCParams == {p1, p2}
MCOrder == <<p1, p2>>
MCClients == {c1, c2}

Calls(a, b) == (c1 :> a) @@ (c2 :> b)
Plain ==
    [kind |-> (p1 :> "Deferred") @@ (p2 :> "Volatile"), delay |-> (p1 :> 1) @@ (p2 :> 2),
     commit |-> "Deferred", groupDelay |-> 1, validation |-> "Reject", hooked |-> {}, readonly |-> {p2},
     stop |-> "FlushDeferred", load |-> "UseDefault", calls |-> Calls({"set"}, {}),
     found |-> "none", faults |-> FALSE, boots |-> 2,
     writes |-> 2]

(* Two quiet periods of different length.                                  *)
TwoDelays == [Plain EXCEPT !.kind[p2] = "Deferred", !.readonly = {}, !.writes = 1]

(* The caller also flushes.                                                *)
Flushing == [Plain EXCEPT !.calls = Calls({"set", "flush"}, {}), !.stop = "CancelPending"]

(* Two callers of one deferred parameter.                                  *)
TwoCallers == [Plain EXCEPT !.calls = Calls({"set"}, {"set"}), !.boots = 1,
                            !.stop = "CancelPending"]

(* In memory only, with a hook.                                            *)
InMemory == [Plain EXCEPT !.kind[p1] = "Volatile", !.hooked = {p1}, !.validation = "AcceptAny"]

(* Saved by hand, with errors of the store and an older record.            *)
ByHand == [Plain EXCEPT !.kind[p1] = "Manual", !.calls = Calls({"set", "reset", "save"}, {}),
                        !.faults = TRUE, !.found = "old"]

(* Written through, by two callers, with errors of the store.              *)
Through == [Plain EXCEPT !.kind[p1] = "Immediate", !.calls = Calls({"set", "reset"}, {"try_set"}),
                         !.faults = TRUE, !.found = "ok", !.validation = "Clamp"]

(* A group of two, written whole; saved late, by hand or at once.          *)
Grouped == [Plain EXCEPT !.kind = (p1 :> "Transactional") @@ (p2 :> "Transactional"),
                         !.readonly = {}, !.calls = Calls({"set_all"}, {})]
GroupedByHand == [Grouped EXCEPT !.commit = "Manual", !.calls = Calls({"set_all", "save"}, {}),
                                 !.faults = TRUE, !.found = "old"]
GroupedThrough == [Grouped EXCEPT !.commit = "Immediate", !.calls = Calls({"set_all"}, {"set_all"}),
                                  !.faults = TRUE]

(* A damaged record that fails the boot.                                   *)
Damaged == [Plain EXCEPT !.found = "bad", !.load = "FailBoot"]

(* Saves and flushes that do not wait, against the worker, and against a   *)
(* caller that writes through while it holds the write gate.               *)
TryFlush == [Plain EXCEPT !.calls = Calls({"set"}, {"try_flush", "try_save"}), !.writes = 1,
                          !.stop = "CancelPending", !.faults = TRUE, !.found = "bad"]
TrySave == [Plain EXCEPT !.kind = (p1 :> "Immediate") @@ (p2 :> "Transactional"),
                         !.commit = "Manual", !.calls = Calls({"set"}, {"try_save"}),
                         !.readonly = {}, !.writes = 1, !.boots = 1]

MCDesigns == {TwoDelays, Flushing, TwoCallers, InMemory, ByHand, Through, Grouped, GroupedByHand,
              GroupedThrough, Damaged, TryFlush, TrySave}
MCGroupDesigns == {Grouped}
=============================================================================
