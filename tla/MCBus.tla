------------------------------- MODULE MCBus -------------------------------
(***************************************************************************)
(* Instances of Bus.                                                       *)
(***************************************************************************)
EXTENDS Bus

CONSTANTS e1, e2

Two == {e1, e2}

Route(kind, capacity, overflow, stopPolicy) ==
    [kind |-> kind, capacity |-> capacity, overflow |-> overflow, stop |-> stopPolicy]

System(routes, maxEmits) == [routes |-> routes, maxEmits |-> maxEmits]

Queue(capacity, overflow) == <<Route("Queued", capacity, overflow, "Drain")>>
Latest == <<Route("Latest", 1, "DropOldest", "Drain")>>
Inline == <<Route("Inline", 1, "Reject", "Drain")>>
InlineAndCoalesced == Inline \o <<Route("Coalesced", 1, "DropNewest", "CancelPending")>>

Sound == {System(Queue(2, "Reject"), 3), System(Latest, 2), System(InlineAndCoalesced, 2)}

TwoCells == {System(Queue(2, "Reject"), 4)}
DropOldest == {System(Queue(1, "DropOldest"), 3)}
InlineOnly == {System(Inline, 1)}
============================================================================
