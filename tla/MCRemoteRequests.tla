-------------------------- MODULE MCRemoteRequests --------------------------
(* Small systems with requests: each design asks one question. *)
EXTENDS RemoteRequests

MCLinks == {"uart", "usb"}

Base ==
    [links |-> {"uart"}, ops |-> {"action"}, inline |-> {}, async |-> FALSE, slots |-> 2,
     lane |-> 2, ids |-> 2, epochs |-> 1, failing |-> FALSE, lossy |-> FALSE,
     impatient |-> FALSE, retrying |-> FALSE]

Queued == [Base EXCEPT !.ids = 3, !.lossy = TRUE, !.retrying = TRUE]
Queries == [Base EXCEPT !.ops = {"query", "update"}, !.ids = 3, !.impatient = TRUE]
Async == [Base EXCEPT !.async = TRUE, !.impatient = TRUE, !.retrying = TRUE]
AsyncInline == [Async EXCEPT !.inline = {"action"}, !.ids = 3, !.retrying = FALSE]
Inlined == [Base EXCEPT !.inline = Ops, !.ops = {"query", "action"}, !.retrying = TRUE,
                        !.lossy = TRUE, !.failing = TRUE, !.impatient = TRUE]
Sessions == [Base EXCEPT !.epochs = 3, !.ids = 2]
AsyncSessions == [Sessions EXCEPT !.async = TRUE, !.epochs = 2]
TwoLinks == [Base EXCEPT !.links = MCLinks, !.ids = 1, !.epochs = 2, !.slots = 1, !.lane = 1]
Failing == [Base EXCEPT !.failing = TRUE, !.ids = 3, !.impatient = TRUE]

MCDesigns == {Base, Queued, Queries, Async, AsyncInline, Inlined, Sessions, AsyncSessions,
              TwoLinks, Failing, [Base EXCEPT !.async = TRUE]}

=============================================================================
