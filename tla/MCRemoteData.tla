---------------------------- MODULE MCRemoteData ----------------------------
(***************************************************************************)
(* The data endpoints of the Remote service for model checking: a run has  *)
(* an inbound stream or a publication, the other of the two is idle.       *)
(***************************************************************************)
EXTENDS RemoteStreams, RemotePublications

SBase ==
    [links |-> 1, window |-> 1, inline |-> FALSE, callbacks |-> FALSE, group |-> "none",
     opens |-> 1, samples |-> 2, closes |-> FALSE, refuses |-> FALSE, rated |-> FALSE,
     full |-> FALSE, drops |-> 0, stops |-> FALSE]
SWindow == [SBase EXCEPT !.window = 2, !.samples = 3, !.closes = TRUE]
SReopen == [SBase EXCEPT !.opens = 2, !.closes = TRUE]
SCallbacks == [SBase EXCEPT !.opens = 2, !.callbacks = TRUE, !.refuses = TRUE]
SInline == [SBase EXCEPT !.inline = TRUE, !.callbacks = TRUE, !.refuses = TRUE, !.links = 2,
                         !.group = "replace", !.opens = 2]
SReject == [SBase EXCEPT !.links = 2, !.group = "reject", !.opens = 2, !.closes = TRUE]
SReplace == [SBase EXCEPT !.links = 2, !.group = "replace", !.opens = 2, !.callbacks = TRUE]
SRated == [SBase EXCEPT !.rated = TRUE, !.samples = 3]
SFull == [SBase EXCEPT !.full = TRUE, !.closes = TRUE, !.opens = 2]
SDrops == [SBase EXCEPT !.drops = 1, !.opens = 2, !.callbacks = TRUE]
SRatedFull == [SRated EXCEPT !.full = TRUE]
SStops == [SBase EXCEPT !.stops = TRUE, !.full = TRUE, !.callbacks = TRUE, !.closes = TRUE]

SIdle == [SBase EXCEPT !.opens = 0, !.samples = 0]

MCStreamDesigns == {SIdle, SBase, SWindow, SReopen, SCallbacks, SInline, SReject, SReplace, SRated, SFull,
                    SDrops, SStops, SRatedFull}
MCRemoteStreamCredit == {SIdle, SReopen}
MCRemoteStreamOrder == {SIdle, SWindow}

PBase ==
    [kind |-> "push", overflow |-> "DropOldest", depth |-> 2, batch |-> 1, subscribers |-> 1,
     ports |-> 1, writers |-> 2, writes |-> 3, requests |-> 0, releases |-> 0, inbox |-> 1,
     paced |-> FALSE, crowded |-> FALSE, faulty |-> FALSE, ending |-> FALSE]
PBatch == [PBase EXCEPT !.batch = 2, !.ports = 2, !.writes = 3, !.paced = TRUE, !.depth = 3,
                        !.writers = 1]
PNewest == [PBase EXCEPT !.overflow = "DropNewest", !.kind = "watch", !.depth = 1]
PTopic == [PBase EXCEPT !.kind = "topic", !.requests = 2, !.writes = 2, !.writers = 1, !.depth = 1]
PReject == [PBase EXCEPT !.overflow = "Reject", !.writers = 1, !.crowded = TRUE]
PSubscribe == [PBase EXCEPT !.writers = 1, !.requests = 3, !.ports = 2, !.writes = 2]
PCrowded == [PBase EXCEPT !.crowded = TRUE, !.requests = 1, !.writes = 2]
PLoan == [PBase EXCEPT !.kind = "loan", !.writes = 3]
PLoanChange == [PLoan EXCEPT !.subscribers = 0, !.requests = 1]
PLoanCrowded == [PLoan EXCEPT !.crowded = TRUE]
PPoll == [PBase EXCEPT !.kind = "poll", !.writers = 0, !.writes = 0, !.ports = 2, !.requests = 2,
                       !.releases = 3, !.faulty = TRUE, !.ending = TRUE, !.paced = TRUE]
PIdle == [PBase EXCEPT !.writers = 0, !.writes = 0]

MCPublicationDesigns == {PIdle, PBase, PBatch, PNewest, PTopic, PReject, PSubscribe, PCrowded, PLoan,
                         PLoanChange, PPoll}
MCRemoteLoans == {PIdle, PLoanCrowded}
MCStreamsIdle == {SIdle}
MCPublicationsIdle == {PIdle}

DataInit == StreamInit /\ PublicationInit /\ (rDesign = SIdle \/ pDesign = PIdle)
DataNext ==
    \/ StreamNext /\ UNCHANGED publicationVars
    \/ PublicationNext /\ UNCHANGED streamVars
DataSpec ==
    /\ DataInit /\ [][DataNext]_<<streamVars, publicationVars>>
    /\ StreamFairness /\ PublicationFairness

=============================================================================
