-------------------------- MODULE MCRemoteTransport --------------------------
(***************************************************************************)
(* The Remote service with its link, and the frames on the wire, for model *)
(* checking.  A run first decodes a stream of bytes and then lets the      *)
(* service work: one of the two is trivial.                                *)
(***************************************************************************)
EXTENDS RemoteService, RemoteFraming

Base ==
    [link |-> "async", queue |-> 2, lane |-> 1, messages |-> 1, slots |-> 2, fragments |-> 2,
     sends |-> {"response", "value"}, budget |-> 2, asks |-> {"ping"}, asking |-> 1,
     connections |-> 1, publications |-> FALSE, lossy |-> FALSE, expiring |-> FALSE,
     failing |-> FALSE, stops |-> FALSE]

Busy == [Base EXCEPT !.publications = TRUE, !.budget = 1]
Telemetry == [Base EXCEPT !.lane = 2, !.sends = {"value"}, !.budget = 4, !.asking = 0, !.queue = 3]
Failing == [Base EXCEPT !.failing = TRUE, !.budget = 0, !.queue = 3]
Stopping == [Base EXCEPT !.stops = TRUE, !.asks = {"request"}]
Resetting == [Base EXCEPT !.asks = {"reset", "request"}, !.asking = 2, !.budget = 1]
Reconnecting ==
    [Base EXCEPT !.link = "interrupt", !.connections = 2, !.queue = 3, !.asking = 0, !.budget = 1,
                 !.sends = {"response"}]
Narrow == [Base EXCEPT !.link = "interrupt", !.queue = 1]
FragmentsOut ==
    [Base EXCEPT !.sends = {"large value", "large reply"}, !.budget = 3, !.messages = 2,
                 !.fragments = 3, !.asks = {}]
FragmentsIn ==
    [Base EXCEPT !.asks = {"large request"}, !.asking = 2, !.lossy = TRUE, !.expiring = TRUE,
                 !.budget = 0, !.fragments = 3, !.slots = 1]

Unused == [Base EXCEPT !.budget = 0, !.asking = 0, !.queue = 1]

MCServiceDesigns == {Base, Busy, Telemetry, Failing, Stopping, Resetting, Reconnecting, Narrow,
                     FragmentsOut, FragmentsIn, Unused}

(* A block has one or two bytes: contents of up to four bytes fill some    *)
MCBlock == 3
Short == <<1>>
Contents == UNION {[1..n -> {0, 1, 3}] : n \in 1..4}
Noises == UNION {[1..n -> {0, 1, 3}] : n \in 0..2} \cup {[i \in 1..12 |-> 2]}
Stream(first, second, noise, n) ==
    [first |-> first, second |-> second, noise |-> noise, storage |-> n,
     decoder |-> MaxEncoded(5)]
MCFramingDesigns ==
    {Stream(c, Short, noise, MaxEncoded(5)) : c \in Contents, noise \in {<<>>, <<2, 0>>}}
    \cup {Stream(<<0, 1>>, <<1, 0>>, noise, n) : noise \in Noises, n \in {MaxEncoded(5), 20}}
Trivial == Stream(Short, Short, <<>>, MaxEncoded(5))

Decoded == stream = <<>> /\ leased = <<>>
TransportInit == Init /\ FramingInit /\ (sDesign = Unused \/ fDesign = Trivial)
TransportNext ==
    \/ FramingStep /\ UNCHANGED serviceVars
    \/ Decoded /\ Next /\ UNCHANGED framingVars
transportVars == <<serviceVars, framingVars>>
TransportSpec ==
    /\ TransportInit /\ [][TransportNext]_transportVars
    /\ WF_transportVars(FramingStep /\ UNCHANGED serviceVars)
    /\ WF_transportVars(Decoded /\ ServiceStep /\ UNCHANGED framingVars)
    /\ WF_transportVars(Decoded /\ Receive /\ UNCHANGED framingVars)
    /\ WF_transportVars(Decoded /\ RxDisabled /\ UNCHANGED framingVars)
    /\ WF_transportVars(Decoded /\ Complete /\ UNCHANGED framingVars)

=============================================================================
