---------------------------- MODULE RemoteService ----------------------------
(***************************************************************************)
(* The Remote service (remote/service.hpp) on one link, the link itself    *)
(* (remote/links/async_uart.hpp or interrupt_uart.hpp) and the SDK's       *)
(* client at its other end (client.py): a bounded queue of events feeds    *)
(* the service thread; frames wait in priority lanes and leave one at a    *)
(* time under a lease; large messages go in fragments; a session begins    *)
(* with a ServerHello.                                                     *)
(*                                                                         *)
(* A step is a section under a lock, an interrupt, or what the service     *)
(* thread does between two of those.                                       *)
(***************************************************************************)
EXTENDS Integers, Sequences, FiniteSets, SequencesExt, FiniteSetsExt

CONSTANT ServiceDesigns         \* the systems to consider

Lanes == <<"control", "response", "important", "telemetry", "bulk">>
LaneNames == ToSet(Lanes)

(* What application threads send: a response, an introspection reply, a    *)
(* value of a stream, a value and a reply too large for a frame            *)
Sends == {"response", "reply", "value", "large value", "large reply"}
(* What a host sends once it is active *)
Asks == {"ping", "request", "large request", "reset"}

ServiceDesignType ==
    [link : {"async", "interrupt"},
     queue : Nat \ {0},         \* CONFIG_SOLAR_REMOTE_EVENT_QUEUE_DEPTH
     lane : Nat \ {0},          \* CONFIG_SOLAR_REMOTE_OUTPUT_LANE_DEPTH
     messages : Nat \ {0},      \* CONFIG_SOLAR_REMOTE_OUTBOUND_MESSAGE_SLOTS
     slots : Nat \ {0},         \* reassembly slots, here and at the host
     fragments : Nat \ {0, 1},  \* of a large message
     sends : SUBSET Sends,
     budget : Nat,              \* messages the application sends
     asks : SUBSET Asks,
     asking : Nat,              \* messages a host sends
     connections : Nat,         \* of a host, one after the other
     publications : BOOLEAN,    \* other posts to the event queue
     lossy : BOOLEAN,           \* frames may be lost
     expiring : BOOLEAN,        \* fragments may come too late
     failing : BOOLEAN,         \* the UART may fail
     stops : BOOLEAN]           \* the system may stop

ASSUME ServiceAssumption == ServiceDesigns \subseteq ServiceDesignType

VARIABLES
    sDesign,        \* the system
    events,         \* Service::events
    lanes,          \* LinkState::lanes
    messages,       \* LinkState::outbound_messages
    tx,             \* LinkState::tx_in_flight, transmitting_lane, transmitting_handle
    txEncoded,      \* LinkState::tx_encoded, the frame in it
    connected,      \* LinkState::connected
    sSession,       \* LinkState::session
    sEpoch,         \* LinkState::epoch
    reassembly,     \* LinkState::reassembly
    svc,            \* where the service thread is
    uart,           \* the link
    host,           \* the client
    wire,           \* frames of the host on their way
    made,           \* messages made so far, on either side
    sSeen           \* what the properties need to remember (ServiceSeenType)

outputVars == <<lanes, messages, tx, txEncoded>>
serviceVars == <<sDesign, events, outputVars, connected, sSession, sEpoch, reassembly, svc, uart,
                 host, wire, made, sSeen>>

Frame(kind, msg, index, count) == [kind |-> kind, msg |-> msg, index |-> index, count |-> count]
Hello == Frame("hello", 0, 0, 1)
NoFrame == Frame("none", 0, 0, 1)
NoTx == [inFlight |-> FALSE, lane |-> "none", handle |-> 0]

Interrupt == sDesign.link = "interrupt"
Event(kind, lease) == [kind |-> kind, lease |-> lease]
LinkEvents == {"Connected", "Disconnected", "Fault", "RxReady", "TxComplete"}

-----------------------------------------------------------------------------
(* Output *)

(* post: an event that does not fit is counted and forgotten *)
Fits(q) == Len(q) < sDesign.queue
Posted(q, e) == IF Fits(q) THEN Append(q, e) ELSE q
Losing(q, e) == ~Fits(q) /\ e.kind \in LinkEvents

LaneFor(kind) ==
    CASE kind \in {"hello", "pong"} -> "control"
      [] kind \in {"response", "error"} -> "response"
      [] kind = "value" -> "telemetry"
      [] OTHER -> "important"

LaneFull(l) == Len(lanes[l]) = sDesign.lane

(* Bug: a full telemetry lane keeps what it has *)
QueuedIfRoom(f) ==
    IF LaneFull(LaneFor(f.kind)) THEN lanes ELSE [lanes EXCEPT ![LaneFor(f.kind)] = Append(@, f)]
(* A frame that fits: telemetry replaces the newest one of a full lane *)
Queued(f) ==
    LET l == LaneFor(f.kind) IN
    IF ~LaneFull(l) THEN [lanes EXCEPT ![l] = Append(@, f)]
    ELSE IF l = "telemetry" THEN [lanes EXCEPT ![l] = Append(Front(@), f)]
    ELSE lanes
Accepts(f) == ~LaneFull(LaneFor(f.kind)) \/ LaneFor(f.kind) = "telemetry"

(* A message that does not fit a frame takes a message slot, or for        *)
(* telemetry the first that holds telemetry                                *)
Inactive == [active |-> FALSE, kind |-> "none", msg |-> 0, index |-> 0]
FreeMessages == {i \in DOMAIN messages : ~messages[i].active}
Replaceable == {i \in DOMAIN messages : messages[i].active /\ messages[i].kind = "value"}
MessageSlots(kind) ==
    IF FreeMessages # {} \/ kind # "value" THEN FreeMessages ELSE Replaceable

(* transmit, by an application thread *)
Transmit(send) ==
    /\ svc.at # "stopped" /\ send \in sDesign.sends /\ made.sent < sDesign.budget
    /\ made' = [made EXCEPT !.sent = @ + 1]
    /\ LET msg == made.sent + 1
           kind == IF send \in {"value", "large value"} THEN "value"
                   ELSE IF send = "response" THEN "response" ELSE "reply"
           f == Frame(kind, msg, 0, 1)
       IN
       \/ /\ send \notin {"large value", "large reply"}
          /\ lanes' = Queued(f)
          /\ events' = IF Accepts(f) THEN Posted(events, Event("Output", 0)) ELSE events
          /\ sSeen' = [sSeen EXCEPT !.newest = IF kind = "value" THEN msg ELSE @]
          /\ UNCHANGED messages
       \/ /\ send \in {"large value", "large reply"} /\ MessageSlots(kind) # {}
          /\ LET i == Min(MessageSlots(kind)) IN
             /\ messages' = [messages EXCEPT ![i] =
                    [active |-> TRUE, kind |-> kind, msg |-> msg, index |-> 0]]
             /\ sSeen' = [sSeen EXCEPT !.orphans = @ \/ messages[i].index > 0]
          /\ events' = Posted(events, Event("Output", 0))
          /\ UNCHANGED lanes
       \/ /\ send \in {"large value", "large reply"} /\ MessageSlots(kind) = {}
          /\ UNCHANGED <<lanes, messages, events, sSeen>>
    /\ UNCHANGED <<sDesign, tx, txEncoded, connected, sSession, sEpoch, reassembly,
                   svc, uart, host, wire>>

(* notify_publication, and the posts of other links *)
Publish ==
    /\ svc.at # "stopped" /\ sDesign.publications /\ Fits(events)
    /\ events' = Append(events, Event("Publication", 0))
    /\ UNCHANGED <<sDesign, outputVars, connected, sSession, sEpoch, reassembly, svc, uart, host,
                   wire, made, sSeen>>

-----------------------------------------------------------------------------
(* try_start_transmit *)

(* stage_fragment: the next fragment of the first message *)
Active == {i \in DOMAIN messages : messages[i].active}
Stages == Active # {} /\ ~LaneFull("bulk")
Advanced(m) == IF m.index + 1 = sDesign.fragments THEN Inactive ELSE [m EXCEPT !.index = @ + 1]
StagedMessages == IF Stages THEN [messages EXCEPT ![Min(Active)] = Advanced(@)] ELSE messages
StagedLanes ==
    IF ~Stages THEN lanes
    ELSE LET m == messages[Min(Active)] IN
         [lanes EXCEPT !["bulk"] =
             Append(@, Frame(m.kind, m.msg, m.index, sDesign.fragments))]

Waiting(ls) == {i \in DOMAIN Lanes : ls[Lanes[i]] # <<>>}
Selected(ls) == Lanes[Min(Waiting(ls))]

(* tx_generation: a handle that is not in use (it wraps at 2^16) *)
InUse == {uart.tx, uart.completed, tx.handle} \cup {e.lease : e \in ToSet(events)}
NewHandle == Min(1..(Cardinality(InUse) + 1) \ InUse)

(* The head of the first lane that has one is encoded under a new handle.  *)
(* Its epoch is the one of this moment.                                    *)
Select ==
    /\ svc.at \in {"try", "drain"}
    /\ messages' = StagedMessages
    /\ LET ls == StagedLanes
           then == IF svc.at = "try" THEN "poll" ELSE "pump"
       IN
       /\ lanes' = ls
       /\ \/ /\ tx.inFlight \/ ~connected \/ Waiting(ls) = {}
             /\ svc' = [at |-> then]
             /\ UNCHANGED <<tx, txEncoded, sSeen>>
          \/ /\ ~tx.inFlight /\ connected /\ Waiting(ls) # {}
             /\ tx' = [inFlight |-> TRUE, lane |-> Selected(ls), handle |-> NewHandle]
             /\ txEncoded' = [frame |-> Head(ls[Selected(ls)]), epoch |-> sEpoch]
             /\ svc' = [at |-> "hand", then |-> then, lane |-> Selected(ls)]
             /\ sSeen' = [sSeen EXCEPT
                    !.overwritten = @ \cup (IF uart.tx = 0 THEN {} ELSE {uart.leased.epoch = sEpoch})]
    /\ UNCHANGED <<sDesign, events, connected, sSession, sEpoch, reassembly, uart, host, wire, made>>

(* LinkT::try_transmit and its result: accepted, busy, or an error.  What  *)
(* is removed is the head of the lane as it is now.                        *)
(* Bug: tx_in_flight is left set *)
UntransmitHalf == tx' = [NoTx EXCEPT !.inFlight = TRUE]
Untransmit == tx' = NoTx
Popped == lanes' = [lanes EXCEPT ![svc.lane] = Tail(@)]
MayFail == sDesign.failing /\ ~Interrupt
Accepted ==
    /\ uart.tx = 0
    /\ uart' = [uart EXCEPT !.tx = tx.handle, !.leased = txEncoded]
    /\ Popped
    /\ UNCHANGED tx
Refused ==
    /\ \/ (uart.tx # 0 \/ MayFail) /\ UNCHANGED lanes
       \/ uart.tx = 0 /\ MayFail /\ Popped
    /\ Untransmit
    /\ UNCHANGED uart
HandOver ==
    /\ svc.at = "hand"
    /\ svc' = [at |-> svc.then]
    /\ Accepted \/ Refused
    /\ UNCHANGED <<sDesign, events, messages, txEncoded, connected, sSession, sEpoch,
                   reassembly, host, wire, made, sSeen>>

-----------------------------------------------------------------------------
(* Fragments: reassemble of service.hpp, Reassembler.push of client.py.    *)
(* A slot keeps what it has, so that mixing would show.                    *)

Slot(f) == [msg |-> f.msg, parts |-> <<>>]
SlotOf(slots, f) == {s \in slots : s.msg = f.msg}
Final(f) == f.index + 1 = f.count
Part(f) == <<f.msg, f.index>>

InSequence(s, f) == Len(s.parts) = f.index

(* The slot a fragment goes to.  Here the first fragment restarts a slot   *)
(* of the same message, there it is refused.                               *)
Open(slots, f, restarts) ==
    IF f.index = 0
    THEN IF SlotOf(slots, f) # {} THEN (IF restarts THEN {Slot(f)} ELSE {})
         ELSE IF Cardinality(slots) < sDesign.slots THEN {Slot(f)} ELSE {}
    ELSE SlotOf(slots, f)

(* The slots afterwards, what has been completed, and whether f was taken *)
Reassemble(slots, f, restarts) ==
    LET target == Open(slots, f, restarts) IN
    IF f.count = 1 THEN [slots |-> slots, whole |-> <<Part(f)>>, ok |-> TRUE]
    ELSE IF target = {} THEN [slots |-> slots, whole |-> <<>>, ok |-> FALSE]
    ELSE LET s == CHOOSE t \in target : TRUE
             rest == slots \ SlotOf(slots, f)
             got == [s EXCEPT !.parts = Append(@, Part(f))]
         IN IF ~InSequence(s, f) THEN [slots |-> rest, whole |-> <<>>, ok |-> FALSE]
            ELSE IF Final(f) THEN [slots |-> rest, whole |-> got.parts, ok |-> TRUE]
            ELSE [slots |-> rest \cup {got}, whole |-> <<>>, ok |-> TRUE]

(* What has been put together is one message, from its first fragment to   *)
(* its last                                                                *)
Whole(f, parts) == parts # <<>> => parts = [i \in 1..f.count |-> <<f.msg, i - 1>>]

(* Slots whose deadline may have passed *)
Overdue(slots) == IF sDesign.expiring THEN SUBSET slots ELSE {{}}

-----------------------------------------------------------------------------
(* The host: Client.feed, one frame at a time *)

NoClient == [state |-> "away", epoch |-> 0, hello |-> FALSE, active |-> FALSE, slots |-> {},
             last |-> 0]
NewClient == [NoClient EXCEPT !.state = "open"]

(* A fragment that is refused ends the session *)
Heard(f, epoch, r) ==
    IF ~r.ok THEN [NoClient EXCEPT !.state = "closed"]
    ELSE LET h == [host EXCEPT !.slots = r.slots] IN
         IF f.kind = "hello" THEN [h EXCEPT !.epoch = epoch, !.hello = TRUE, !.active = h.hello]
         ELSE IF f.kind = "value" /\ f.count = 1 THEN [h EXCEPT !.last = f.msg]
         ELSE h

ClientHello == Frame("client hello", 0, 0, 1)

Hears(sent, losing) ==
    \E late \in Overdue(host.slots) :
        LET f == sent.frame
            r == Reassemble(host.slots \ late, f, FALSE)
        IN
        /\ host' = Heard(f, sent.epoch, r)
        /\ wire' = IF f.kind = "hello" /\ ~host.hello THEN Append(wire, ClientHello) ELSE wire
        /\ sSeen' = [sSeen EXCEPT !.broken = @ \/ ~Whole(f, r.whole), !.lostEvent = @ \/ losing]

Misses(losing) ==
    /\ sSeen' = [sSeen EXCEPT !.lostEvent = @ \/ losing]
    /\ UNCHANGED <<host, wire>>

(* Client.request, ping, and _queue of a large message.  After a reset the *)
(* host starts over.                                                       *)
Fragments(kind, msg) ==
    [i \in 1..sDesign.fragments |-> Frame(kind, msg, i - 1, sDesign.fragments)]
Ask(a) ==
    /\ host.active /\ a \in sDesign.asks /\ made.asked < sDesign.asking
    /\ made' = [made EXCEPT !.asked = @ + 1]
    /\ wire' = wire \o (IF a = "large request" THEN Fragments("request", made.asked + 1)
                        ELSE <<Frame(a, made.asked + 1, 0, 1)>>)
    /\ host' = IF a = "reset" THEN NewClient ELSE host
    /\ UNCHANGED <<sDesign, events, outputVars, connected, sSession, sEpoch, reassembly, svc, uart,
                   sSeen>>

LoseFrame ==
    /\ sDesign.lossy /\ wire # <<>>
    /\ wire' = Tail(wire)
    /\ UNCHANGED <<sDesign, events, outputVars, connected, sSession, sEpoch, reassembly, svc, uart,
                   host, made, sSeen>>

-----------------------------------------------------------------------------
(* The link.  The interrupt-driven UART notifies at once; the asynchronous *)
(* one leaves flags that the service thread polls.                         *)

NewUart == [opened |-> TRUE, linked |-> ~Interrupt, rx |-> FALSE, frame |-> NoFrame,
            driver |-> "on", tx |-> 0, leased |-> NoFrame, completed |-> 0, pending |-> {}]

Notify(e) ==
    /\ events' = Posted(events, e)
    /\ sSeen' = [sSeen EXCEPT !.lostEvent = @ \/ Losing(events, e)]

(* A whole frame has been received; reception pauses until its lease is    *)
(* released                                                                *)
Held == [uart EXCEPT !.rx = TRUE, !.frame = Head(wire)]
ReceiveInterrupt ==
    /\ Interrupt
    /\ uart' = Held
    /\ Notify(Event("RxReady", 0))
ReceiveAsync ==
    /\ ~Interrupt
    /\ uart' = [Held EXCEPT !.pending = @ \cup {"RxReady"},
                            !.driver = IF sDesign.failing THEN "disabling" ELSE "off"]
    /\ UNCHANGED <<events, sSeen>>
Receive ==
    /\ wire # <<>> /\ uart.opened /\ ~uart.rx /\ uart.driver = "on"
    /\ wire' = Tail(wire)
    /\ ReceiveInterrupt \/ ReceiveAsync
    /\ UNCHANGED <<sDesign, outputVars, connected, sSession, sEpoch, reassembly, svc, host, made>>

(* release_rx: reception cannot be enabled before it has been disabled *)
Faulted(u) == [u EXCEPT !.pending = @ \cup {"Fault"}]
Free(u) == [u EXCEPT !.rx = FALSE, !.frame = NoFrame]
Reenabled(u) == IF u.driver = "off" THEN [u EXCEPT !.driver = "on"] ELSE Faulted(u)
Released(u) == IF Interrupt THEN Free(u) ELSE Reenabled(Free(u))

(* recover_disabled_rx *)
RxDisabled ==
    /\ uart.driver = "disabling"
    /\ uart' = [uart EXCEPT !.driver = IF uart.opened /\ ~uart.rx THEN "on" ELSE "off"]
    /\ UNCHANGED <<sDesign, events, outputVars, connected, sSession, sEpoch, reassembly, svc, host,
                   wire, made, sSeen>>

(* The frame has gone out.  One whose storage was written to meanwhile is  *)
(* damaged, unless nothing of it had been sent.                            *)
Damaged == uart.leased # txEncoded
CompleteInterrupt ==
    /\ Interrupt
    /\ uart' = [uart EXCEPT !.tx = 0, !.leased = NoFrame]
    /\ events' = Posted(events, Event("TxComplete", uart.tx))
CompleteAsync ==
    /\ ~Interrupt
    /\ uart' = [uart EXCEPT !.tx = 0, !.leased = NoFrame, !.completed = uart.tx,
                            !.pending = @ \cup {"TxComplete"}]
    /\ UNCHANGED events
Complete ==
    /\ uart.tx # 0
    /\ CompleteInterrupt \/ CompleteAsync
    /\ LET losing == Interrupt /\ Losing(events, Event("TxComplete", uart.tx)) IN
       \/ host.state = "open" /\ Hears(txEncoded, losing)
       \/ (host.state # "open" \/ sDesign.lossy \/ Damaged) /\ Misses(losing)
    /\ UNCHANGED <<sDesign, outputVars, connected, sSession, sEpoch, reassembly, svc, made>>

(* UART_TX_ABORTED, which completes nothing, and UART_RX_STOPPED *)
Abort ==
    /\ uart.tx # 0
    /\ uart' = Faulted([uart EXCEPT !.tx = 0, !.leased = NoFrame])
RxStopped == uart' = Faulted(uart)
UartFails ==
    /\ MayFail /\ uart.opened
    /\ Abort \/ RxStopped
    /\ UNCHANGED <<sDesign, events, outputVars, connected, sSession, sEpoch, reassembly, svc, host,
                   wire, made, sSeen>>

(* signal_connected and signal_disconnected: a host opens its end of the   *)
(* link with a new client, or closes it                                    *)
SignalConnected ==
    /\ Interrupt /\ uart.opened /\ ~uart.linked /\ made.connections < sDesign.connections
    /\ uart' = [uart EXCEPT !.linked = TRUE]
    /\ made' = [made EXCEPT !.connections = @ + 1]
    /\ host' = NewClient
    /\ wire' = <<>>
    /\ Notify(Event("Connected", 0))
    /\ UNCHANGED <<sDesign, outputVars, connected, sSession, sEpoch, reassembly, svc>>

SignalDisconnected ==
    /\ Interrupt /\ uart.linked /\ made.connections < sDesign.connections
    /\ uart' = [uart EXCEPT !.linked = FALSE]
    /\ host' = NoClient
    /\ wire' = <<>>
    /\ Notify(Event("Disconnected", 0))
    /\ UNCHANGED <<sDesign, outputVars, connected, sSession, sEpoch, reassembly, svc, made>>

-----------------------------------------------------------------------------
(* The service thread: pump_once, poll_links, drain_outputs,               *)
(* expire_reassemblies                                                     *)

Cleared == [l \in LaneNames |-> <<>>]
NoMessages == [i \in 1..sDesign.messages |-> Inactive]
Forgotten == [sSeen EXCEPT !.newest = 0]

Greeted == [Cleared EXCEPT !["control"] = <<Hello>>]

Connect ==
    /\ lanes' = Greeted
    /\ messages' = NoMessages
    /\ tx' = [NoTx EXCEPT !.inFlight = tx.inFlight]
    /\ reassembly' = {}
    /\ connected' = TRUE
    /\ sSession' = "Negotiating"
    /\ sEpoch' = sEpoch + 1
    /\ events' = Posted(Tail(events), Event("Output", 0))
    /\ sSeen' = Forgotten
    /\ UNCHANGED <<txEncoded, uart>>

Disconnect(session) ==
    /\ connected' = FALSE
    /\ sSession' = session
    /\ tx' = NoTx
    /\ reassembly' = {}
    /\ lanes' = Cleared
    /\ messages' = NoMessages
    /\ events' = Tail(events)
    /\ sSeen' = Forgotten
    /\ UNCHANGED <<txEncoded, sEpoch, uart>>

Completes(e) == tx.lane # "none" /\ e.lease = tx.handle

TxComplete ==
    /\ tx' = IF Completes(Head(events)) THEN NoTx ELSE tx
    /\ events' = Tail(events)
    /\ UNCHANGED <<lanes, messages, txEncoded, connected, sSession, sEpoch, reassembly, uart, sSeen>>

(* A reply from within the service thread *)
Replies(f) ==
    /\ lanes' = Queued(f)
    /\ events' = IF Accepts(f) THEN Posted(Tail(events), Event("Output", 0)) ELSE Tail(events)
Silent == lanes' = lanes /\ events' = Tail(events)

SessionAfter(kind) ==
    IF kind = "client hello" THEN "Active" ELSE IF kind = "reset" THEN "Negotiating" ELSE sSession

(* handle_frame *)
HandleFrame(f) ==
    \E late \in (IF f.count = 1 THEN {{}} ELSE Overdue(reassembly)) :
        LET r == Reassemble(reassembly \ late, f, TRUE)
            live == sSession = "Active"
        IN
        /\ sSeen' = [sSeen EXCEPT !.broken = @ \/ ~Whole(f, r.whole)]
        /\ reassembly' = IF r.whole # <<>> /\ f.kind = "reset" THEN {} ELSE r.slots
        /\ sSession' = IF r.whole = <<>> THEN sSession ELSE SessionAfter(f.kind)
        /\ sEpoch' = IF r.whole # <<>> /\ f.kind = "reset" THEN sEpoch + 1 ELSE sEpoch
        /\ \/ ~r.ok /\ Replies(Frame("error", 0, 0, 1))
           \/ r.whole # <<>> /\ f.kind \in {"client hello", "reset"} /\ Replies(Hello)
           \/ r.whole # <<>> /\ f.kind = "ping" /\ live /\ Replies(Frame("pong", f.msg, 0, 1))
           \/ /\ r.ok /\ \/ r.whole = <<>>
                         \/ f.kind = "request"
                         \/ f.kind = "ping" /\ ~live
              /\ Silent

RxReady ==
    /\ HandleFrame(uart.frame)
    /\ uart' = Released(uart)
    /\ UNCHANGED <<messages, tx, txEncoded, connected>>

(* The thread takes an event and then tries to transmit *)
Pump ==
    /\ svc.at = "pump" /\ events # <<>>
    /\ LET e == Head(events) IN
       \/ /\ e.kind = "Connected" /\ Connect
          /\ svc' = [at |-> "try"]
       \/ /\ e.kind = "Disconnected" /\ Disconnect("Disconnected")
          /\ svc' = [at |-> "try"]
       \/ /\ e.kind = "Fault" /\ Disconnect("Faulted")
          /\ svc' = [at |-> "try"]
       \/ /\ e.kind = "RxReady" /\ RxReady
          /\ svc' = [at |-> "try"]
       \/ /\ e.kind = "TxComplete" /\ TxComplete
          /\ svc' = [at |-> "try"]
       \/ /\ e.kind \in {"Output", "Publication"}
          /\ events' = Tail(events)
          /\ svc' = [at |-> IF e.kind = "Output" THEN "try" ELSE "poll"]
          /\ UNCHANGED <<outputVars, connected, sSession, sEpoch, reassembly, uart, sSeen>>
    /\ UNCHANGED <<sDesign, host, wire, made>>

(* No event for 50 ms *)
Maintain ==
    /\ svc.at = "pump" /\ events = <<>>
    /\ svc' = [at |-> "poll"]
    /\ UNCHANGED <<sDesign, events, outputVars, connected, sSession, sEpoch, reassembly, uart, host,
                   wire, made, sSeen>>

(* AsyncUart::poll: each flag is cleared and its event posted, in order *)
Pending(kind, lease) == IF kind \in uart.pending THEN <<Event(kind, lease)>> ELSE <<>>
Polled ==
    Pending("RxReady", 0) \o Pending("TxComplete", uart.completed) \o Pending("Fault", 0)

(* Bug: outputs are only tried when an event asks for it *)
AfterPollPump == "pump"
AfterPoll == "drain"

Poll ==
    /\ svc.at = "poll"
    /\ uart' = [uart EXCEPT !.pending = {}, !.completed = 0]
    /\ events' = FoldLeft(Posted, events, Polled)
    /\ sSeen' = [sSeen EXCEPT !.lostEvent = @ \/ Len(events) + Len(Polled) > sDesign.queue]
    /\ \E late \in Overdue(reassembly) : reassembly' = reassembly \ late
    /\ svc' = [at |-> AfterPoll]
    /\ UNCHANGED <<sDesign, outputVars, connected, sSession, sEpoch, host, wire, made>>

Closed == [NewUart EXCEPT !.opened = FALSE, !.linked = FALSE, !.driver = "off"]
(* The loop sees the stop request; stop() closes the link *)
Stop ==
    /\ sDesign.stops /\ svc.at = "pump"
    /\ svc' = [at |-> "stopped"]
    /\ uart' = Closed
    /\ UNCHANGED <<sDesign, events, outputVars, connected, sSession, sEpoch, reassembly, host, wire,
                   made, sSeen>>

-----------------------------------------------------------------------------
Init ==
    /\ sDesign \in ServiceDesigns
    /\ events = IF Interrupt THEN <<>> ELSE <<Event("Connected", 0)>>
    /\ lanes = Cleared
    /\ messages = NoMessages
    /\ tx = NoTx
    /\ txEncoded = [frame |-> NoFrame, epoch |-> 0]
    /\ connected = FALSE
    /\ sSession = "Disconnected"
    /\ sEpoch = 0
    /\ reassembly = {}
    /\ svc = [at |-> "pump"]
    /\ uart = NewUart
    /\ host = IF Interrupt THEN NoClient ELSE NewClient
    /\ wire = <<>>
    /\ made = [sent |-> 0, asked |-> 0, connections |-> 0]
    /\ sSeen = [lostEvent |-> FALSE, overwritten |-> {}, newest |-> 0, orphans |-> FALSE,
                broken |-> FALSE]

ServiceStep == Pump \/ Maintain \/ Select \/ HandOver \/ Poll
LinkStep == Receive \/ RxDisabled \/ Complete
Environment ==
    \/ Publish \/ LoseFrame \/ UartFails \/ SignalConnected \/ SignalDisconnected \/ Stop
    \/ \E send \in Sends : Transmit(send)
    \/ \E a \in Asks : Ask(a)

Ended == svc.at = "stopped" /\ UNCHANGED serviceVars
Next == ServiceStep \/ LinkStep \/ Environment \/ Ended

(* The service thread keeps running, a UART finishes what it has been      *)
(* given and receives while it is enabled                                  *)
Fairness ==
    /\ WF_serviceVars(ServiceStep)
    /\ WF_serviceVars(Receive) /\ WF_serviceVars(RxDisabled) /\ WF_serviceVars(Complete)

Spec == Init /\ [][Next]_serviceVars /\ Fairness

-----------------------------------------------------------------------------
(* Properties *)

FrameKinds == {"none", "hello", "pong", "response", "error", "value", "reply", "client hello", "ping",
               "request", "reset"}
FrameType == [kind : FrameKinds, msg : Nat, index : Nat, count : Nat \ {0}]
SentType == [frame : FrameType, epoch : Nat]
ServiceSeenType ==
    [lostEvent : BOOLEAN,           \* an event of the link did not fit the queue
     overwritten : SUBSET BOOLEAN,  \* a frame on its way has been written over: one of this session?
     newest : Nat,                  \* the last value sent since the link connected
     orphans : BOOLEAN,             \* a message has been replaced after its first fragment
     broken : BOOLEAN]              \* fragments have been put together wrongly

(* Every variable stays within its type: the lanes, message and            *)
(* reassembly slots within their depth, the event queue within its own.    *)
ServiceTypeOK ==
    /\ sDesign \in ServiceDesigns
    /\ events \in Seq([kind : LinkEvents \cup {"Output", "Publication"}, lease : Nat])
    /\ Len(events) <= sDesign.queue
    /\ DOMAIN lanes = LaneNames
    /\ \A l \in LaneNames : lanes[l] \in Seq(FrameType) /\ Len(lanes[l]) <= sDesign.lane
    /\ \A i \in DOMAIN messages :
        messages[i] \in [active : BOOLEAN, kind : FrameKinds, msg : Nat, index : Nat]
    /\ tx \in [inFlight : BOOLEAN, lane : LaneNames \cup {"none"}, handle : Nat]
    /\ txEncoded \in SentType
    /\ connected \in BOOLEAN
    /\ sSession \in {"Disconnected", "Negotiating", "Active", "Faulted"}
    /\ sEpoch \in Nat
    /\ Cardinality(reassembly) <= sDesign.slots /\ Cardinality(host.slots) <= sDesign.slots
    /\ svc.at \in {"pump", "try", "hand", "poll", "drain", "stopped"}
    /\ uart.driver \in {"on", "disabling", "off"} /\ uart.frame \in FrameType
    /\ uart.pending \subseteq LinkEvents
    /\ host.state \in {"away", "open", "closed"} /\ host.epoch \in Nat
    /\ wire \in Seq(FrameType)
    /\ made \in [sent : Nat, asked : Nat, connections : Nat]
    /\ sSeen \in ServiceSeenType

Coming(kind) == kind \in uart.pending \/ \E e \in ToSet(events) : e.kind = kind
Given == svc.at # "stopped" /\ ~sSeen.lostEvent

(* The link is never left transmitting nothing: while tx_in_flight is set  *)
(* (service.hpp:849) the lease is with the UART, its TxComplete is on its  *)
(* way with the same handle, or the end of the connection is, which clears *)
(* the flag too (1517, 1558) - unless an event of the link was dropped.    *)
TxWillComplete ==
    Given /\ tx.inFlight =>
        \/ svc.at = "hand"
        \/ uart.tx = tx.handle
        \/ "TxComplete" \in uart.pending /\ uart.completed = tx.handle
        \/ Event("TxComplete", tx.handle) \in ToSet(events)
        \/ Coming("Fault") \/ Coming("Disconnected")

(* Reception is never left paused: while a received frame holds the RX     *)
(* storage, the RxReady that leads to release_rx is on its way (1533-1549) *)
(* - unless an event of the link was dropped.                              *)
RxWillBeReleased == Given /\ uart.rx => Coming("RxReady")

(* tx_encoded is not written to while the UART sends from it, as long as   *)
(* the session is the one the frame was sent in: a completion only frees   *)
(* the storage under its own handle (1553-1559).                           *)
StorageKept == TRUE \notin sSeen.overwritten

(* What either side puts together from fragments is one message, complete  *)
(* and in order, whatever frames were lost, replaced or came too late      *)
(* (reassemble, 1203-1291; Reassembler.push, client.py:126-186).           *)
MessagesWhole == ~sSeen.broken

(* The last value of a stream is never the one that is lost: it is in its  *)
(* lane, being sent, or has been heard (transmit, 716-724, replaces the    *)
(* newest value of a full lane).  With a lane of one slot the value handed *)
(* to the UART is still in the lane when a newer one replaces it, and that *)
(* one is removed in its place (856-859).                                  *)
NewestKept ==
    (sSeen.newest # 0 /\ connected /\ host.state = "open" /\ sDesign.lane > 1
        /\ Given /\ ~sDesign.lossy /\ ~sDesign.failing /\ ~Coming("Disconnected"))
    => \/ \E f \in ToSet(lanes["telemetry"]) : f.msg = sSeen.newest
       \/ uart.tx # 0 /\ uart.leased.frame.msg = sSeen.newest
       \/ host.last = sSeen.newest

Quiet == events = <<>> /\ wire = <<>> /\ ~uart.rx /\ uart.pending = {}

(* A host that holds its session to be active is not mistaken: once        *)
(* nothing is on its way the firmware's session is active with the same    *)
(* epoch (ClientHello, 1310-1323; Client.feed, client.py:268-297).         *)
HostAgrees ==
    (host.active /\ Quiet /\ Given /\ ~sDesign.lossy /\ sSession # "Faulted")
    => sSession = "Active" /\ host.epoch = sEpoch

(* Fragments do not end the host's session: while the link loses nothing   *)
(* and stays connected, the host has a slot for every message sent in      *)
(* fragments - unless one was replaced half way, whose slot it keeps.      *)
HostKept ==
    host.state = "closed" =>
        \/ sSeen.orphans \/ sDesign.lossy \/ sDesign.expiring
        \/ made.connections > 1 \/ "reset" \in sDesign.asks

(* What waits in a lane is sent while the link is connected, even when the *)
(* Output event for it did not fit the queue: drain_outputs (1637-1641)    *)
(* tries after every event and every 50 ms.                                *)
OutputSent ==
    (connected /\ Waiting(lanes) # {})
    ~> (Waiting(lanes) = {} \/ ~connected \/ ~Given \/ sDesign.failing)

(* A host that opens the link is greeted, answers and becomes active, or   *)
(* its end of the link goes away.                                          *)
Negotiated ==
    host.state = "open"
    ~> (host.active \/ host.state # "open" \/ ~Given \/ sDesign.lossy \/ sDesign.failing)

(* tx_encoded is not written to while the UART sends from it, whatever     *)
(* happens to the connection: the lease ends with TxComplete or a fault.   *)
TxStorageLeased == sSeen.overwritten = {}

(* The UART and the service never wait for one another: what is in flight  *)
(* completes, what is received is released, and storage the UART sends     *)
(* from is left alone.                                                     *)
LinkSound == ServiceTypeOK /\ TxWillComplete /\ RxWillBeReleased /\ StorageKept

(* Both ends agree: on messages put together from fragments, on the newest *)
(* value of a stream, on the session and on its end.                       *)
EndsAgree == MessagesWhole /\ NewestKept /\ HostAgrees /\ HostKept

(* What waits is sent, and a host that opens the link gets its session.    *)
LinkServes == OutputSent /\ Negotiated

=============================================================================
