---------------------------- MODULE RemoteStreams ----------------------------
(***************************************************************************)
(* The inbound stream of one Remote Data endpoint: open_in_stream,         *)
(* execute_in_stream_frame, run_pending_in_stream and close_in_stream_link *)
(* of remote/runtime.hpp, and InboundStream of the SDK (session.py,        *)
(* client.py) at the other end of every link.                              *)
(*                                                                         *)
(* The service thread handles the frames of all links.  The consumer runs  *)
(* on the service thread (Inline), or on a work item of its own; then the  *)
(* OnOpen and OnClose callbacks run there too and the service thread waits *)
(* for them.  A step is a section under InStreamState::lock, or what a     *)
(* thread does between two of those.                                       *)
(***************************************************************************)
EXTENDS Integers, Sequences, FiniteSets, SequencesExt, FiniteSetsExt

CONSTANT StreamDesigns          \* the systems to consider

StreamDesignType ==
    [links : Nat \ {0},
     window : Nat \ {0},        \* ReliableWindow<N>
     inline : BOOLEAN,          \* the Execution is Inline
     callbacks : BOOLEAN,       \* the stream has OnOpen and OnClose
     group : {"none", "reject", "replace"},     \* Exclusive, and its behaviour
     opens : Nat,               \* streams all hosts open
     samples : Nat,             \* samples all hosts send
     closes : BOOLEAN,          \* hosts close their streams
     refuses : BOOLEAN,         \* OnOpen may fail
     rated : BOOLEAN,           \* samples may come too fast
     full : BOOLEAN,            \* lanes and responses may be full
     drops : Nat,               \* connections that break
     stops : BOOLEAN]           \* the work item's admission may close

ASSUME StreamAssumption == StreamDesigns \subseteq StreamDesignType

VARIABLES
    rDesign,    \* the system
    stream,     \* InStreamState: active, token, generation, credits, last_sequence
    slots,      \* InStreamState::slots
    tokens,     \* InStreamTokenState::next, less one
    op,         \* InStreamState::lifecycle_operation and its context
    done,       \* InStreamState::lifecycle_done and lifecycle_result
    item,       \* the work item: queued, and whether it is accepted
    worker,     \* where run_pending_in_stream is
    thread,     \* where the service thread is
    online,     \* LinkState::session is Active
    output,     \* LinkState::lanes, the ones a stream uses
    input,      \* frames of the hosts on their way
    client,     \* the session of every host
    load,       \* streams opened, samples sent and connections broken so far
    known       \* what the properties need to remember (KnownType)

ingress == <<stream, slots>>
lifecycle == <<op, done>>
streamVars == <<rDesign, ingress, tokens, lifecycle, item, worker, thread, online, output, input,
                client, load, known>>

Links == 1..rDesign.links
Window == 1..rDesign.window
Tokens == 0..rDesign.opens

Free == [state |-> "Free", token |-> 0, generation |-> 0, seq |-> 0]
NoOp == [kind |-> "None", link |-> 0, token |-> 0]
Asleep == [at |-> "idle", link |-> 0, slot |-> 0, token |-> 0, generation |-> 0, seq |-> 0,
           op |-> NoOp]
Idle == [at |-> "idle", link |-> 0, token |-> 0, op |-> "None", closing |-> <<>>,
         notify |-> FALSE, then |-> "idle", seq |-> 0, generation |-> 0, ok |-> TRUE]
NoLanes == [control |-> <<>>, response |-> <<>>, important |-> <<>>]
NewClient(up) == [up |-> up, phase |-> "idle", token |-> 0, answer |-> 0,
                  credits |-> [t \in Tokens |-> 0], missed |-> FALSE]

Msg(kind, token, n) == [kind |-> kind, token |-> token, n |-> n]
At(where) == [thread EXCEPT !.at = where]

-----------------------------------------------------------------------------
(* Output and the operations the threads share *)

(* transmit: a full lane loses the frame *)
Sent(l, lane, m) == [output EXCEPT ![l][lane] = Append(@, m)]
Transmit(l, lane, m) ==
    \/ output' = Sent(l, lane, m) /\ known' = known
    \/ rDesign.full /\ output' = output /\ known' = [known EXCEPT !.lost = TRUE]

(* send_in_stream_credit reads the token of the moment *)
SendCredit(l) ==
    IF stream[l].active
    THEN Transmit(l, "control", Msg("Credit", stream[l].token, 1))
    ELSE UNCHANGED <<output, known>>

Current(l, token, generation) ==
    stream[l].active /\ stream[l].token = token /\ stream[l].generation = generation

(* The locked part of return_in_stream_credit *)
ReturnCredit(l, token, generation) ==
    stream' = IF online[l] /\ Current(l, token, generation)
              THEN [stream EXCEPT ![l].credits = @ + 1] ELSE stream
Returned(l, token, generation) == online[l] /\ Current(l, token, generation)

(* submit_registration: a refused one leaves the item as it is *)
Submit == item.accepting /\ item' = [item EXCEPT !.queued = TRUE]

(* The stream's admission may close while the service thread still runs *)
CloseAdmission ==
    /\ rDesign.stops /\ item.accepting
    /\ item' = [item EXCEPT !.accepting = FALSE]
    /\ UNCHANGED <<rDesign, ingress, tokens, lifecycle, worker, thread, online, output, input,
                   client, load, known>>

-----------------------------------------------------------------------------
(* close_in_stream_link, a subroutine of the service thread: thread.closing
   are the links still to close, thread.then is where it returns to *)

(* Only an active stream is closed *)
Active(ls) == SelectSeq(ls, LAMBDA l : stream[l].active)
Close(l, ls, notify, then) ==
    [Idle EXCEPT !.link = l, !.closing = Active(ls), !.notify = notify, !.then = then,
                 !.at = IF Active(ls) = <<>> THEN then ELSE "close"]

(* Slots that wait are dropped, a running one keeps its slot *)
Dropped(l) == [i \in Window |-> IF slots[l][i].state = "Pending" THEN Free ELSE slots[l][i]]

Calls(notify) == rDesign.callbacks

CloseSection ==
    /\ thread.at = "close"
    /\ LET l == Head(thread.closing) IN
       /\ stream' = [stream EXCEPT ![l] = [active |-> FALSE, token |-> 0, credits |-> 0, last |-> 0,
                                           generation |-> @.generation + 1]]
       /\ slots' = [slots EXCEPT ![l] = Dropped(l)]
       /\ thread' = [thread EXCEPT !.token = stream[l].token, !.op = "Close",
                                   !.at = IF Calls(thread.notify) THEN "call" ELSE "closed"]
    /\ UNCHANGED <<rDesign, tokens, lifecycle, item, worker, online, output, input, client, load,
                   known>>

Tells(l) == thread.notify

(* send_in_stream_closed, and the next link *)
Closed ==
    /\ thread.at = "closed"
    /\ LET l == Head(thread.closing)
           rest == Tail(thread.closing)
       IN
       /\ IF Tells(l) THEN Transmit(l, "important", Msg("Closed", thread.token, 0))
                     ELSE UNCHANGED <<output, known>>
       /\ thread' = [thread EXCEPT !.closing = rest, !.token = 0, !.op = "None",
                                   !.at = IF rest = <<>> THEN thread.then ELSE "close"]
    /\ UNCHANGED <<rDesign, ingress, tokens, lifecycle, item, worker, online, input, client, load>>

-----------------------------------------------------------------------------
(* The callbacks: execute_in_stream_open_lifecycle and ..._close_lifecycle *)

(* Where the service thread goes on *)
After(kind) == IF kind = "Open" THEN "opened" ELSE "closed"
CallLink == IF thread.op = "Open" THEN thread.link ELSE Head(thread.closing)

(* invoke_in_stream_open, invoke_in_stream_close *)
Called(kind, token) ==
    known' = IF kind = "Open" THEN [known EXCEPT !.opened = @ \cup {token}]
                              ELSE [known EXCEPT !.closed = @ \cup {token}]
Outcomes(kind) == IF kind = "Open" /\ rDesign.refuses THEN BOOLEAN ELSE {TRUE}

CallsHere == rDesign.inline

(* Inline: here and now *)
CallInline ==
    /\ thread.at = "call" /\ CallsHere
    /\ Called(thread.op, thread.token)
    /\ \E ok \in Outcomes(thread.op) :
          thread' = [thread EXCEPT !.at = After(thread.op), !.ok = ok]
    /\ UNCHANGED <<rDesign, ingress, tokens, lifecycle, item, worker, online, output, input,
                   client, load>>

(* The request to the work item: the semaphore is reset first.  No         *)
(* operation is under way: this thread waits for each.                     *)
RequestCall ==
    /\ thread.at = "call" /\ ~CallsHere /\ op = NoOp
    /\ op' = [kind |-> thread.op, link |-> CallLink, token |-> thread.token]
    /\ thread' = At("submit")
    /\ done' = [done EXCEPT !.given = FALSE]
    /\ UNCHANGED <<rDesign, ingress, tokens, item, worker, online, output, input, client, load,
                   known>>

SubmitCall ==
    /\ thread.at = "submit"
    /\ \/ Submit /\ thread' = At("wait") /\ UNCHANGED op
       \/ /\ ~item.accepting /\ op' = NoOp
          /\ thread' = [thread EXCEPT !.at = After(thread.op), !.ok = FALSE]
          /\ UNCHANGED item
    /\ UNCHANGED <<rDesign, ingress, tokens, done, worker, online, output, input, client, load,
                   known>>

(* lifecycle_done.take *)
Answered ==
    /\ thread.at = "wait" /\ done.given
    /\ done' = [done EXCEPT !.given = FALSE]
    /\ thread' = [thread EXCEPT !.at = After(thread.op), !.ok = done.result]
    /\ UNCHANGED <<rDesign, ingress, tokens, op, item, worker, online, output, input, client, load,
                   known>>

-----------------------------------------------------------------------------
(* The service thread: the frames of a link *)

Ready(l, kind) == thread.at = "idle" /\ input[l] # <<>> /\ Head(input[l]).kind = kind
Read(l) == input' = [input EXCEPT ![l] = Tail(@)]

(* in_stream_group_is_active *)
GroupActive(l) == \E k \in Links : stream[k].active

(* What an opening closes first: close_in_stream_group, or the link's own *)
Replaced(l) == IF rDesign.group = "replace" THEN [k \in Links |-> k]
               ELSE IF rDesign.group = "none" THEN <<l>> ELSE <<>>

(* open_in_stream, up to the closing of what it replaces *)
OpenStream(l) ==
    /\ Ready(l, "open") /\ Read(l)
    /\ IF rDesign.group = "reject" /\ GroupActive(l)
       THEN thread' = [Idle EXCEPT !.link = l, !.at = "error"]
       ELSE thread' = Close(l, Replaced(l), TRUE, "activate")
    /\ UNCHANGED <<rDesign, ingress, tokens, lifecycle, item, worker, online, output, client, load,
                   known>>

(* Bug: a slot the consumer still holds is counted *)
CreditsAll(l) == rDesign.window
(* The credits of a new stream: the free slots *)
CreditsFree(l) == Cardinality({i \in Window : slots[l][i].state = "Free"})

NextToken == tokens + 1

Activate ==
    /\ thread.at = "activate"
    /\ tokens' = NextToken
    /\ LET l == thread.link
           credits == CreditsFree(l)
       IN
       /\ stream' = [stream EXCEPT ![l] = [active |-> TRUE, token |-> NextToken, last |-> 0,
                                           credits |-> credits, generation |-> @.generation + 1]]
       /\ known' = [known EXCEPT
             !.short = @ \cup (IF credits < rDesign.window THEN {NextToken} ELSE {}),
             !.crossed = @ \/ (worker.at = "grant" /\ worker.link = l)]
    /\ thread' = [thread EXCEPT !.token = NextToken, !.op = "Open",
                                !.at = IF rDesign.callbacks THEN "call" ELSE "opened"]
    /\ UNCHANGED <<rDesign, slots, lifecycle, item, worker, online, output, input, client, load>>

(* OnOpen has returned: the host is answered, or the stream is closed again *)
Opened ==
    /\ thread.at = "opened"
    /\ thread' = IF thread.ok THEN At("respond")
                 ELSE Close(thread.link, <<thread.link>>, TRUE, "error")
    /\ UNCHANGED <<rDesign, ingress, tokens, lifecycle, item, worker, online, output, input, client,
                   load, known>>

(* respond and stage_response: no response slot closes the stream again *)
RespondOpen ==
    /\ thread.at = "respond"
    /\ \/ /\ output' = Sent(thread.link, "response", Msg("Opened", thread.token, 0))
          /\ thread' = At("credit")
       \/ /\ rDesign.full /\ UNCHANGED output
          /\ thread' = Close(thread.link, <<thread.link>>, TRUE, "error")
    /\ UNCHANGED <<rDesign, ingress, tokens, lifecycle, item, worker, online, input, client, load,
                   known>>

(* The first credits follow the response in its lane *)
GrantFirst ==
    /\ thread.at = "credit" /\ thread' = Idle
    /\ LET s == stream[thread.link] IN
       IF s.credits > 0 /\ s.active
       THEN Transmit(thread.link, "response", Msg("Credit", s.token, s.credits))
       ELSE UNCHANGED <<output, known>>
    /\ UNCHANGED <<rDesign, ingress, tokens, lifecycle, item, worker, online, input, client, load>>

(* protocol_error for a request *)
ReplyError ==
    /\ thread.at = "error" /\ thread' = Idle
    /\ output' = Sent(thread.link, "response", Msg("Error", 0, 0))
    /\ UNCHANGED <<rDesign, ingress, tokens, lifecycle, item, worker, online, input, client, load,
                   known>>

(* process_in_stream_subscription_for, to close *)
CloseStream(l) ==
    /\ Ready(l, "close") /\ Read(l)
    /\ thread' = IF stream[l].active /\ stream[l].token = Head(input[l]).token
                 THEN Close(l, <<l>>, FALSE, "reply")
                 ELSE [Idle EXCEPT !.link = l, !.at = "error"]
    /\ UNCHANGED <<rDesign, ingress, tokens, lifecycle, item, worker, online, output, client, load,
                   known>>

ReplyClosed ==
    /\ thread.at = "reply" /\ thread' = Idle
    /\ output' = Sent(thread.link, "response", Msg("Done", 0, 0))
    /\ UNCHANGED <<rDesign, ingress, tokens, lifecycle, item, worker, online, input, client, load,
                   known>>

-----------------------------------------------------------------------------
(* A sample: execute_in_stream_frame *)

FreeSlots(l) == {i \in Window : slots[l][i].state = "Free"}
Valid(l, m) ==
    /\ stream[l].active /\ stream[l].token = m.token
    /\ stream[l].credits > 0 /\ m.n > stream[l].last

(* A refused sample: the host hears an error that names no request *)
Reject(l) ==
    /\ Ready(l, "data") /\ Read(l)
    /\ ~Valid(l, Head(input[l])) \/ FreeSlots(l) = {}
    /\ UNCHANGED <<rDesign, ingress, tokens, lifecycle, item, worker, thread, online, output,
                   client, load, known>>

(* Bug: the credit the host spent is not given back *)
RestoreNone(l, token) == UNCHANGED <<output, known>>
(* restore_in_stream_credit: a sample that came too fast keeps its credit *)
Restore(l, token) == Transmit(l, "control", Msg("Credit", token, 1))

RejectRate(l) ==
    /\ Ready(l, "data") /\ Read(l)
    /\ rDesign.rated /\ Valid(l, Head(input[l])) /\ stream[l].last # 0
    /\ Restore(l, Head(input[l]).token)
    /\ UNCHANGED <<rDesign, ingress, tokens, lifecycle, item, worker, thread, online, client, load>>

Spent(l, m) == [stream EXCEPT ![l].last = m.n, ![l].credits = @ - 1]

Admit(l) ==
    /\ Ready(l, "data") /\ Read(l)
    /\ Valid(l, Head(input[l])) /\ FreeSlots(l) # {}
    /\ LET m == Head(input[l])
           s == stream[l]
       IN
       /\ stream' = Spent(l, m)
       /\ slots' = [slots EXCEPT ![l][Min(FreeSlots(l))] =
             [state |-> "Pending", token |-> m.token, generation |-> s.generation, seq |-> m.n]]
       /\ thread' = [Idle EXCEPT !.link = l, !.token = m.token, !.generation = s.generation,
                                 !.seq = m.n, !.at = IF rDesign.inline THEN "running" ELSE "enqueue"]
    /\ worker' = IF rDesign.inline THEN [Asleep EXCEPT !.at = "take"] ELSE worker
    /\ UNCHANGED <<rDesign, tokens, lifecycle, item, online, output, client, load, known>>

(* The consumer's work item, and the way back when it is refused *)
Enqueue ==
    /\ thread.at = "enqueue"
    /\ \/ Submit /\ thread' = Idle /\ UNCHANGED slots
       \/ /\ ~item.accepting /\ UNCHANGED item
          /\ slots' = [slots EXCEPT ![thread.link] = [i \in Window |->
                IF @[i].state = "Pending" /\ @[i].seq = thread.seq THEN Free ELSE @[i]]]
          /\ thread' = At("refuse")
    /\ UNCHANGED <<rDesign, stream, tokens, lifecycle, worker, online, output, input, client, load,
                   known>>

RefuseReturn ==
    /\ thread.at = "refuse"
    /\ ReturnCredit(thread.link, thread.token, thread.generation)
    /\ thread' = IF Returned(thread.link, thread.token, thread.generation)
                 THEN At("regrant") ELSE Idle
    /\ UNCHANGED <<rDesign, slots, tokens, lifecycle, item, worker, online, output, input, client,
                   load, known>>

RefuseGrant ==
    /\ thread.at = "regrant" /\ thread' = Idle
    /\ SendCredit(thread.link)
    /\ UNCHANGED <<rDesign, ingress, tokens, lifecycle, item, worker, online, input, client, load>>

-----------------------------------------------------------------------------
(* process_in_stream_work: callbacks, samples, callbacks *)

StartWork ==
    /\ ~rDesign.inline /\ item.queued /\ worker.at = "idle"
    /\ item' = [item EXCEPT !.queued = FALSE]
    /\ worker' = [Asleep EXCEPT !.at = "first"]
    /\ UNCHANGED <<rDesign, ingress, tokens, lifecycle, thread, online, output, input, client, load,
                   known>>

AfterCall == IF worker.at \in {"first", "call first"} THEN [Asleep EXCEPT !.at = "take"] ELSE Asleep

(* run_in_stream_lifecycle takes the operation, *)
TakeOp ==
    /\ worker.at \in {"first", "last"}
    /\ IF op = NoOp THEN worker' = AfterCall /\ UNCHANGED op
       ELSE /\ op' = NoOp
            /\ worker' = [worker EXCEPT !.op = op,
                                        !.at = IF @ = "first" THEN "call first" ELSE "call last"]
    /\ UNCHANGED <<rDesign, ingress, tokens, done, item, thread, online, output, input, client,
                   load, known>>

(* calls it back and tells the service thread *)
CallBack ==
    /\ worker.at \in {"call first", "call last"}
    /\ Called(worker.op.kind, worker.op.token)
    /\ \E ok \in Outcomes(worker.op.kind) : done' = [given |-> TRUE, result |-> ok]
    /\ worker' = AfterCall
    /\ UNCHANGED <<rDesign, ingress, tokens, op, item, thread, online, output, input, client, load>>

(* run_pending_in_stream: the first slot that waits, *)
PendingSlots == {<<l, i>> \in Links \X Window : slots[l][i].state = "Pending"}
FirstSlot == CHOOSE p \in PendingSlots :
    \A q \in PendingSlots : p[1] < q[1] \/ (p[1] = q[1] /\ p[2] <= q[2])

TakeSample ==
    /\ worker.at = "take"
    /\ \/ /\ PendingSlots # {}
          /\ LET p == FirstSlot
                 s == slots[p[1]][p[2]]
             IN
             /\ slots' = [slots EXCEPT ![p[1]][p[2]].state = "Running"]
             /\ worker' = [Asleep EXCEPT !.at = "check", !.link = p[1], !.slot = p[2],
                              !.token = s.token, !.generation = s.generation, !.seq = s.seq]
          /\ UNCHANGED thread
       \/ /\ PendingSlots = {} /\ UNCHANGED slots
          /\ worker' = IF rDesign.inline THEN Asleep ELSE [Asleep EXCEPT !.at = "last"]
          /\ thread' = IF rDesign.inline THEN Idle ELSE thread
    /\ UNCHANGED <<rDesign, stream, tokens, lifecycle, item, online, output, input, client, load,
                   known>>

(* a sample of a stream that is gone is not consumed, *)
CheckSample ==
    /\ worker.at = "check"
    /\ worker' = [worker EXCEPT !.at =
          IF Current(worker.link, worker.token, worker.generation) THEN "consume" ELSE "free"]
    /\ UNCHANGED <<rDesign, ingress, tokens, lifecycle, item, thread, online, output, input, client,
                   load, known>>

(* invoke_in_stream_consumer *)
Consume ==
    /\ worker.at = "consume"
    /\ worker' = [worker EXCEPT !.at = "free"]
    /\ known' = [known EXCEPT !.last = [@ EXCEPT ![worker.token] = worker.seq]]
    /\ UNCHANGED <<rDesign, ingress, tokens, lifecycle, item, thread, online, output, input, client,
                   load>>

FreeSlot ==
    /\ worker.at = "free"
    /\ slots' = [slots EXCEPT ![worker.link][worker.slot] = Free]
    /\ worker' = [worker EXCEPT !.at = "return"]
    /\ UNCHANGED <<rDesign, stream, tokens, lifecycle, item, thread, online, output, input, client,
                   load, known>>

(* and the credit goes back: counted under the lock, *)
ReturnSlot ==
    /\ worker.at = "return"
    /\ ReturnCredit(worker.link, worker.token, worker.generation)
    /\ worker' = IF Returned(worker.link, worker.token, worker.generation)
                 THEN [worker EXCEPT !.at = "grant"] ELSE [Asleep EXCEPT !.at = "take"]
    /\ UNCHANGED <<rDesign, slots, tokens, lifecycle, item, thread, online, output, input, client,
                   load, known>>

(* then sent *)
GrantSlot ==
    /\ worker.at = "grant" /\ worker' = [Asleep EXCEPT !.at = "take"]
    /\ SendCredit(worker.link)
    /\ UNCHANGED <<rDesign, ingress, tokens, lifecycle, item, thread, online, input, client, load>>

-----------------------------------------------------------------------------
(* A connection breaks: process_link_event *)

BreakConnection(l) ==
    /\ thread.at = "idle" /\ online[l] /\ load.drops < rDesign.drops
    /\ load' = [load EXCEPT !.drops = @ + 1]
    /\ client' = [client EXCEPT ![l] = NewClient(FALSE)]
    /\ input' = [input EXCEPT ![l] = <<>>]
    /\ thread' = Close(l, <<l>>, FALSE, "offline")
    /\ UNCHANGED <<rDesign, ingress, tokens, lifecycle, item, worker, online, output, known>>

Offline ==
    /\ thread.at = "offline" /\ thread' = Idle
    /\ online' = [online EXCEPT ![thread.link] = FALSE]
    /\ output' = [output EXCEPT ![thread.link] = NoLanes]
    /\ UNCHANGED <<rDesign, ingress, tokens, lifecycle, item, worker, input, client, load, known>>

(* Connected and the hellos: the lanes are cleared again *)
Reconnect(l) ==
    /\ thread.at = "idle" /\ ~online[l]
    /\ online' = [online EXCEPT ![l] = TRUE]
    /\ output' = [output EXCEPT ![l] = NoLanes]
    /\ client' = [client EXCEPT ![l] = NewClient(TRUE)]
    /\ UNCHANGED <<rDesign, ingress, tokens, lifecycle, item, worker, thread, input, load, known>>

-----------------------------------------------------------------------------
(* The hosts: InboundStream, AsyncSession and Client *)

Sending(l, m) == input' = [input EXCEPT ![l] = Append(@, m)]

(* InboundStream.open: subscribe, and wait for the answer *)
HostOpen(l) ==
    /\ client[l].up /\ client[l].phase = "idle" /\ load.opens < rDesign.opens
    /\ load' = [load EXCEPT !.opens = @ + 1]
    /\ client' = [client EXCEPT ![l].phase = "opening"]
    /\ Sending(l, Msg("open", 0, 0))
    /\ UNCHANGED <<rDesign, ingress, tokens, lifecycle, item, worker, thread, online, output, known>>

(* Its coroutine resumes: from here on the stream hears of its closing *)
HostOpened(l) ==
    /\ client[l].phase = "resuming"
    /\ client' = [client EXCEPT ![l].phase = "idle", ![l].token = client[l].answer, ![l].answer = 0]
    /\ UNCHANGED <<rDesign, ingress, tokens, lifecycle, item, worker, thread, online, output, input,
                   load, known>>

HostSpends(l) == [client EXCEPT ![l].credits[client[l].token] = @ - 1]

(* InboundStream.send, send_stream *)
HostSend(l) ==
    /\ client[l].token # 0 /\ client[l].credits[client[l].token] > 0
    /\ load.samples < rDesign.samples
    /\ load' = [load EXCEPT !.samples = @ + 1]
    /\ client' = HostSpends(l)
    /\ Sending(l, Msg("data", client[l].token, load.samples + 1))
    /\ UNCHANGED <<rDesign, ingress, tokens, lifecycle, item, worker, thread, online, output, known>>

(* InboundStream.aclose *)
HostClose(l) ==
    /\ rDesign.closes /\ client[l].token # 0 /\ client[l].phase = "idle"
    /\ client' = [client EXCEPT ![l].phase = "closing"]
    /\ Sending(l, Msg("close", client[l].token, 0))
    /\ UNCHANGED <<rDesign, ingress, tokens, lifecycle, item, worker, thread, online, output, load,
                   known>>

(* What a message does to the session: Client.feed and _read_loop *)
Forget(c, token) == [c EXCEPT !.credits[token] = 0, !.token = IF @ = token THEN 0 ELSE @]
Heard(c, m) ==
    CASE m.kind = "Opened" -> [c EXCEPT !.phase = "resuming", !.answer = m.token]
      [] m.kind = "Credit" -> [c EXCEPT !.credits[m.token] = @ + m.n]
      [] m.kind = "Closed" ->
            [Forget(c, m.token) EXCEPT !.missed = @ \/ (c.phase = "resuming" /\ c.answer = m.token)]
      [] m.kind \in {"Error", "Done"} ->
            IF c.phase = "closing" THEN [Forget(c, c.token) EXCEPT !.phase = "idle"]
                                   ELSE [c EXCEPT !.phase = "idle"]

(* The next frame of the highest lane reaches the host *)
FullLanes(l) == {lane \in DOMAIN NoLanes : output[l][lane] # <<>>}
Highest(ls) == IF "control" \in ls THEN "control"
               ELSE IF "response" \in ls THEN "response" ELSE "important"
Deliver(l) ==
    /\ online[l] /\ client[l].up /\ FullLanes(l) # {}
    /\ LET lane == Highest(FullLanes(l)) IN
       /\ client' = [client EXCEPT ![l] = Heard(@, Head(output[l][lane]))]
       /\ output' = [output EXCEPT ![l][lane] = Tail(@)]
    /\ UNCHANGED <<rDesign, ingress, tokens, lifecycle, item, worker, thread, online, input, load,
                   known>>

-----------------------------------------------------------------------------
StreamInit ==
    /\ rDesign \in StreamDesigns
    /\ stream = [l \in Links |-> [active |-> FALSE, token |-> 0, generation |-> 0, credits |-> 0,
                                  last |-> 0]]
    /\ slots = [l \in Links |-> [i \in Window |-> Free]]
    /\ tokens = 0
    /\ op = NoOp /\ done = [given |-> FALSE, result |-> TRUE]
    /\ item = [queued |-> FALSE, accepting |-> TRUE]
    /\ worker = Asleep /\ thread = Idle
    /\ online = [l \in Links |-> TRUE]
    /\ output = [l \in Links |-> NoLanes]
    /\ input = [l \in Links |-> <<>>]
    /\ client = [l \in Links |-> NewClient(TRUE)]
    /\ load = [opens |-> 0, samples |-> 0, drops |-> 0]
    /\ known = [opened |-> {}, closed |-> {}, short |-> {}, last |-> [t \in Tokens |-> 0],
                crossed |-> FALSE, lost |-> FALSE]

ServiceStep ==
    \/ CloseSection \/ Closed \/ CallInline \/ RequestCall \/ SubmitCall \/ Answered
    \/ Activate \/ Opened \/ RespondOpen \/ GrantFirst \/ ReplyError \/ ReplyClosed
    \/ Enqueue \/ RefuseReturn \/ RefuseGrant \/ Offline
    \/ \E l \in Links : \/ OpenStream(l) \/ CloseStream(l) \/ Reject(l) \/ RejectRate(l) \/ Admit(l)
                        \/ Reconnect(l)
WorkerStep ==
    \/ StartWork \/ TakeOp \/ CallBack \/ TakeSample \/ CheckSample \/ Consume \/ FreeSlot
    \/ ReturnSlot \/ GrantSlot
HostStep == \E l \in Links : Deliver(l) \/ HostOpened(l)
HostAct == \E l \in Links : HostOpen(l) \/ HostSend(l) \/ HostClose(l) \/ BreakConnection(l)

(* Nothing is left to do *)
StreamsRest ==
    /\ thread.at = "idle" /\ worker.at = "idle" /\ ~item.queued
    /\ \A l \in Links : online[l] /\ input[l] = <<>> /\ FullLanes(l) = {} /\ client[l].phase = "idle"
    /\ UNCHANGED streamVars

StreamNext == ServiceStep \/ WorkerStep \/ HostStep \/ HostAct \/ CloseAdmission \/ StreamsRest

(* The service thread and the work queue run when they have something to   *)
(* do, and the host reads what comes; what it opens, sends and closes is   *)
(* its own affair.                                                         *)
StreamFairness ==
    WF_streamVars(ServiceStep) /\ WF_streamVars(WorkerStep) /\ WF_streamVars(HostStep)

StreamSpec == StreamInit /\ [][StreamNext]_streamVars /\ StreamFairness

-----------------------------------------------------------------------------
(* Properties *)

KnownType ==
    [opened : SUBSET Tokens,        \* tokens OnOpen has been called for
     closed : SUBSET Tokens,        \* tokens OnClose has been called for
     short : SUBSET Tokens,         \* tokens opened while the consumer held a slot
     last : [Tokens -> Nat],        \* the last sample consumed, of every token
     crossed : BOOLEAN,             \* a stream was opened before the credit of an old one was sent
     lost : BOOLEAN]                \* a frame did not fit its lane

(* Every variable stays within its type.                                   *)
StreamTypeOK ==
    /\ rDesign \in StreamDesigns
    /\ \A l \in Links :
        /\ stream[l] \in [active : BOOLEAN, token : Tokens, generation : Nat, last : Nat,
                          credits : Nat]
        /\ \A i \in Window : slots[l][i] \in
              [state : {"Free", "Pending", "Running"}, token : Tokens, generation : Nat, seq : Nat]
        /\ client[l].token \in Tokens /\ client[l].answer \in Tokens
        /\ client[l].credits \in [Tokens -> Nat]
        /\ client[l].phase \in {"idle", "opening", "resuming", "closing"}
    /\ op.kind \in {"None", "Open", "Close"} /\ done \in [given : BOOLEAN, result : BOOLEAN]
    /\ item \in [queued : BOOLEAN, accepting : BOOLEAN]
    /\ known \in KnownType

(* A credit stands for a free slot: the credits of an open stream and the  *)
(* slots in use never exceed its window, so a sample that has a credit has *)
(* a slot (open_in_stream counts the free slots, execute_in_stream_frame   *)
(* and return_in_stream_credit move one at a time).  (Once the work item   *)
(* is refused, a sample that an earlier pass has taken is credited twice.) *)
CreditsHaveSlots ==
    item.accepting => \A l \in Links : stream[l].active =>
        stream[l].credits + Cardinality({i \in Window : slots[l][i].state # "Free"})
            <= rDesign.window

(* What a host may still send, has sent or will be allowed to send of the  *)
(* open stream is covered by the firmware's credits: a host that keeps to  *)
(* its credits is never refused.  (Not so when a stream was opened while   *)
(* the credit of the old one was about to be sent: CreditNotTransferred.)  *)
Pending(l, t) ==
    LET frames == output[l].control \o output[l].response
        grants == SelectSeq(frames, LAMBDA m : m.kind = "Credit" /\ m.token = t)
        sent == SelectSeq(input[l], LAMBDA m : m.kind = "data" /\ m.token = t)
    IN FoldLeft(LAMBDA n, m : n + m.n, Len(sent), grants)
HostCreditsBacked ==
    item.accepting /\ ~known.crossed => \A l \in Links : LET t == stream[l].token IN
        stream[l].active => client[l].credits[t] + Pending(l, t) <= stream[l].credits

(* Credit from an old generation is never transferred to its replacement.  *)
CreditNotTransferred ==
    \A l \in Links : LET t == stream[l].token IN
        stream[l].active => client[l].credits[t] + Pending(l, t) <= stream[l].credits

(* The consumer never sees a sample of a stream whose OnClose has run, nor *)
(* one of a stream whose OnOpen has not: both run where the consumer does. *)
CalledBetween ==
    rDesign.callbacks /\ worker.at = "consume" =>
        worker.token \in known.opened \ known.closed

(* When the service thread is idle, every stream that is open has been     *)
(* announced by OnOpen, and every one that is not has been closed by       *)
(* OnClose, the ones that failed to open included.  (A work item that is   *)
(* no longer admitted is not called.)                                      *)
OpenTokens == {stream[l].token : l \in {k \in Links : stream[k].active}}
CallbacksPaired ==
    rDesign.callbacks /\ item.accepting /\ thread.at = "idle" =>
        known.opened \ known.closed = OpenTokens

(* ReliableWindow is ordered: the consumer sees the samples of a stream in *)
(* the order the host sent them.                                           *)
Ordered == worker.at = "consume" => worker.seq > known.last[worker.token]

(* The streams of an exclusive group exclude one another on all links.     *)
GroupExclusive ==
    rDesign.group # "none" => Cardinality({l \in Links : stream[l].active}) <= 1

(* The service thread, which waits for the callbacks without a deadline,   *)
(* always comes back to its events.                                        *)
ServiceReturns == (thread.at # "idle") ~> (thread.at = "idle")

(* Samples that have been admitted are consumed or dropped, and their      *)
(* slots are free again.                                                   *)
SlotsFreed ==
    (\E l \in Links : FreeSlots(l) # Window) ~> (\A l \in Links : FreeSlots(l) = Window)

(* The host of an open stream gets credit again after it has spent it.     *)
(* (Not one opened while the consumer held a slot, which is never          *)
(* credited, and not after a Credit frame was lost to a full lane.)        *)
Stalled(l) ==
    LET t == client[l].token IN
    /\ t # 0 /\ t \notin known.short /\ ~known.lost /\ item.accepting
    /\ stream[l].active /\ stream[l].token = t /\ client[l].credits[t] = 0
CreditComesBack == (\E l \in Links : Stalled(l)) ~> (\A l \in Links : ~Stalled(l))

(* A host learns that its stream is gone: its sender is not left waiting   *)
(* for credit.  (Not when the Closed frame was lost, or came before the    *)
(* coroutine that opened the stream resumed.)                              *)
Orphaned(l) ==
    /\ client[l].token # 0 /\ ~client[l].missed /\ ~known.lost
    /\ client[l].token # stream[l].token
ClosingHeard == (\E l \in Links : Orphaned(l)) ~> (\A l \in Links : ~Orphaned(l))

(* The flow control of inbound streams is exact, together: credits stand   *)
(* for free slots on both ends, callbacks and samples come in their order, *)
(* and exclusive streams exclude one another.                              *)
StreamsSound ==
    /\ StreamTypeOK /\ CreditsHaveSlots /\ HostCreditsBacked
    /\ CalledBetween /\ CallbacksPaired /\ GroupExclusive

(* No stream is stuck: the service thread returns, slots become free,      *)
(* credits come back and the end of a stream is heard.                     *)
StreamsProgress == ServiceReturns /\ SlotsFreed /\ CreditComesBack /\ ClosingHeard

=============================================================================
