---------------------------- MODULE RemoteRequests ----------------------------
(***************************************************************************)
(* Requests of the Remote facility (remote/runtime.hpp, the response cache *)
(* of remote/service.hpp) and the hosts that make them (the Python SDK's   *)
(* client.py and session.py): an Action, a Query or an Update is admitted  *)
(* by its identifier, given a response slot, run by the service thread, by *)
(* a work item or by the application through a Responder, and answered     *)
(* over the Response lane of the link it came from.                        *)
(*                                                                         *)
(* A step is a section under a lock, an atomic access or a handler.  The   *)
(* service thread handles a frame in one step, except that work items run  *)
(* between the store of a request and its submission, and while a session  *)
(* is being reset.                                                         *)
(***************************************************************************)
EXTENDS Integers, Sequences, FiniteSets, SequencesExt, FiniteSetsExt

CONSTANTS
    RequestDesigns,     \* the systems to consider
    Links               \* the links a system may have

Ops == {"action", "query", "update"}    \* what a request may ask for
Works == {"action", "data"}             \* the registrations that run them

(* A Data endpoint's Query and Update share one registration *)
OpsOf(w) == IF w = "action" THEN <<"action">> ELSE <<"query", "update">>
WorkOf(op) == IF op = "action" THEN "action" ELSE "data"

RequestDesignType ==
    [links : SUBSET Links,
     ops : SUBSET Ops,          \* what the catalog declares
     inline : SUBSET Ops,       \* with Execution = Inline
     async : BOOLEAN,           \* the Action takes a Responder
     slots : Nat \ {0},         \* CONFIG_SOLAR_REMOTE_MAX_REQUESTS
     lane : Nat \ {0},          \* CONFIG_SOLAR_REMOTE_OUTPUT_LANE_DEPTH
     ids : Nat,                 \* requests of a host in one session
     epochs : Nat,              \* sessions of one link
     failing : BOOLEAN,         \* submissions, decoders and encoders may fail
     lossy : BOOLEAN,           \* frames may be lost
     impatient : BOOLEAN,       \* hosts time out
     retrying : BOOLEAN]        \* hosts repeat a request

ASSUME RequestAssumption == RequestDesigns \subseteq RequestDesignType

VARIABLES
    qDesign,        \* the system
    session,        \* LinkState::session
    epoch,          \* LinkState::epoch
    lastId,         \* LinkState::last_request_id
    responses,      \* LinkState::responses
    lane,           \* the Response lane of LinkState::lanes
    pending,        \* PendingAction, PendingQuery, PendingUpdate
    async,          \* AsynchronousActionState
    active,         \* Facility::active_requests
    queued,         \* the registration's work item is queued
    worker,         \* the operation the work item is at, 0 when it is not running
    jobs,           \* the requests being executed or answered
    responders,     \* the Responders the application holds
    svc,            \* the service thread
    host,           \* Client::request_id, AsyncSession::_pending, responses to acknowledge
    qSeen           \* what the properties need to remember (RequestSeenType)

(* A request as its envelope names it *)
Envelopes == [link : Links, epoch : Nat, id : Nat \ {0}, op : Ops]
Nothing == [link |-> "none"]

(* Where an execution is: `who' is a registration or the application       *)
Steps == {"run", "check", "respond", "abandon", "end"}

Answer(k, r) == [kind |-> k, id |-> r.id, of |-> r]
FreeSlot == [state |-> "free"]

sessionVars == <<session, epoch, lastId, responses, lane>>
executionVars == <<pending, async, active, queued, worker, jobs, responders>>
requestVars == <<qDesign, sessionVars, executionVars, svc, host, qSeen>>

Idle == [at |-> "idle"]
NewHost == [next |-> 0, waiting |-> {}, acks |-> {}]

-----------------------------------------------------------------------------
(* ResponseSlot: the first slot that serves *)

Held(rs, id) == {i \in DOMAIN rs : rs[i].state # "free" /\ rs[i].id = id}
Valid(rs, id) == {i \in Held(rs, id) : rs[i].state = "valid"}
Free(rs) == {i \in DOMAIN rs : rs[i].state = "free"}

Reservable(rs, id) == Held(rs, id) # {} \/ Free(rs) # {}

Reserved(rs, id) ==
    IF Held(rs, id) # {} THEN rs
    ELSE [rs EXCEPT ![Min(Free(rs))] = [state |-> "reserved", id |-> id]]

ReleasedNot(rs, id) == rs   \* bug: the slot of a request that is turned down stays taken

Released(rs, id) ==
    IF Held(rs, id) = {} THEN rs ELSE [rs EXCEPT ![Min(Held(rs, id))] = FreeSlot]

(* respond: without a slot of its own a request takes any that is not      *)
(* valid, be it reserved for another                                       *)
AnswerSlots(rs, id) ==
    IF Held(rs, id) # {} THEN Held(rs, id) ELSE {i \in DOMAIN rs : rs[i].state # "valid"}

(* Bug: the answer counts as sent when it is stored *)
RespondedStaged(rs, r) ==
    IF AnswerSlots(rs, r.id) = {} THEN rs
    ELSE [rs EXCEPT ![Min(AnswerSlots(rs, r.id))] =
              [state |-> "valid", id |-> r.id, staged |-> TRUE, of |-> r]]

Responded(rs, r) ==
    IF AnswerSlots(rs, r.id) = {} THEN rs
    ELSE [rs EXCEPT ![Min(AnswerSlots(rs, r.id))] =
              [state |-> "valid", id |-> r.id, staged |-> FALSE, of |-> r]]

Replayed(rs, id) == [rs EXCEPT ![Min(Valid(rs, id))].staged = FALSE]

Acknowledged(rs, id) ==
    IF Valid(rs, id) = {} THEN rs ELSE [rs EXCEPT ![Min(Valid(rs, id))] = FreeSlot]

Unstaged(rs) == {i \in DOMAIN rs : rs[i].state = "valid" /\ ~rs[i].staged}

(* transmit on the Response lane: dropped when it is full *)
Room(l) == Len(lane[l]) < qDesign.lane
Send(l, f) == lane' = [lane EXCEPT ![l] = IF Room(l) THEN Append(@, f) ELSE @]
Dropping(l) == qSeen' = [qSeen EXCEPT !.dropped = @ \/ ~Room(l)]

(* protocol_error, its result discarded *)
ProtocolError(r) == Send(r.link, Answer("error", r)) /\ Dropping(r.link)

Live(r) == session[r.link] = "Active" /\ epoch[r.link] = r.epoch

-----------------------------------------------------------------------------
(* A frame that asks for something: process_link_application_frame *)

Ran(r) == [qSeen EXCEPT !.runs = @ \cup {r}, !.twice = @ \/ r \in qSeen.runs]
Leaks(r) == [qSeen EXCEPT !.leaked = @ \cup {r}]
Reserves(r) == responses' = [responses EXCEPT ![r.link] = Reserved(@, r.id)]

(* The answer is an error and there is nothing to run: no permission, no   *)
(* such target, a payload that does not decode, no slot left               *)
Refuse(r) ==
    /\ qDesign.failing \/ ~Reservable(responses[r.link], r.id)
    /\ ProtocolError(r)
    /\ UNCHANGED <<responses, executionVars, svc>>

(* Inline and synchronous: the service thread runs the handler *)
RunInline(r) ==
    /\ Reservable(responses[r.link], r.id)
    /\ r.op \in qDesign.inline /\ ~(r.op = "action" /\ qDesign.async)
    /\ \/ /\ responses' =
               [responses EXCEPT ![r.link] = Responded(Reserved(@, r.id), r)]
          /\ qSeen' = Ran(r)
          /\ UNCHANGED lane
       \/ /\ qDesign.failing            \* the response does not encode
          /\ Reserves(r)
          /\ Send(r.link, Answer("error", r))
          /\ qSeen' = [Ran(r) EXCEPT !.leaked = @ \cup {r}, !.dropped = @ \/ ~Room(r.link)]
    /\ UNCHANGED <<executionVars, svc>>

Exhausted == active >= qDesign.slots

(* The slot goes back and the host is told *)
TurnDown(r) ==
    /\ responses' = [responses EXCEPT ![r.link] = Released(Reserved(@, r.id), r.id)]
    /\ ProtocolError(r)
    /\ UNCHANGED <<executionVars, svc>>

(* execute_owned_action of an asynchronous Action: one Responder at a time *)
Engage(r) == async' = r /\ responders' = responders \cup {r} /\ qSeen' = Ran(r) /\ UNCHANGED lane

(* The one before is still running: the host is told, the slot stays taken *)
Engaged(r) ==
    /\ Send(r.link, Answer("error", r))
    /\ qSeen' = [Leaks(r) EXCEPT !.dropped = @ \/ ~Room(r.link)]
    /\ UNCHANGED <<async, responders>>

RunInlineAsync(r) ==
    /\ Reservable(responses[r.link], r.id) /\ ~Exhausted
    /\ r.op \in qDesign.inline /\ r.op = "action" /\ qDesign.async
    /\ Reserves(r)
    /\ \/ async = Nothing /\ Engage(r) /\ active' = active + 1
       \/ async # Nothing /\ Engaged(r) /\ UNCHANGED active
    /\ UNCHANGED <<pending, queued, worker, jobs, svc>>

(* Stored for the work item, then submitted *)
Store(r) ==
    /\ Reservable(responses[r.link], r.id) /\ ~Exhausted
    /\ r.op \notin qDesign.inline /\ pending[r.op] = Nothing
    /\ Reserves(r)
    /\ pending' = [pending EXCEPT ![r.op] = r]
    /\ active' = active + 1
    /\ svc' = [at |-> "submit", of |-> r]
    /\ UNCHANGED <<lane, async, queued, worker, jobs, responders, qSeen>>

TurnedDown(r) ==
    /\ Reservable(responses[r.link], r.id)
    /\ \/ Exhausted /\ (r.op \notin qDesign.inline \/ (r.op = "action" /\ qDesign.async))
       \/ r.op \notin qDesign.inline /\ pending[r.op] # Nothing
    /\ TurnDown(r)

Dispatch(r) ==
    Refuse(r) \/ RunInline(r) \/ RunInlineAsync(r) \/ Store(r) \/ TurnedDown(r)

(* admit_request_id: the latest request again, with its answer cached *)
Replay(r) ==
    /\ Valid(responses[r.link], r.id) # {}
    /\ responses' = [responses EXCEPT ![r.link] = Replayed(@, r.id)]
    /\ UNCHANGED <<lane, qSeen>>

(* Busy, DuplicateResponseExpired, or RequestExpired for an older one *)
Recall(r) ==
    /\ Valid(responses[r.link], r.id) = {} \/ r.id < lastId[r.link]
    /\ ProtocolError(r)
    /\ UNCHANGED responses

Admit(r) ==
    \/ /\ r.id = lastId[r.link]
       /\ Replay(r) \/ Recall(r)
       /\ UNCHANGED <<lastId, executionVars, svc>>
    \/ /\ r.id < lastId[r.link]
       /\ Recall(r)
       /\ UNCHANGED <<lastId, executionVars, svc>>
    \/ /\ r.id > lastId[r.link]
       /\ lastId' = [lastId EXCEPT ![r.link] = r.id]
       /\ Dispatch(r)

(* submit_registration; when it fails whatever is stored goes *)
Submit ==
    /\ svc.at = "submit"
    /\ svc' = Idle
    /\ LET r == svc.of IN
       \/ /\ queued' = [queued EXCEPT ![WorkOf(r.op)] = TRUE]
          /\ UNCHANGED <<responses, lane, pending, active, qSeen>>
       \/ /\ qDesign.failing
          /\ pending' = [pending EXCEPT ![r.op] = Nothing]
          /\ active' = active - 1
          /\ responses' = [responses EXCEPT ![r.link] = Released(@, r.id)]
          /\ Send(r.link, Answer("error", r))
          /\ qSeen' = [qSeen EXCEPT !.dropped = @ \/ ~Room(r.link),
                                    !.doubled = @ \/ pending[r.op] # r]
          /\ UNCHANGED queued
    /\ UNCHANGED <<qDesign, session, epoch, lastId, async, worker, jobs, responders, host>>

-----------------------------------------------------------------------------
(* The work item: process_action_work *)

JobOf(w) == {j \in jobs : j.who = w}
Job(who, r, at) == [who |-> who, of |-> r, at |-> at]
NextOp(w) == IF worker[w] < Len(OpsOf(w)) THEN worker[w] + 1 ELSE 0

StartWork(w) ==
    /\ queued[w] /\ worker[w] = 0
    /\ queued' = [queued EXCEPT ![w] = FALSE]
    /\ worker' = [worker EXCEPT ![w] = 1]
    /\ UNCHANGED <<qDesign, sessionVars, pending, async, active, jobs, responders, svc, host, qSeen>>

(* run_pending_action, run_pending_query, run_pending_update *)
TakePending(w) ==
    /\ worker[w] # 0 /\ JobOf(w) = {}
    /\ LET op == OpsOf(w)[worker[w]] IN
       \/ /\ pending[op] # Nothing
          /\ pending' = [pending EXCEPT ![op] = Nothing]
          /\ jobs' = jobs \cup {Job(w, pending[op], "run")}
          /\ UNCHANGED worker
       \/ /\ pending[op] = Nothing
          /\ worker' = [worker EXCEPT ![w] = NextOp(w)]
          /\ UNCHANGED <<pending, jobs>>
    /\ UNCHANGED <<qDesign, sessionVars, async, active, queued, responders, svc, host, qSeen>>

Move(j, at) == jobs' = (jobs \ {j}) \cup {[j EXCEPT !.at = at]}

(* execute_owned_action, execute_query, execute_update: the handler, if    *)
(* the session is still the one that asked                                 *)
RunJob(j) ==
    /\ j.at = "run"
    /\ LET r == j.of IN
       \/ /\ ~Live(r)
          /\ Move(j, "end")
          /\ UNCHANGED <<lane, async, responders, worker, qSeen>>
       \/ /\ Live(r) /\ ~(r.op = "action" /\ qDesign.async)
          /\ qSeen' = Ran(r)
          /\ Move(j, "check")
          /\ UNCHANGED <<lane, async, responders, worker>>
       \/ /\ Live(r) /\ r.op = "action" /\ qDesign.async
          /\ \/ /\ async = Nothing /\ Engage(r)
                /\ jobs' = jobs \ {j}       \* retained by the Responder
                /\ worker' = [worker EXCEPT ![j.who] = NextOp(j.who)]
             \/ /\ async # Nothing /\ Engaged(r)
                /\ Move(j, "end")
                /\ UNCHANGED worker
    /\ UNCHANGED <<qDesign, session, epoch, lastId, responses, pending, active, queued, svc, host>>

(* The session once more, then the encoder *)
CheckUnasked(j) == Move(j, "respond") /\ UNCHANGED <<lane, qSeen>>  \* bug: the session is not asked again

CheckSession(j) ==
    \/ /\ ~Live(j.of)
       /\ Move(j, "end")
       /\ UNCHANGED <<lane, qSeen>>
    \/ /\ Live(j.of)
       /\ Move(j, "respond")
       /\ UNCHANGED <<lane, qSeen>>
    \/ /\ Live(j.of) /\ qDesign.failing
       /\ Move(j, "end")
       /\ Send(j.of.link, Answer("error", j.of))
       /\ qSeen' = [Leaks(j.of) EXCEPT !.dropped = @ \/ ~Room(j.of.link)]

CheckJob(j) ==
    /\ j.at = "check"
    /\ CheckSession(j)
    /\ UNCHANGED <<qDesign, session, epoch, lastId, responses, pending, async, active, queued,
                   worker, responders, svc, host>>

RespondJob(j) ==
    /\ j.at = "respond"
    /\ responses' = [responses EXCEPT ![j.of.link] = Responded(@, j.of)]
    /\ Move(j, "end")
    /\ UNCHANGED <<qDesign, session, epoch, lastId, lane, pending, async, active, queued, worker,
                   responders, svc, host, qSeen>>

(* abandon_asynchronous_action: an error, and the slot stays taken *)
AbandonJob(j) ==
    /\ j.at = "abandon"
    /\ Send(j.of.link, Answer("error", j.of))
    /\ qSeen' = [Leaks(j.of) EXCEPT !.dropped = @ \/ ~Room(j.of.link)]
    /\ Move(j, "end")
    /\ UNCHANGED <<qDesign, session, epoch, lastId, responses, pending, async, active, queued,
                   worker, responders, svc, host>>

EndJob(j) ==
    /\ j.at = "end"
    /\ active' = active - 1
    /\ jobs' = jobs \ {j}
    /\ worker' = IF j.who = "app" THEN worker ELSE [worker EXCEPT ![j.who] = NextOp(j.who)]
    /\ UNCHANGED <<qDesign, sessionVars, pending, async, queued, responders, svc, host, qSeen>>

-----------------------------------------------------------------------------
(* The Responder: complete, reject, or destroyed without either *)

(* claim_asynchronous_action *)
Claims(r) == async = r

UseResponder(r) ==
    /\ r \in responders
    /\ responders' = responders \ {r}
    /\ \/ /\ Claims(r)
          /\ async' = Nothing
          /\ \E at \in {"check", "abandon"} : jobs' = jobs \cup {Job("app", r, at)}
       \/ ~Claims(r) /\ UNCHANGED <<async, jobs>>
    /\ UNCHANGED <<qDesign, sessionVars, pending, active, queued, worker, svc, host, qSeen>>

-----------------------------------------------------------------------------
(* Cancel and reset *)

(* cancel_pending_request: a request is stored in one place at most *)
Stored(l, id) == {op \in Ops : pending[op].link = l /\ pending[op].id = id}
Engages(l, id) == async.link = l /\ async.id = id
Cancellable(l, id) == Stored(l, id) # {} \/ Engages(l, id)

(* What the host is told *)
Confirms(l, id) == Cancellable(l, id)

Discounted(n) == active - n

Cancel(r) ==
    /\ pending' = [op \in Ops |-> IF op \in Stored(r.link, r.id) THEN Nothing ELSE pending[op]]
    /\ async' = IF Engages(r.link, r.id) THEN Nothing ELSE async
    /\ active' = Discounted(IF Cancellable(r.link, r.id) THEN 1 ELSE 0)
    /\ responses' = [responses EXCEPT ![r.link] =
                         IF Cancellable(r.link, r.id) THEN Released(@, r.id) ELSE @]
    /\ Send(r.link, Answer("error", r))
    /\ qSeen' = [qSeen EXCEPT !.dropped = @ \/ ~Room(r.link),
                              !.cancelled = IF Confirms(r.link, r.id) THEN @ \cup {r} ELSE @]
    /\ UNCHANGED <<session, epoch, lastId, queued, worker, jobs, responders, svc>>

(* cancel_session_requests *)
OfLink(l) == {op \in Ops : pending[op].link = l}
AsyncOf(l) == async.link = l

CancelSession(l) ==
    /\ pending' = [op \in Ops |-> IF op \in OfLink(l) THEN Nothing ELSE pending[op]]
    /\ async' = IF AsyncOf(l) THEN Nothing ELSE async
    /\ active' = active - Cardinality(OfLink(l)) - (IF AsyncOf(l) THEN 1 ELSE 0)
    /\ UNCHANGED <<queued, worker, jobs, responders>>

ClearSession(l) ==
    /\ responses' = [responses EXCEPT ![l] = [i \in DOMAIN @ |-> FreeSlot]]
    /\ lastId' = [lastId EXCEPT ![l] = 0]

(* Someone has passed the last check of the old session *)
Committed(l) == \E j \in jobs : j.of.link = l /\ j.at \in {"respond", "abandon"}
Crossing(l, c) == qSeen' = [qSeen EXCEPT !.crossed = IF c THEN @ \cup {l} ELSE @]

(* The host sends SessionReset, or the link goes: everything of the        *)
(* session is cancelled first, while the session still looks alive         *)
EndSession(l, why) ==
    /\ svc = Idle /\ session[l] \in {"Negotiating", "Active"} /\ epoch[l] < qDesign.epochs
    /\ CancelSession(l)
    /\ IF why = "reset" THEN ClearSession(l) ELSE UNCHANGED <<responses, lastId>>
    /\ svc' = [at |-> why, link |-> l]
    /\ host' = [host EXCEPT ![l] = NewHost]
    /\ UNCHANGED <<qDesign, session, epoch, lane, qSeen>>

(* SessionReset: what waits in the lanes stays there *)
Reopen ==
    /\ svc.at = "reset"
    /\ LET l == svc.link IN
       /\ session' = [session EXCEPT ![l] = "Negotiating"]
       /\ epoch' = [epoch EXCEPT ![l] = @ + 1]
       /\ Crossing(l, \/ Committed(l) \/ AsyncOf(l) \/ lane[l] # <<>>
                      \/ Free(responses[l]) # DOMAIN responses[l])
    /\ svc' = Idle
    /\ UNCHANGED <<qDesign, lastId, responses, lane, executionVars, host>>

(* Disconnected and Fault *)
Disconnected ==
    /\ svc.at = "disconnect"
    /\ ClearSession(svc.link)
    /\ session' = [session EXCEPT ![svc.link] = "Disconnected"]
    /\ lane' = [lane EXCEPT ![svc.link] = <<>>]
    /\ svc' = Idle
    /\ UNCHANGED <<qDesign, epoch, executionVars, host, qSeen>>

(* ClientHello *)
Hello(l) ==
    /\ svc = Idle /\ session[l] = "Negotiating"
    /\ session' = [session EXCEPT ![l] = "Active"]
    /\ UNCHANGED <<qDesign, epoch, lastId, responses, lane, executionVars, svc, host, qSeen>>

Connect(l) ==
    /\ svc = Idle /\ session[l] = "Disconnected" /\ l \in qDesign.links
    /\ CancelSession(l)
    /\ ClearSession(l)
    /\ lane' = [lane EXCEPT ![l] = <<>>]
    /\ session' = [session EXCEPT ![l] = "Negotiating"]
    /\ epoch' = [epoch EXCEPT ![l] = @ + 1]
    /\ Crossing(l, Committed(l))
    /\ UNCHANGED <<qDesign, svc, host>>

-----------------------------------------------------------------------------
(* The service thread sends: try_start_transmit over a link that is ready *)

Staged(l) == Unstaged(responses[l]) # {} /\ Room(l)
StagedSlot(l) == Min(Unstaged(responses[l]))
StagedLane(l) ==
    IF Staged(l)
    THEN Append(lane[l], [Answer("response", responses[l][StagedSlot(l)].of)
                              EXCEPT !.id = responses[l][StagedSlot(l)].id])
    ELSE lane[l]

(* AsyncSession::_read_loop and _exchange: a reply nobody waits for is     *)
(* ignored, a response is acknowledged                                     *)
Hears(l, f) ==
    LET asked == {q \in host[l].waiting : q.id = f.id} IN
    host' = [host EXCEPT ![l] =
        IF asked = {} THEN @
        ELSE [@ EXCEPT !.waiting = @ \ asked,
                       !.acks = IF f.kind = "response" THEN @ \cup {f.id} ELSE @]]

Pump(l) ==
    /\ svc = Idle /\ session[l] # "Disconnected"
    /\ StagedLane(l) # <<>>
    /\ responses' = IF Staged(l) THEN [responses EXCEPT ![l][StagedSlot(l)].staged = TRUE]
                    ELSE responses
    /\ lane' = [lane EXCEPT ![l] = Tail(StagedLane(l))]
    /\ \/ Hears(l, Head(StagedLane(l)))
       \/ qDesign.lossy /\ UNCHANGED host
    /\ UNCHANGED <<qDesign, session, epoch, lastId, executionVars, svc, qSeen>>

-----------------------------------------------------------------------------
(* The host: each of its frames is handled when it arrives, or lost *)

Asks(l, q) == [link |-> l, epoch |-> epoch[l], id |-> q.id, op |-> q.op]

(* Client::request and AsyncSession::_exchange; or the same request again, *)
(* as the protocol allows                                                  *)
NewRequests(l) == {[id |-> host[l].next + 1, op |-> op] : op \in qDesign.ops}
Requests(l) ==
    (IF host[l].next < qDesign.ids THEN NewRequests(l) ELSE {})
        \cup (IF qDesign.retrying THEN host[l].waiting ELSE {})

Request(l, q) ==
    /\ svc = Idle /\ session[l] = "Active"
    /\ host' = [host EXCEPT ![l].next = Max({@, q.id}), ![l].waiting = @ \cup {q}]
    /\ \/ Admit(Asks(l, q))
       \/ qDesign.lossy /\ UNCHANGED <<lastId, responses, lane, executionVars, svc, qSeen>>
    /\ UNCHANGED <<qDesign, session, epoch>>

(* The wait in _exchange ends: the request is forgotten and cancelled *)
TimeOut(l, q) ==
    /\ svc = Idle /\ session[l] = "Active" /\ qDesign.impatient
    /\ q \in host[l].waiting
    /\ host' = [host EXCEPT ![l].waiting = @ \ {q}]
    /\ \/ Cancel(Asks(l, q)) /\ UNCHANGED qDesign
       \/ qDesign.lossy /\ UNCHANGED <<qDesign, sessionVars, executionVars, svc, qSeen>>

Acknowledge(l, id) ==
    /\ svc = Idle /\ session[l] = "Active"
    /\ id \in host[l].acks
    /\ host' = [host EXCEPT ![l].acks = @ \ {id}]
    /\ \/ responses' = [responses EXCEPT ![l] = Acknowledged(@, id)]
       \/ qDesign.lossy /\ UNCHANGED responses
    /\ UNCHANGED <<qDesign, session, epoch, lastId, lane, executionVars, svc, qSeen>>

-----------------------------------------------------------------------------
Init ==
    /\ qDesign \in RequestDesigns
    /\ session = [l \in Links |-> "Disconnected"]
    /\ epoch = [l \in Links |-> 0]
    /\ lastId = [l \in Links |-> 0]
    /\ responses = [l \in Links |-> [i \in 1..qDesign.slots |-> FreeSlot]]
    /\ lane = [l \in Links |-> <<>>]
    /\ pending = [op \in Ops |-> Nothing]
    /\ async = Nothing
    /\ active = 0
    /\ queued = [w \in Works |-> FALSE]
    /\ worker = [w \in Works |-> 0]
    /\ jobs = {}
    /\ responders = {}
    /\ svc = Idle
    /\ host = [l \in Links |-> NewHost]
    /\ qSeen = [runs |-> {}, twice |-> FALSE, cancelled |-> {}, dropped |-> FALSE,
                leaked |-> {}, doubled |-> FALSE, crossed |-> {}]

HostStep(l) ==
    \/ \E q \in Requests(l) : Request(l, q)
    \/ \E q \in host[l].waiting : TimeOut(l, q)
    \/ \E id \in host[l].acks : Acknowledge(l, id)
    \/ EndSession(l, "reset") \/ Hello(l)

LinkStep(l) == Connect(l) \/ EndSession(l, "disconnect")
JobStep(j) == RunJob(j) \/ CheckJob(j) \/ RespondJob(j) \/ AbandonJob(j) \/ EndJob(j)
WorkStep(w) == StartWork(w) \/ TakePending(w)
ServiceStep == Submit \/ Reopen \/ Disconnected

(* The hosts have asked all they ask and everything is answered *)
Rest ==
    /\ svc = Idle /\ jobs = {} /\ responders = {}
    /\ \A w \in Works : ~queued[w] /\ worker[w] = 0
    /\ \A l \in Links : lane[l] = <<>> /\ Unstaged(responses[l]) = {}
    /\ UNCHANGED requestVars

Next ==
    \/ \E l \in Links : HostStep(l) \/ LinkStep(l) \/ Pump(l)
    \/ \E w \in Works : WorkStep(w)
    \/ \E j \in jobs : JobStep(j)
    \/ \E r \in responders : UseResponder(r)
    \/ ServiceStep \/ Rest

(* The service thread and the work queues keep running, a handler returns, *)
(* and a Responder is used or destroyed in the end                         *)
Fairness ==
    /\ \A l \in Links : WF_requestVars(Pump(l))
    /\ \A w \in Works : WF_requestVars(WorkStep(w))
    /\ WF_requestVars(\E j \in jobs : JobStep(j))
    /\ WF_requestVars(\E r \in responders : UseResponder(r))
    /\ WF_requestVars(ServiceStep)

Spec == Init /\ [][Next]_requestVars /\ Fairness

-----------------------------------------------------------------------------
(* Properties *)

Slots(l) == {responses[l][i] : i \in DOMAIN responses[l]}
ToHost(l) == ToSet(lane[l])

(* Requests that hold a place in active_requests *)
StoredRequests == {pending[op] : op \in Ops} \ {Nothing}
Owned == StoredRequests \cup {j.of : j \in jobs} \cup ({async} \ {Nothing})
Unanswered ==
    StoredRequests \cup ({async} \ {Nothing})
        \cup {j.of : j \in {k \in jobs : k.at \in {"run", "check", "respond"}}}

Ending(l) == svc.at \in {"reset", "disconnect"} /\ svc.link = l

RequestSeenType ==
    [runs : SUBSET Envelopes, twice : BOOLEAN, cancelled : SUBSET Envelopes, dropped : BOOLEAN,
     leaked : SUBSET Envelopes, doubled : BOOLEAN, crossed : SUBSET Links]

(* The state of the request machinery is well formed.                      *)
RequestTypeOK ==
    /\ qDesign \in RequestDesigns
    /\ session \in [Links -> {"Disconnected", "Negotiating", "Active"}]
    /\ epoch \in [Links -> Nat] /\ lastId \in [Links -> Nat]
    /\ \A l \in Links :
        /\ Len(lane[l]) <= qDesign.lane
        /\ \A s \in Slots(l) : s.state \in {"free", "reserved", "valid"}
    /\ \A r \in Owned \cup responders : r \in Envelopes
    /\ active \in Int
    /\ queued \in [Works -> BOOLEAN]
    /\ \A w \in Works : worker[w] \in 0..Len(OpsOf(w)) /\ Cardinality(JobOf(w)) <= 1
    /\ \A j \in jobs : j.who \in Works \cup {"app"} /\ j.at \in Steps
    /\ qSeen \in RequestSeenType

(* A handler runs at most once for a request of a session, whatever is     *)
(* repeated, cancelled, lost or answered in between (admit_request_id).    *)
AtMostOnce == ~qSeen.twice

(* active_requests counts the requests that are stored, running or with a  *)
(* Responder, each once, through every way a request ends; so it comes     *)
(* back to zero.  A submission that fails when the work item already runs  *)
(* the request gives its place back twice.                                 *)
ActiveExact ==
    ~qSeen.doubled =>
        active = Cardinality(StoredRequests) + Cardinality(jobs) + (IF async = Nothing THEN 0 ELSE 1)

(* A request that has been accepted and not answered holds a response      *)
(* slot, so that its answer has somewhere to go; only someone who passed   *)
(* the last check of an earlier session may have taken it.                 *)
AcceptedHasRoom ==
    \A r \in Unanswered :
        (/\ Live(r) /\ ~Ending(r.link)
         /\ r.link \notin qSeen.crossed /\ ~qSeen.doubled)
            => \E s \in Slots(r.link) : s.state = "reserved" /\ s.id = r.id

(* A slot stays reserved for a request someone still owns: what is lost    *)
(* for the rest of the session is what a busy asynchronous Action, an      *)
(* abandoned Responder or an encoder that failed left behind.              *)
ReservedIsOwned ==
    \A l \in Links : \A s \in Slots(l) :
        (s.state = "reserved" /\ l \notin qSeen.crossed /\ ~Ending(l)) =>
            \E r \in Owned \cup qSeen.leaked : r.link = l /\ r.epoch = epoch[l] /\ r.id = s.id

(* What is cached or waits to be sent under a request's identifier is the  *)
(* answer to that request of that session and link.  Exceptions: a result  *)
(* that passed the session check just before a reset, and frames a         *)
(* SessionReset leaves in the lane.                                        *)
AnswersOwnRequest ==
    \A l \in Links \ qSeen.crossed :
        /\ \A s \in Slots(l) :
            s.state = "valid" => s.of.link = l /\ s.of.epoch = epoch[l] /\ s.of.id = s.id
        /\ \A f \in ToHost(l) : f.of.link = l /\ f.of.epoch = epoch[l] /\ f.of.id = f.id

(* A host that was told Cancelled is not sent a response afterwards: the   *)
(* Responder and the work item find their request gone.                    *)
CancelledStaysSilent ==
    \A r \in qSeen.cancelled :
        /\ \A s \in Slots(r.link) : s.state = "valid" => s.of # r
        /\ \A f \in ToHost(r.link) : f.kind = "response" => f.of # r

(* With a host that waits and a link that loses nothing, every request is  *)
(* answered by a response or an error, unless the Response lane was full   *)
(* for the error.                                                          *)
Patient == ~qDesign.lossy /\ ~qDesign.impatient /\ ~qDesign.retrying
Answered ==
    \A l \in Links : \A n \in 1..2 :
        (/\ Patient /\ \E q \in host[l].waiting : q.id = n)
            ~> (~(\E q \in host[l].waiting : q.id = n) \/ qSeen.dropped)

(* A completion that comes after the session was reset is rejected: what   *)
(* is cached or sent in a session answers a request of that session.       *)
LateCompletionRejected ==
    \A l \in Links :
        /\ \A s \in Slots(l) : s.state = "valid" => s.of.epoch = epoch[l]
        /\ \A f \in ToHost(l) : f.of.epoch = epoch[l]

(* The books of the dispatcher are exact: the count of active requests,    *)
(* the slots reserved for their answers and who owns them.                 *)
BooksExact == RequestTypeOK /\ ActiveExact /\ AcceptedHasRoom /\ ReservedIsOwned

(* What a host receives is right: the answer to its own request, from a    *)
(* handler that ran once, and nothing after it was told Cancelled.         *)
AnswersRight == AtMostOnce /\ AnswersOwnRequest /\ CancelledStaysSilent

=============================================================================
