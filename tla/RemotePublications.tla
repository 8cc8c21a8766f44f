------------------------- MODULE RemotePublications -------------------------
(***************************************************************************)
(* What one Remote Data endpoint or Topic publishes (remote/runtime.hpp):  *)
(* write_data and write_discrete fill a bounded ring, try_loan_data and    *)
(* commit_loan_data lend a pool of buffers, and wake the service thread    *)
(* through its event queue; a polled endpoint is read by a work item that  *)
(* the service thread releases.  The service thread also updates the       *)
(* subscriptions of every link; at its other end is a Subscription of the  *)
(* SDK (session.py).                                                       *)
(*                                                                         *)
(* A step is a section under a lock, one atomic access, or one call that   *)
(* another thread can see.                                                 *)
(***************************************************************************)
EXTENDS Integers, Sequences, FiniteSets, SequencesExt, FiniteSetsExt

CONSTANT PublicationDesigns     \* the endpoints to consider

PublicationDesignType ==
    [kind : {"push", "watch", "topic", "loan", "poll"},
     overflow : {"Reject", "DropNewest", "DropOldest"},
     depth : Nat \ {0},         \* of the ring or the pool
     batch : Nat \ {0},         \* Batch<N>
     subscribers : Nat,         \* links that have subscribed before, the others have not
     ports : Nat \ {0},         \* links
     writers : Nat,
     writes : Nat,              \* of all writers
     requests : Nat,            \* subscribe and unsubscribe requests, resets
     releases : Nat,            \* of a poll
     inbox : Nat \ {0},         \* queue_depth of a Subscription
     paced : BOOLEAN,           \* a subscription may skip values, a lane refuse them
     crowded : BOOLEAN,         \* the event queue may be full
     faulty : BOOLEAN,          \* the reader of a poll may fail
     ending : BOOLEAN]          \* the poll's work item may be refused

ASSUME PublicationAssumption == PublicationDesigns \subseteq PublicationDesignType

VARIABLES
    pDesign,    \* the endpoint
    ring,       \* PushState::values or DiscreteState::values
    pool,       \* LoanState::slots
    sequence,   \* PushState::sequence
    wake,       \* wake_pending
    interested, \* interested_sessions
    subs,       \* LinkState::subscriptions
    posts,      \* Publication events of this endpoint in the queue
    writer,     \* where every writer is
    service,    \* where the service thread is
    poll,       \* PollState::in_flight, and the poll's work item
    inbox,      \* the Subscription of every host
    did,        \* writes, requests and releases so far
    promised    \* values whose writer was told that a wakeup is queued

storage == <<ring, pool, sequence>>
publicationVars == <<pDesign, storage, wake, interested, subs, posts, writer, service, poll, inbox,
                     did, promised>>

Ports == 1..pDesign.ports
Writers == 1..pDesign.writers
Discrete == pDesign.kind \in {"watch", "topic"}
Ringed == pDesign.kind = "push" \/ Discrete
Lending == pDesign.kind = "loan"
Polling == pDesign.kind = "poll"

Quiet == [at |-> "idle", pending |-> FALSE, value |-> 0, slot |-> 0, generation |-> 0]
Waiting == [at |-> "idle", values |-> <<>>, slot |-> 0, generation |-> 0, port |-> 0,
            enable |-> FALSE]
Unlent == [state |-> "Free", generation |-> 0, value |-> 0]

-----------------------------------------------------------------------------
(* Waking the service thread *)

Stay(w) == [writer EXCEPT ![w] = Quiet]
Go(w, where) == [writer EXCEPT ![w].at = where]

(* Bug: a full event queue leaves the wakeup pending *)
UnpostedStuck == UNCHANGED wake
Unposted == wake' = FALSE

(* notify_publication: a full queue refuses the event *)
Post == posts' = posts + 1
CannotPost == pDesign.crowded /\ UNCHANGED posts

(* wake_pending.exchange(true) *)
Exchange(w) ==
    /\ writer[w].at = "wake"
    /\ wake' = TRUE
    /\ writer' = [writer EXCEPT ![w].at = IF Lending THEN "post" ELSE "interest", ![w].pending = wake]
    /\ UNCHANGED <<pDesign, storage, interested, subs, posts, service, poll, inbox, did, promised>>

(* Nobody subscribes: the flag is taken back, and the value stays *)
Interest(w) ==
    /\ writer[w].at = "interest" /\ ~Lending
    /\ writer' = Go(w, IF interested = 0 THEN "unwake" ELSE "post")
    /\ UNCHANGED <<pDesign, storage, wake, interested, subs, posts, service, poll, inbox, did,
                   promised>>

Unwake(w) ==
    /\ writer[w].at = "unwake"
    /\ wake' = FALSE /\ writer' = Stay(w)
    /\ UNCHANGED <<pDesign, storage, interested, subs, posts, service, poll, inbox, did, promised>>

(* A wakeup of another writer serves this value too *)
Notify(w) ==
    /\ writer[w].at = "post"
    /\ LET kept == promised' = promised \cup {writer[w].value} IN
       \/ writer[w].pending /\ kept /\ writer' = Stay(w) /\ UNCHANGED <<posts, wake>>
       \/ ~writer[w].pending /\ Post /\ kept /\ writer' = Stay(w) /\ UNCHANGED wake
       \/ ~writer[w].pending /\ CannotPost /\ Unposted /\ writer' = Stay(w) /\ UNCHANGED promised
    /\ UNCHANGED <<pDesign, storage, interested, subs, service, poll, inbox, did>>

-----------------------------------------------------------------------------
(* The ring: write_data and write_discrete, up to the wakeup.  A write     *)
(* while the facility does not accept any changes nothing.                 *)

RingFull == Len(ring) = pDesign.depth
NextValue == sequence + 1
Wrote(w) == [writer EXCEPT ![w] = [Quiet EXCEPT !.at = "wake", !.value = NextValue]]

AdmitValue(w) ==
    /\ writer[w].at = "idle" /\ did.writes < pDesign.writes
    /\ did' = [did EXCEPT !.writes = @ + 1]
    /\ \/ ~RingFull /\ ring' = Append(ring, NextValue) /\ sequence' = NextValue /\ writer' = Wrote(w)
       \/ /\ RingFull /\ pDesign.overflow = "DropOldest"
          /\ ring' = Append(Tail(ring), NextValue) /\ sequence' = NextValue /\ writer' = Wrote(w)
       \/ /\ RingFull /\ pDesign.overflow = "DropNewest"
          /\ sequence' = NextValue /\ UNCHANGED <<ring, writer>>
       \/ RingFull /\ pDesign.overflow = "Reject" /\ UNCHANGED <<ring, sequence, writer>>
    /\ UNCHANGED <<pDesign, pool, wake, interested, subs, posts, service, poll, inbox, promised>>

Write(w) == pDesign.kind = "push" /\ AdmitValue(w)
WriteDiscrete(w) == Discrete /\ AdmitValue(w)

(* The oldest first *)
Taken == [value |-> Head(ring), rest |-> Tail(ring)]

-----------------------------------------------------------------------------
(* The pool: try_loan_data, commit_loan_data and abandon_loan *)

Slots == 1..pDesign.depth
InState(state) == {i \in Slots : pool[i].state = state}
Owns(i, generation, state) == pool[i].state = state /\ pool[i].generation = generation

Lendable == InState("Free")

Lend(w) ==
    /\ Lending /\ writer[w].at = "idle" /\ did.writes < pDesign.writes /\ Lendable # {}
    /\ did' = [did EXCEPT !.writes = @ + 1]
    /\ LET i == Min(Lendable)
           generation == pool[i].generation + 1
       IN
       /\ pool' = [pool EXCEPT ![i] = [Unlent EXCEPT !.state = "Loaned", !.generation = generation]]
       /\ writer' = [writer EXCEPT ![w] =
             [Quiet EXCEPT !.at = "lent", !.slot = i, !.generation = generation]]
    /\ UNCHANGED <<pDesign, ring, sequence, wake, interested, subs, posts, service, poll, inbox,
                   promised>>

(* The loan is destroyed without a commit *)
Abandon(w) ==
    /\ writer[w].at = "lent" /\ Owns(writer[w].slot, writer[w].generation, "Loaned")
    /\ pool' = [pool EXCEPT ![writer[w].slot].state = "Free"]
    /\ writer' = Stay(w)
    /\ UNCHANGED <<pDesign, ring, sequence, wake, interested, subs, posts, service, poll, inbox,
                   did, promised>>

Commit(w) ==
    /\ writer[w].at = "lent" /\ Owns(writer[w].slot, writer[w].generation, "Loaned")
    /\ pool' = [pool EXCEPT ![writer[w].slot].state = "Ready", ![writer[w].slot].value = NextValue]
    /\ sequence' = NextValue
    /\ writer' = [writer EXCEPT ![w].at = "committed", ![w].value = NextValue]
    /\ UNCHANGED <<pDesign, ring, wake, interested, subs, posts, service, poll, inbox, did, promised>>

CommitInterest(w) ==
    /\ writer[w].at = "committed"
    /\ writer' = Go(w, IF interested = 0 THEN "release" ELSE "wake")
    /\ UNCHANGED <<pDesign, storage, wake, interested, subs, posts, service, poll, inbox, did,
                   promised>>

(* release_ready_loan *)
Released(i, generation) ==
    IF Owns(i, generation, "Ready") THEN [pool EXCEPT ![i].state = "Free"] ELSE pool

(* Nobody subscribes: the buffer goes back *)
CommitRelease(w) ==
    /\ writer[w].at = "release"
    /\ pool' = Released(writer[w].slot, writer[w].generation)
    /\ writer' = Stay(w)
    /\ UNCHANGED <<pDesign, ring, sequence, wake, interested, subs, posts, service, poll, inbox,
                   did, promised>>

-----------------------------------------------------------------------------
(* The service thread: process_publication *)

On(where) == [service EXCEPT !.at = where]

Begin ==
    /\ service.at = "idle" /\ posts > 0
    /\ posts' = posts - 1
    /\ service' = [Waiting EXCEPT !.at = IF Lending THEN "take loan" ELSE "take"]
    /\ UNCHANGED <<pDesign, storage, wake, interested, subs, writer, poll, inbox, did, promised>>

ToPublish(values) == [service EXCEPT !.values = values, !.at = "publish", !.port = 1]
Pop == IF ring = <<>> THEN UNCHANGED ring ELSE ring' = Taken.rest
Popped == IF ring = <<>> THEN service.values ELSE Append(service.values, Taken.value)

(* take_next: what has been written since is announced even when there was *)
(* nothing to take                                                         *)
Take ==
    /\ service.at = "take" /\ pDesign.kind = "push" /\ pDesign.batch = 1
    /\ wake' = FALSE /\ Pop
    /\ service' = IF ring = <<>> THEN On("rearm") ELSE ToPublish(Popped)
    /\ UNCHANGED <<pDesign, pool, sequence, interested, subs, posts, writer, poll, inbox, did,
                   promised>>

(* publish_push_batch: values are taken one by one until the batch is full *)
TakeBatch ==
    /\ service.at = "take" /\ pDesign.kind = "push" /\ pDesign.batch > 1
    /\ wake' = FALSE /\ Pop
    /\ service' = IF ring # <<>> /\ Len(Popped) < pDesign.batch
                  THEN [service EXCEPT !.values = Popped]
                  ELSE IF Popped = <<>> THEN On("rearm") ELSE ToPublish(Popped)
    /\ UNCHANGED <<pDesign, pool, sequence, interested, subs, posts, writer, poll, inbox, did,
                   promised>>

(* take_discrete *)
TakeDiscrete ==
    /\ service.at = "take" /\ Discrete
    /\ wake' = FALSE /\ Pop
    /\ service' = IF ring = <<>> THEN Waiting ELSE ToPublish(Popped)
    /\ UNCHANGED <<pDesign, pool, sequence, interested, subs, posts, writer, poll, inbox, did,
                   promised>>

(* take_ready_loan: the first buffer that is ready *)
TakeLoan ==
    /\ service.at = "take loan" /\ wake' = FALSE
    /\ service' = IF InState("Ready") = {} THEN Waiting
                  ELSE LET i == Min(InState("Ready")) IN
                       [Waiting EXCEPT !.at = "publish", !.port = 1, !.slot = i,
                          !.generation = pool[i].generation, !.values = <<pool[i].value>>]
    /\ UNCHANGED <<pDesign, storage, interested, subs, posts, writer, poll, inbox, did, promised>>

(* Subscription._deliver: a full queue loses its oldest value *)
Received(box, values) ==
    [box EXCEPT !.queue = LET all == @ \o values
                              over == Max({0, Len(all) - pDesign.inbox})
                          IN SubSeq(all, over + 1, Len(all))]
InboxAfter(p, values) == IF inbox[p].listening THEN [inbox EXCEPT ![p] = Received(@, values)] ELSE inbox

(* publish_subscription_payload for one link: a subscription that asked    *)
(* for fewer values skips some                                             *)
Payload(p, values) ==
    \/ subs[p] /\ inbox' = InboxAfter(p, values)
    \/ (~subs[p] \/ pDesign.paced) /\ UNCHANGED inbox

Publish ==
    /\ service.at = "publish"
    /\ Payload(service.port, service.values)
    /\ service' = IF service.port < pDesign.ports THEN [service EXCEPT !.port = @ + 1]
                  ELSE On(IF Lending THEN "free" ELSE "rearm")
    /\ UNCHANGED <<pDesign, storage, wake, interested, subs, posts, writer, poll, did, promised>>

FreeLoan ==
    /\ service.at = "free"
    /\ pool' = Released(service.slot, service.generation)
    /\ service' = [Waiting EXCEPT !.at = "rearm"]
    /\ UNCHANGED <<pDesign, ring, sequence, wake, interested, subs, posts, writer, poll, inbox, did,
                   promised>>

(* Bug: what is left waits for the next write *)
LeftNone == FALSE
(* push_pending, discrete_pending, loan_ready *)
Left == IF Lending THEN InState("Ready") # {} ELSE ring # <<>>

(* rearm_push, rearm_discrete, rearm_loan: what is left is announced again *)
Rearm ==
    /\ service.at = "rearm"
    /\ service' = IF Left THEN [Waiting EXCEPT !.at = "rewake"] ELSE Waiting
    /\ UNCHANGED <<pDesign, storage, wake, interested, subs, posts, writer, poll, inbox, did,
                   promised>>

Rewake ==
    /\ service.at = "rewake" /\ wake' = TRUE
    /\ service' = IF wake THEN Waiting ELSE [Waiting EXCEPT !.at = "repost"]
    /\ UNCHANGED <<pDesign, storage, interested, subs, posts, writer, poll, inbox, did, promised>>

Repost ==
    /\ service.at = "repost" /\ service' = Waiting
    /\ \/ Post /\ UNCHANGED wake
       \/ CannotPost /\ Unposted
    /\ UNCHANGED <<pDesign, storage, interested, subs, writer, poll, inbox, did, promised>>

-----------------------------------------------------------------------------
(* Subscriptions: process_subscription, update_data_subscription and the   *)
(* reset of a session                                                      *)

Changes(p, enable) == subs[p] # enable

Update(p, enable, then) ==
    /\ service.at = "idle" /\ did.requests < pDesign.requests
    /\ did' = [did EXCEPT !.requests = @ + 1]
    /\ subs' = [subs EXCEPT ![p] = enable]
    /\ service' = [Waiting EXCEPT !.port = p, !.enable = enable,
                                  !.at = IF Changes(p, enable) THEN "count" ELSE then]
    /\ UNCHANGED <<pDesign, storage, wake, interested, posts, writer, poll, promised>>

UpdateData(p, enable, then) == pDesign.kind # "topic" /\ Update(p, enable, then)
UpdateTopic(p, enable, then) == pDesign.kind = "topic" /\ Update(p, enable, then)
UpdateSubscription(p, enable, then) == UpdateData(p, enable, then) \/ UpdateTopic(p, enable, then)

(* The application subscribes: a Subscription is registered when the       *)
(* response comes                                                          *)
Subscribe(p) == UpdateSubscription(p, TRUE, "answer") /\ UNCHANGED inbox

(* Subscription.aclose: the Subscription is gone before the request        *)
Unheard(p) == [inbox EXCEPT ![p].listening = FALSE, ![p].queue = <<>>]
Unsubscribe(p) ==
    inbox[p].listening /\ UpdateSubscription(p, FALSE, "idle") /\ inbox' = Unheard(p)

(* reset_link_subscriptions: the session of the link ends *)
ResetLink(p) == UpdateSubscription(p, FALSE, "idle") /\ UNCHANGED inbox

Count ==
    /\ service.at = "count"
    /\ service' = IF service.enable THEN On("answer") ELSE Waiting
    /\ interested' = IF Polling THEN interested        \* nobody asks
                     ELSE IF service.enable THEN interested + 1 ELSE interested - 1
    /\ UNCHANGED <<pDesign, storage, wake, subs, posts, writer, poll, inbox, did, promised>>

(* The response: the host's Subscription begins *)
Answer ==
    /\ service.at = "answer" /\ service' = Waiting
    /\ inbox' = [inbox EXCEPT ![service.port].listening = TRUE, ![service.port].queue = <<>>]
    /\ UNCHANGED <<pDesign, storage, wake, interested, subs, posts, writer, poll, did, promised>>

-----------------------------------------------------------------------------
(* Polls: process_poll_release and execute_poll *)

(* effective_poll_interval: some link subscribes.  A release is due.       *)
Release ==
    /\ Polling /\ service.at = "idle" /\ did.releases < pDesign.releases
    /\ \E p \in Ports : subs[p]
    /\ did' = [did EXCEPT !.releases = @ + 1]
    /\ poll' = [poll EXCEPT !.inFlight = TRUE]
    /\ service' = IF poll.inFlight THEN Waiting ELSE [Waiting EXCEPT !.at = "submit"]
    /\ UNCHANGED <<pDesign, storage, wake, interested, subs, posts, writer, inbox, promised>>

SubmitPoll ==
    /\ service.at = "submit" /\ service' = Waiting
    /\ \/ poll' = [poll EXCEPT !.queued = TRUE]
       \/ pDesign.ending /\ poll' = [poll EXCEPT !.inFlight = FALSE]
    /\ UNCHANGED <<pDesign, storage, wake, interested, subs, posts, writer, inbox, did, promised>>

(* acquire_poll_value; a failure is counted *)
ReadPoll ==
    /\ poll.queued /\ poll.at = "idle"
    /\ \/ /\ sequence' = NextValue
          /\ poll' = [poll EXCEPT !.queued = FALSE, !.at = "publish", !.port = 1, !.value = NextValue]
       \/ /\ pDesign.faulty /\ UNCHANGED sequence
          /\ poll' = [poll EXCEPT !.queued = FALSE, !.at = "failed"]
    /\ UNCHANGED <<pDesign, ring, pool, wake, interested, subs, posts, writer, service, inbox, did,
                   promised>>

PublishPoll ==
    /\ poll.at = "publish"
    /\ Payload(poll.port, <<poll.value>>)
    /\ poll' = IF poll.port < pDesign.ports THEN [poll EXCEPT !.port = @ + 1]
               ELSE [poll EXCEPT !.at = "landed"]
    /\ UNCHANGED <<pDesign, storage, wake, interested, subs, posts, writer, service, did, promised>>

Lands == poll.at \in {"landed", "failed"}

EndPoll ==
    /\ poll.at \in {"landed", "failed"}
    /\ poll' = [inFlight |-> poll.inFlight /\ ~Lands, queued |-> poll.queued, at |-> "idle",
                port |-> 0, value |-> 0]
    /\ UNCHANGED <<pDesign, storage, wake, interested, subs, posts, writer, service, inbox, did,
                   promised>>

-----------------------------------------------------------------------------
(* The host's application: Subscription.__anext__ *)
ReadInbox(p) ==
    /\ inbox[p].queue # <<>>
    /\ inbox' = [inbox EXCEPT ![p].last = Head(inbox[p].queue), ![p].queue = Tail(@)]
    /\ UNCHANGED <<pDesign, storage, wake, interested, subs, posts, writer, service, poll, did,
                   promised>>

-----------------------------------------------------------------------------
PublicationInit ==
    /\ pDesign \in PublicationDesigns
    /\ ring = <<>> /\ sequence = 0
    /\ pool = [i \in Slots |-> Unlent]
    /\ wake = FALSE /\ posts = 0
    /\ subs = [p \in Ports |-> p <= pDesign.subscribers]
    /\ interested = IF Polling THEN 0 ELSE pDesign.subscribers
    /\ writer = [w \in Writers |-> Quiet]
    /\ service = Waiting
    /\ poll = [inFlight |-> FALSE, queued |-> FALSE, at |-> "idle", port |-> 0, value |-> 0]
    /\ inbox = [p \in Ports |-> [listening |-> subs[p], queue |-> <<>>, last |-> 0]]
    /\ did = [writes |-> 0, requests |-> 0, releases |-> 0]
    /\ promised = {}

WriterStep ==
    \E w \in Writers : Exchange(w) \/ Interest(w) \/ Unwake(w) \/ Notify(w)
                       \/ CommitInterest(w) \/ CommitRelease(w)
WriterAct == \E w \in Writers : Write(w) \/ WriteDiscrete(w) \/ Lend(w) \/ Abandon(w) \/ Commit(w)
PublisherStep ==
    \/ Begin \/ Take \/ TakeBatch \/ TakeDiscrete \/ TakeLoan \/ Publish \/ FreeLoan \/ Rearm \/ Rewake \/ Repost
    \/ Count \/ Answer \/ SubmitPoll
PollStep == ReadPoll \/ PublishPoll \/ EndPoll
Others == Release \/ \E p \in Ports : Subscribe(p) \/ Unsubscribe(p) \/ ResetLink(p) \/ ReadInbox(p)

PublicationRest ==
    /\ service.at = "idle" /\ posts = 0 /\ poll.at = "idle" /\ ~poll.queued
    /\ \A w \in Writers : writer[w].at = "idle"
    /\ \A p \in Ports : inbox[p].queue = <<>>
    /\ UNCHANGED publicationVars

PublicationNext == WriterStep \/ WriterAct \/ PublisherStep \/ PollStep \/ Others \/ PublicationRest

(* A call that has begun goes on, and the service thread and the work      *)
(* queue run                                                               *)
PublicationFairness ==
    /\ WF_publicationVars(WriterStep) /\ WF_publicationVars(PublisherStep)
    /\ WF_publicationVars(PollStep)

PublicationSpec == PublicationInit /\ [][PublicationNext]_publicationVars /\ PublicationFairness

-----------------------------------------------------------------------------
(* Properties *)

(* Every variable stays within its type, the ring within its depth.        *)
PublicationTypeOK ==
    /\ pDesign \in PublicationDesigns
    /\ ring \in Seq(Nat) /\ Len(ring) <= pDesign.depth
    /\ \A i \in Slots : pool[i] \in
          [state : {"Free", "Loaned", "Ready"}, generation : Nat, value : Nat]
    /\ sequence \in Nat /\ wake \in BOOLEAN /\ interested \in Nat /\ posts \in Nat
    /\ subs \in [Ports -> BOOLEAN]
    /\ poll.inFlight \in BOOLEAN /\ poll.queued \in BOOLEAN
    /\ \A p \in Ports : inbox[p].listening \in BOOLEAN /\ Len(inbox[p].queue) <= pDesign.inbox

(* A wakeup that is marked pending is on its way: its event is queued, or  *)
(* a thread that set the mark or is about to clear it has not finished.    *)
(* Otherwise every later write would be Coalesced and nothing published.   *)
WakeUnderWay ==
    wake => \/ posts > 0 \/ service.at \in {"take", "take loan", "repost"}
            \/ \E w \in Writers : writer[w].at \in {"interest", "unwake", "post"}
                                  /\ (~writer[w].pending \/ writer[w].at # "post")

(* The number of sessions writers look at is the number of links that      *)
(* subscribe, but for the request under way.                               *)
Subscribed == Cardinality({p \in Ports : subs[p]})
InterestCounted ==
    ~Polling => IF service.at = "count"
                THEN interested = Subscribed + (IF service.enable THEN -1 ELSE 1)
                ELSE interested = Subscribed

(* What a host reads of a ring comes in the order it was written, none of  *)
(* it twice, whatever is dropped, skipped or batched on the way.           *)
ReadInOrder ==
    Ringed => \A p \in Ports :
        LET seen == <<inbox[p].last>> \o inbox[p].queue
                    \o (IF service.at = "publish" /\ service.port <= p THEN service.values ELSE <<>>)
                    \o ring
        IN \A i, j \in DOMAIN seen : i < j => seen[i] < seen[j]

(* A buffer that is lent belongs to one writer, who finds it as lent: no   *)
(* release of an earlier loan frees it.                                    *)
LoansKept ==
    /\ \A w \in Writers : writer[w].at = "lent" =>
          Owns(writer[w].slot, writer[w].generation, "Loaned")
    /\ Cardinality(InState("Loaned")) = Cardinality({w \in Writers : writer[w].at = "lent"})

(* A buffer the service thread is sending from stays as it is while the    *)
(* subscriptions do.  (A writer that found no subscriber before a new one  *)
(* came releases its buffer even while it is being sent.)                  *)
LoanStable ==
    Lending /\ service.at = "publish" /\ did.requests = 0 =>
        Owns(service.slot, service.generation, "Ready")

(* At most one read of a poll is in flight, and the mark never outlives    *)
(* it: the endpoint would not be read again.                               *)
OnePoll ==
    /\ poll.queued \/ poll.at # "idle" \/ service.at = "submit" <=> poll.inFlight
    /\ ~(poll.queued /\ poll.at # "idle")

(* A value whose writer was told of a wakeup leaves the ring, to be        *)
(* published or to make room.  Two things can undo the wakeup: a full      *)
(* event queue, and another writer that found no subscriber before the     *)
(* subscriptions changed.                                                  *)
Undoing == pDesign.crowded \/ (pDesign.writers > 1 /\ did.requests > 0)
PromiseKept ==
    (~Undoing /\ \E v \in promised : \E i \in DOMAIN ring : ring[i] = v) ~>
        (Undoing \/ \A v \in promised : \A i \in DOMAIN ring : ring[i] # v)

(* A buffer that has been committed is released.                           *)
LoansReturned == (InState("Ready") # {}) ~> (InState("Ready") = {})

(* What a publication promises, together: a pending wakeup is on its way,  *)
(* subscribers are counted, values are read in order, a lent buffer has    *)
(* one owner and stays as it is, and one read of a poll is in flight.      *)
PublicationsSound ==
    /\ PublicationTypeOK /\ WakeUnderWay /\ InterestCounted /\ ReadInOrder
    /\ LoansKept /\ LoanStable /\ OnePoll

(* What was promised to be published is, and committed buffers come back.  *)
PublicationsProgress == PromiseKept /\ LoansReturned

=============================================================================
