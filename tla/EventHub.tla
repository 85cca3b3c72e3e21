------------------------------ MODULE EventHub ------------------------------
(***************************************************************************)
(* The broker event hub (internal/server/broker_events.go): publishers on  *)
(* several goroutines (the handlers of the MQTT client, the poller of the  *)
(* broker's log) and the WebSocket handlers that subscribe, read and leave,*)
(* while an administrator may revoke the account they belong to.  The hub  *)
(* replays its buffers to a new stream and offers every later event to all *)
(* the registered ones without waiting for them.                           *)
(*                                                                         *)
(* An event is its position in the history of all the events published.    *)
(* The table of $SYS values, which keeps the hundred topics updated last,  *)
(* and the stored copy of the events are not modelled: no stream reads     *)
(* them.                                                                   *)
(***************************************************************************)
EXTENDS SequencesExt

CONSTANTS
    Stream,             \* WebSocket connections
    User, UserOf,       \* accounts; the one that opens a stream
    MaxLogs,            \* maxBrokerLogBuffer
    MaxReplay,          \* maxBrokerInitialTopicEvents
    MaxTraffic,         \* maxBrokerTrafficEvents
    Spare,              \* the 16 of brokerEventSubscriberCapacity
    MaxEvents           \* bound: events published

Type == {"broker_status", "broker_log", "topic_message",
         "broker_sys_metric", "broker_log_entry"}
brokerEventSubscriberCapacity == MaxLogs + MaxReplay + Spare

ASSUME EventHubAssumption ==
    /\ UserOf \in [Stream -> User]
    /\ MaxLogs \in Nat /\ MaxReplay \in Nat /\ MaxTraffic \in Nat
    /\ MaxEvents \in Nat /\ Spare \in Nat \ {0}

VARIABLES
    published,      \* history: the types of the events, in order
    status,         \* h.status: the latest status event (0: the initial one)
    logs, traffic,  \* h.logs, h.trafficEvents
    stream,         \* the WebSocket handlers and their subscriptions
    users           \* accounts: "active", "revoking" (the store is updated
                    \* and RevokeUser is not called yet), "revoked"

buffers == <<published, status, logs, traffic>>
vars == <<buffers, stream, users>>

\* at: where handleBrokerEvents is; auditor: the role is auditor or more, as
\* the store had it when the stream was admitted; registered: h.subscribers
\* has it; closes: calls of close(sub.ch); queue: sub.ch; writing: the handler
\* stands in conn.Write.  History: got, the events handed to conn.Write;
\* replay, what Subscribe sent; from and to, the number of events published
\* when it was registered and closed; dropped, an offer was refused.
Unopened ==
    [at |-> "new", auditor |-> FALSE, registered |-> FALSE, closes |-> 0,
     queue |-> <<>>, writing |-> FALSE, got |-> <<>>, replay |-> <<>>, from |-> 0,
     to |-> 0, dropped |-> FALSE]

Init ==
    /\ published = <<>> /\ status = 0 /\ logs = <<>> /\ traffic = <<>>
    /\ stream = [s \in Stream |-> Unopened]
    /\ users = [u \in User |-> "active"]

-----------------------------------------------------------------------------
(* Publish is one critical section: the buffers, and an offer to every     *)
(* subscriber, which is dropped when the subscriber's queue is full.       *)

Bounded(seq, n) ==
    IF Len(seq) > n THEN SubSeq(seq, Len(seq) - n + 1, Len(seq)) ELSE seq

Wants(s, type) == type = "broker_log_entry" => stream[s].auditor

OfferedEvicting(s, i) ==        \* mutant: makes room by dropping the oldest
    IF Len(stream[s].queue) < brokerEventSubscriberCapacity
    THEN [stream[s] EXCEPT !.queue = Append(@, i)]
    ELSE [stream[s] EXCEPT !.queue = Append(Tail(@), i), !.dropped = TRUE]

Offered(s, i) ==
    IF Len(stream[s].queue) < brokerEventSubscriberCapacity
    THEN [stream[s] EXCEPT !.queue = Append(@, i)]
    ELSE [stream[s] EXCEPT !.dropped = TRUE]

Buffered(i) == Bounded(Append(logs, i), MaxLogs)

\* pruneTrafficEventsLocked: the events older than the window, and whatever
\* is over the limit.
Pruned(i, aged) ==
    Bounded(SubSeq(Append(traffic, i), aged + 1, Len(traffic) + 1), MaxTraffic)

Publish(type) ==
    LET i == Len(published) + 1 IN
    /\ Len(published) < MaxEvents
    /\ published' = Append(published, type)
    /\ status' = IF type = "broker_status" THEN i ELSE status
    /\ logs' = IF type = "broker_log" THEN Buffered(i) ELSE logs
    /\ IF type = "topic_message"
       THEN \E aged \in 0 .. Len(traffic) : traffic' = Pruned(i, aged)
       ELSE UNCHANGED traffic
    /\ stream' = [s \in Stream |->
                    IF stream[s].registered /\ Wants(s, type)
                    THEN Offered(s, i) ELSE stream[s]]
    /\ UNCHANGED users

ReplayWholeTraffic == <<status>> \o logs \o traffic     \* mutant: no limit

\* Subscribe: the replay and the registration are one critical section.
Replay == <<status>> \o logs \o Bounded(traffic, MaxReplay)

Subscribe(s) ==
    /\ stream[s].at = "admitted"
    /\ stream' = [stream EXCEPT ![s].at = "open", ![s].registered = TRUE,
                                ![s].queue = Replay, ![s].replay = Replay,
                                ![s].from = Len(published)]
    /\ UNCHANGED <<buffers, users>>

\* close(sub.ch) after the subscriber left the map.
Closing(sub) ==
    [sub EXCEPT !.registered = FALSE, !.closes = @ + 1,
                !.to = Len(published)]

UnsubscribedTwice(sub) == Closing(sub)  \* mutant: not only when registered

\* unsubscribe, deferred by the WebSocket handler.
Unsubscribed(sub) == IF sub.registered THEN Closing(sub) ELSE sub

RevokeUser(u) ==
    /\ users[u] = "revoking"
    /\ users' = [users EXCEPT ![u] = "revoked"]
    /\ stream' = [s \in Stream |->
                    IF UserOf[s] = u /\ stream[s].registered
                    THEN Closing(stream[s]) ELSE stream[s]]
    /\ UNCHANGED buffers

-----------------------------------------------------------------------------
(* A WebSocket connection: handleBrokerEvents.                             *)

\* The account is read from the store before the upgrade.
Admit(s) ==
    /\ stream[s].at = "new" /\ users[UserOf[s]] = "active"
    /\ \E auditor \in BOOLEAN :
           stream' = [stream EXCEPT ![s].at = "admitted", ![s].auditor = auditor]
    /\ UNCHANGED <<buffers, users>>

AcceptFails(s) ==
    /\ stream[s].at = "admitted"
    /\ stream' = [stream EXCEPT ![s].at = "ended"]
    /\ UNCHANGED <<buffers, users>>

\* The handler receives an event and calls conn.Write with it.
Deliver(s) ==
    /\ stream[s].at = "open" /\ stream[s].queue # <<>> /\ ~stream[s].writing
    /\ stream' = [stream EXCEPT ![s].queue = Tail(@), ![s].writing = TRUE,
                                ![s].got = Append(@, Head(stream[s].queue))]
    /\ UNCHANGED <<buffers, users>>

\* The write has no deadline: it ends when the peer reads.
WriteEnds(s) ==
    /\ stream[s].at = "open" /\ stream[s].writing
    /\ stream' = [stream EXCEPT ![s].writing = FALSE]
    /\ UNCHANGED <<buffers, users>>

\* What is left of a stream once its handler returned.
Ended(sub) ==
    [at |-> "ended", auditor |-> FALSE, registered |-> sub.registered,
     closes |-> sub.closes, queue |-> <<>>, writing |-> FALSE, got |-> <<>>,
     replay |-> <<>>, from |-> 0, to |-> 0, dropped |-> FALSE]

\* The client is gone, or the write of an event fails.
Leave(s) ==
    /\ stream[s].at = "open"
    /\ stream' = [stream EXCEPT ![s] = Ended(Unsubscribed(@))]
    /\ UNCHANGED <<buffers, users>>

SeeClosedAsEmpty(s) ==          \* mutant: the ok of the receive is ignored
    FALSE /\ UNCHANGED vars

\* The channel is closed and its last event read.
SeeClosed(s) ==
    /\ stream[s].at = "open" /\ stream[s].closes > 0 /\ stream[s].queue = <<>>
    /\ ~stream[s].writing
    /\ stream' = [stream EXCEPT ![s] = Ended(Unsubscribed(@))]
    /\ UNCHANGED <<buffers, users>>

\* An administrator disables or deletes the account: the store first.
DisableUser(u) ==
    /\ users[u] = "active"
    /\ users' = [users EXCEPT ![u] = "revoking"]
    /\ UNCHANGED <<buffers, stream>>

-----------------------------------------------------------------------------

StreamStep(s) ==
    \/ Admit(s) \/ AcceptFails(s) \/ Subscribe(s)
    \/ Deliver(s) \/ WriteEnds(s) \/ Leave(s) \/ SeeClosed(s)

Next ==
    \/ \E type \in Type : Publish(type)
    \/ \E s \in Stream : StreamStep(s)
    \/ \E u \in User : DisableUser(u) \/ RevokeUser(u)

Spec == Init /\ [][Next]_vars

\* The goroutine of a WebSocket handler is scheduled while it stands in its
\* select.  Nothing ends a write to a peer that does not read.
FairSpec == Spec /\ \A s \in Stream : WF_vars(Deliver(s) \/ SeeClosed(s))

-----------------------------------------------------------------------------
(* Properties *)

Subscription ==
    [at : {"new", "admitted", "open", "ended"}, auditor : BOOLEAN,
     registered : BOOLEAN, closes : Nat, queue : Seq(Nat), writing : BOOLEAN,
     got : Seq(Nat), replay : Seq(Nat), from : Nat, to : Nat, dropped : BOOLEAN]

\* Types, and no buffer or queue exceeds its limit.
TypeOK ==
    /\ published \in Seq(Type) /\ status \in Nat
    /\ logs \in Seq(Nat) /\ Len(logs) <= MaxLogs
    /\ traffic \in Seq(Nat) /\ Len(traffic) <= MaxTraffic
    /\ stream \in [Stream -> Subscription]
    /\ \A s \in Stream : Len(stream[s].queue) <= brokerEventSubscriberCapacity
    /\ users \in [User -> {"active", "revoking", "revoked"}]

\* Subscribe sends the replay into the new channel while it holds the lock of
\* the hub: if it did not fit, every publisher would wait for ever.
ReplayFits == Len(Replay) <= brokerEventSubscriberCapacity

PositionsOf(type, events) == {i \in DOMAIN events : events[i] = type}

Increasing(seq) == \A i, j \in DOMAIN seq : i < j => seq[i] < seq[j]

\* seq shows positions of S, in order.
InOrder(seq, S) == Range(seq) \subseteq S /\ Increasing(seq)

\* seq shows the n newest positions of S, or all if there are fewer, in order.
Newest(seq, S, n) ==
    /\ InOrder(seq, S)
    /\ \A i \in S \ Range(seq) : Len(seq) = n /\ \A j \in Range(seq) : i < j

\* A replay sent after these events shows the hub's present: the newest status
\* (0 is the initial one), the newest log lines, then topic messages.
ShowsPresent(replay, events) ==
    LET statuses == {0} \cup PositionsOf("broker_status", events) IN
    /\ Head(replay) \in statuses /\ \A i \in statuses : i <= Head(replay)
    /\ \E k \in 1 .. Len(replay) :
          /\ Newest(SubSeq(replay, 2, k),
                    PositionsOf("broker_log", events), MaxLogs)
          /\ InOrder(SubSeq(replay, k + 1, Len(replay)),
                     PositionsOf("topic_message", events))

\* The events of the history that were published while a subscription was
\* registered and that its role may read.
Live(sub, events) ==
    {i \in sub.from + 1 .. IF sub.registered THEN Len(events) ELSE sub.to :
        events[i] = "broker_log_entry" => sub.auditor}

\* What a stream is shown first is the hub's present (the newest status and the
\* newest log lines, as many as are kept, in order), and there is no gap and no
\* duplicate between this replay and the live events: a stream gets its replay
\* and then, in order, every event published from its subscription to its end
\* that its role may read; a slow one misses some of the later events and still
\* none of the replay.
StreamIsExact ==
    \A s \in {t \in Stream : stream[t].at = "open"} :
        LET sub == stream[s]
            seen == sub.got \o sub.queue
            live == Live(sub, published)
            rest == SubSeq(seen, Len(sub.replay) + 1, Len(seen))
        IN  /\ ShowsPresent(sub.replay, SubSeq(published, 1, sub.from))
            /\ IsPrefix(sub.replay, seen)
            /\ InOrder(rest, live)
            /\ ~sub.dropped => live \subseteq Range(rest)

\* No goroutine panics on the channel of a subscriber: RevokeUser and the
\* deferred unsubscribe close it once between them, and nothing is offered to
\* a closed one.
ChannelsSound ==
    \A s \in Stream : /\ stream[s].closes <= 1
                      /\ stream[s].registered => stream[s].closes = 0

\* A stream whose channel was closed ends (its WebSocket is closed), unless it
\* stands for ever in a write that its peer does not read: what the channel
\* still held is written first, however the writes and the close interleave.
RevokedStreamEnds ==
    \A s \in Stream : []<>(~stream[s].writing) =>
                         (stream[s].closes > 0 ~> stream[s].at = "ended")

\* RevokeUser: it "closes every live broker-event subscription owned by userID
\* ... so the long-lived stream stops receiving broker data within the same
\* request that revoked the user".  A handler that had read the account before
\* it was disabled subscribes after RevokeUser looked, and is never closed.
RevokedIsCutOff ==
    \A s \in Stream : users[UserOf[s]] = "revoked" => ~stream[s].registered
=============================================================================
