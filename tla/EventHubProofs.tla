---------------------------- MODULE EventHubProofs ----------------------------
(***************************************************************************)
(* Proofs about EventHub, for any number of streams and accounts and any   *)
(* sizes of the buffers: the limits of the buffers and queues, that a      *)
(* subscription never blocks, that a channel is closed once, and that a    *)
(* stream is shown the hub's present and then each event it may read.      *)
(***************************************************************************)
EXTENDS EventHub, BrokerMonitor, SequenceTheorems, TLAPS

(* Trimming a buffer keeps a sequence of at most n elements. *)
LEMMA BoundedFits ==
    ASSUME NEW q \in Seq(Nat), NEW n \in Nat
    PROVE  /\ Bounded(q, n) \in Seq(Nat)
           /\ Len(Bounded(q, n)) <= n
  BY DEF Bounded

(* The replay fits into a new channel whenever the log buffer is trimmed:  *)
(* its capacity has room for the status besides both buffers.              *)
LEMMA ReplayFitsWhenTyped ==
    ASSUME TypeOK
    PROVE  Replay \in Seq(Nat) /\ ReplayFits
  <1>1. /\ Bounded(traffic, MaxReplay) \in Seq(Nat)
        /\ Len(Bounded(traffic, MaxReplay)) <= MaxReplay
    BY BoundedFits, EventHubAssumption DEF TypeOK
  <1>2. /\ <<status>> \o logs \in Seq(Nat)
        /\ Len(<<status>> \o logs) = 1 + Len(logs)
    BY DEF TypeOK
  <1>3. Replay \in Seq(Nat)
    BY <1>1, <1>2 DEF Replay
  <1>4. Len(Replay) = 1 + Len(logs) + Len(Bounded(traffic, MaxReplay))
    BY <1>1, <1>2 DEF Replay
  <1>5. Len(Replay) <= brokerEventSubscriberCapacity
    BY <1>1, <1>4, EventHubAssumption DEF TypeOK, brokerEventSubscriberCapacity
  <1>6. QED
    BY <1>3, <1>5 DEF ReplayFits

-----------------------------------------------------------------------------
(* The inductive invariant: besides the types, a stream that has not       *)
(* subscribed yet has never been closed, so that Subscribe registers only  *)
(* an open channel.                                                        *)
Unsubscribed0(s) ==
    stream[s].at \in {"new", "admitted"} =>
        ~stream[s].registered /\ stream[s].closes = 0

IInv == TypeOK /\ ChannelsSound /\ \A s \in Stream : Unsubscribed0(s)

\* What IInv says of one stream.
Sound(sub) ==
    /\ sub \in Subscription
    /\ Len(sub.queue) <= brokerEventSubscriberCapacity
    /\ sub.closes <= 1
    /\ sub.registered => sub.closes = 0
    /\ sub.at \in {"new", "admitted"} => ~sub.registered /\ sub.closes = 0

Buffers ==
    /\ published \in Seq(Type) /\ status \in Nat
    /\ logs \in Seq(Nat) /\ Len(logs) <= MaxLogs
    /\ traffic \in Seq(Nat) /\ Len(traffic) <= MaxTraffic

LEMMA IInvByStream ==
    IInv <=> /\ Buffers
             /\ stream = [s \in Stream |-> stream[s]]
             /\ \A s \in Stream : Sound(stream[s])
             /\ users \in [User -> {"active", "revoking", "revoked"}]
  BY DEF IInv, TypeOK, ChannelsSound, Unsubscribed0, Sound, Buffers

LEMMA InitIInv == Init => IInv
  <1> SUFFICES ASSUME Init PROVE IInv
    OBVIOUS
  <1>1. Buffers
    BY EventHubAssumption DEF Init, Buffers
  <1>2. Sound(Unopened)
    BY EventHubAssumption
       DEF Sound, Unopened, Subscription, brokerEventSubscriberCapacity
  <1>3. QED
    BY <1>1, <1>2, IInvByStream DEF Init

(* Closing a sound registered channel leaves it sound, and so does the     *)
(* deferred unsubscribe of any open stream.                                *)
LEMMA ClosingSound ==
    ASSUME NEW sub, Sound(sub), sub.registered, published \in Seq(Type)
    PROVE  Sound(Closing(sub))
  <1>1. /\ sub \in Subscription /\ sub.closes = 0 /\ Len(published) \in Nat
        /\ sub.at \notin {"new", "admitted"}
        /\ Len(sub.queue) <= brokerEventSubscriberCapacity
    BY DEF Sound
  <1> DEFINE a == [sub EXCEPT !.registered = FALSE]
  <1>2. /\ a \in Subscription /\ a.queue = sub.queue
        /\ a.registered = FALSE /\ a.at = sub.at
    BY <1>1 DEF Subscription
  <1> HIDE DEF a
  <1> DEFINE n == sub.closes + 1
  <1>n. n = 1 /\ n \in Nat
    BY <1>1
  <1> HIDE DEF n
  <1> DEFINE b == [a EXCEPT !.closes = n]
  <1>3. /\ b \in Subscription /\ b.queue = sub.queue /\ b.closes = 1
        /\ b.registered = FALSE /\ b.at = sub.at
    BY <1>n, <1>2 DEF Subscription
  <1> HIDE DEF b
  <1> DEFINE c == [b EXCEPT !.to = Len(published)]
  <1>4. /\ c \in Subscription /\ c.queue = sub.queue /\ c.closes = 1
        /\ c.registered = FALSE /\ c.at = sub.at
    BY <1>1, <1>3 DEF Subscription
  <1>5. Closing(sub) = c
    BY DEF Closing, a, b, n
  <1> HIDE DEF c
  <1>6. QED
    BY <1>1, <1>4, <1>5 DEF Sound

LEMMA EndedSound ==
    ASSUME NEW sub, Sound(sub), published \in Seq(Type)
    PROVE  Sound(Ended(Unsubscribed(sub)))
  <1> DEFINE left == Unsubscribed(sub)
             next == Ended(left)
  <1>1. Sound(left)
    BY ClosingSound DEF Unsubscribed
  <1>2. left.registered \in BOOLEAN /\ left.closes \in Nat
    BY <1>1 DEF Sound, Subscription
  <1>3. next = [at |-> "ended", auditor |-> FALSE, registered |-> left.registered,
                closes |-> left.closes, queue |-> <<>>, writing |-> FALSE, got |-> <<>>,
                replay |-> <<>>, from |-> 0, to |-> 0, dropped |-> FALSE]
    BY DEF Ended
  <1>4. /\ next \in Subscription /\ Len(next.queue) = 0 /\ next.at = "ended"
        /\ next.closes = left.closes /\ next.registered = left.registered
    BY <1>2, <1>3 DEF Subscription
  <1>5. QED
    BY <1>1, <1>4, EventHubAssumption DEF Sound, brokerEventSubscriberCapacity

LEMMA OfferedSound ==
    ASSUME NEW s \in Stream, Sound(stream[s]), stream[s].registered, NEW i \in Nat
    PROVE  Sound(Offered(s, i))
  <1> DEFINE sub == stream[s]
             C == brokerEventSubscriberCapacity
             longer == Append(sub.queue, i)
  <1>1. /\ sub \in Subscription /\ sub.queue \in Seq(Nat)
        /\ Len(sub.queue) <= C /\ C \in Nat
    BY EventHubAssumption DEF Sound, Subscription, brokerEventSubscriberCapacity
  <1>2. longer \in Seq(Nat) /\ Len(longer) = Len(sub.queue) + 1
    BY <1>1
  <1>3. CASE Len(sub.queue) < C
    <2> DEFINE next == [sub EXCEPT !.queue = longer]
    <2>1. Len(longer) <= C
      BY <1>1, <1>2, <1>3
    <2>2. /\ next \in Subscription
          /\ next.queue = longer /\ next.closes = sub.closes
          /\ next.registered = sub.registered /\ next.at = sub.at
      BY <1>1, <1>2 DEF Subscription
    <2>3. Sound(next)
      BY <2>1, <2>2 DEF Sound
    <2>4. QED
      BY <1>3, <2>3 DEF Offered
  <1>4. CASE ~(Len(sub.queue) < C)
    BY <1>1, <1>4 DEF Sound, Offered, Subscription
  <1>5. QED
    BY <1>3, <1>4

LEMMA NextIInv == IInv /\ [Next]_vars => IInv'
  <1> SUFFICES ASSUME IInv, [Next]_vars PROVE IInv'
    OBVIOUS
  <1>1. /\ TypeOK /\ Buffers
        /\ \A s \in Stream : Sound(stream[s])
        /\ stream = [s \in Stream |-> stream[s]]
        /\ users \in [User -> {"active", "revoking", "revoked"}]
    BY IInvByStream DEF IInv
  \* It is enough to keep the buffers, the accounts and each stream.
  <1>2. SUFFICES /\ Buffers'
                 /\ stream' = [s \in Stream |-> stream'[s]]
                 /\ \A s \in Stream : Sound(stream'[s])
                 /\ users' \in [User -> {"active", "revoking", "revoked"}]
    BY DEF IInv, TypeOK, ChannelsSound, Unsubscribed0, Sound, Buffers
  <1>3. ASSUME NEW type \in Type, Publish(type)
        PROVE  /\ Buffers'
               /\ stream' = [s \in Stream |-> stream'[s]]
               /\ \A s \in Stream : Sound(stream'[s])
               /\ users' \in [User -> {"active", "revoking", "revoked"}]
    <2> DEFINE i == Len(published) + 1
    <2>1. i \in Nat
      BY <1>1 DEF Buffers
    <2>2. published' \in Seq(Type) /\ status' \in Nat
      BY <1>1, <1>3, <2>1 DEF Publish, Buffers
    <2>3. logs' \in Seq(Nat) /\ Len(logs') <= MaxLogs
      <3>1. Append(logs, i) \in Seq(Nat)
        BY <1>1, <2>1 DEF Buffers
      <3>2. Buffered(i) \in Seq(Nat) /\ Len(Buffered(i)) <= MaxLogs
        BY <3>1, BoundedFits, EventHubAssumption DEF Buffered
      <3>3. QED
        BY <1>1, <1>3, <3>2 DEF Publish, Buffers
    <2>4. traffic' \in Seq(Nat) /\ Len(traffic') <= MaxTraffic
      <3>1. ASSUME NEW aged \in 0 .. Len(traffic)
            PROVE  Pruned(i, aged) \in Seq(Nat) /\ Len(Pruned(i, aged)) <= MaxTraffic
        <4>1. /\ Append(traffic, i) \in Seq(Nat)
              /\ Len(Append(traffic, i)) = Len(traffic) + 1
          BY <1>1, <2>1 DEF Buffers
        <4>2. SubSeq(Append(traffic, i), aged + 1, Len(traffic) + 1) \in Seq(Nat)
          BY <1>1, <4>1 DEF Buffers
        <4>3. QED
          BY <4>2, BoundedFits, EventHubAssumption DEF Pruned
      <3>2. QED
        BY <1>1, <1>3, <3>1 DEF Publish, Buffers
    <2>5. ASSUME NEW s \in Stream PROVE Sound(stream'[s])
      BY <1>1, <1>3, <2>1, <2>5, OfferedSound DEF Publish
    <2>6. QED
      BY <1>1, <1>3, <2>2, <2>3, <2>4, <2>5 DEF Publish, Buffers
  <1>4. ASSUME NEW s \in Stream, StreamStep(s)
        PROVE  /\ UNCHANGED <<buffers, users>>
               /\ \E next : Sound(next) /\ stream' = [stream EXCEPT ![s] = next]
    <2>1. published \in Seq(Type) /\ Sound(stream[s])
      BY <1>1 DEF Buffers
    <2>2. CASE Admit(s)
      <3>1. PICK auditor \in BOOLEAN :
              stream' = [stream EXCEPT ![s].at = "admitted", ![s].auditor = auditor]
        BY <2>2 DEF Admit
      <3> DEFINE next == [stream[s] EXCEPT !.at = "admitted", !.auditor = auditor]
      <3>2. Sound(next)
        BY <2>1, <2>2 DEF Admit, Sound, Subscription
      <3>3. stream' = [stream EXCEPT ![s] = next]
        BY <1>1, <3>1
      <3>4. QED
        BY <2>2, <3>2, <3>3 DEF Admit
    <2>3. CASE AcceptFails(s)
      <3> DEFINE next == [stream[s] EXCEPT !.at = "ended"]
      <3>1. Sound(next)
        BY <2>1 DEF Sound, Subscription
      <3>2. stream' = [stream EXCEPT ![s] = next]
        BY <1>1, <2>3 DEF AcceptFails
      <3>3. QED
        BY <2>3, <3>1, <3>2 DEF AcceptFails
    <2>4. CASE Subscribe(s)
      <3>1. Replay \in Seq(Nat) /\ Len(Replay) <= brokerEventSubscriberCapacity
        BY <1>1, ReplayFitsWhenTyped DEF ReplayFits
      <3>2. /\ stream[s] \in Subscription /\ stream[s].closes = 0
            /\ Len(published) \in Nat
        BY <2>1, <2>4 DEF Subscribe, Sound
      <3> DEFINE a == [stream[s] EXCEPT !.at = "open"]
      <3>3. a \in Subscription /\ a.at = "open" /\ a.closes = 0
        BY <3>2 DEF Subscription
      <3> HIDE DEF a
      <3> DEFINE b == [a EXCEPT !.registered = TRUE]
      <3>4. b \in Subscription /\ b.at = "open" /\ b.closes = 0
        BY <3>3 DEF Subscription
      <3> HIDE DEF b
      <3> DEFINE c == [b EXCEPT !.queue = Replay]
      <3>5. c \in Subscription /\ c.at = "open" /\ c.closes = 0 /\ c.queue = Replay
        BY <3>1, <3>4 DEF Subscription
      <3> HIDE DEF c
      <3> DEFINE d == [c EXCEPT !.replay = Replay]
      <3>6. d \in Subscription /\ d.at = "open" /\ d.closes = 0 /\ d.queue = Replay
        BY <3>1, <3>5 DEF Subscription
      <3> HIDE DEF d
      <3> DEFINE e == [d EXCEPT !.from = Len(published)]
      <3>7. e \in Subscription /\ e.at = "open" /\ e.closes = 0 /\ e.queue = Replay
        BY <3>2, <3>6 DEF Subscription
      <3>8. stream' = [stream EXCEPT ![s] = e]
        BY <1>1, <2>4 DEF Subscribe, a, b, c, d
      <3> HIDE DEF e
      <3>9. Sound(e)
        BY <3>1, <3>7 DEF Sound
      <3>10. QED
        BY <2>4, <3>8, <3>9 DEF Subscribe
    <2>5. CASE Deliver(s)
      <3> DEFINE q == stream[s].queue
                 next == [stream[s] EXCEPT !.queue = Tail(q), !.writing = TRUE,
                                           !.got = Append(@, Head(q))]
      <3>1. q \in Seq(Nat) /\ q # <<>> /\ stream[s].got \in Seq(Nat)
        BY <2>1, <2>5 DEF Deliver, Sound, Subscription
      <3>2. /\ Tail(q) \in Seq(Nat) /\ Len(Tail(q)) <= Len(q)
            /\ Append(stream[s].got, Head(q)) \in Seq(Nat)
        <4>1. /\ Len(q) \in Nat /\ Len(q) # 0
              /\ Head(q) \in Nat /\ Tail(q) \in Seq(Nat)
          BY <3>1
        <4>2. Len(Tail(q)) = Len(q) - 1
          BY <3>1
        <4>3. QED
          BY <3>1, <4>1, <4>2
      <3>3. /\ next \in Subscription /\ next.queue = Tail(q)
            /\ next.closes = stream[s].closes /\ next.at = stream[s].at
            /\ next.registered = stream[s].registered
        BY <2>1, <3>2 DEF Sound, Subscription
      <3>4. Len(next.queue) <= brokerEventSubscriberCapacity
        BY <2>1, <3>1, <3>2, <3>3, EventHubAssumption
           DEF Sound, brokerEventSubscriberCapacity
      <3>5. Sound(next)
        BY <2>1, <3>3, <3>4 DEF Sound
      <3>6. stream' = [stream EXCEPT ![s] = next]
        BY <1>1, <2>5 DEF Deliver
      <3>7. QED
        BY <2>5, <3>5, <3>6 DEF Deliver
    <2>a. CASE WriteEnds(s)
      <3> DEFINE next == [stream[s] EXCEPT !.writing = FALSE]
      <3>1. Sound(next)
        BY <2>1 DEF Sound, Subscription
      <3>2. stream' = [stream EXCEPT ![s] = next]
        BY <1>1, <2>a DEF WriteEnds
      <3>3. QED
        BY <2>a, <3>1, <3>2 DEF WriteEnds
    <2>6. CASE Leave(s) \/ SeeClosed(s)
      <3>1. Sound(Ended(Unsubscribed(stream[s])))
        BY <2>1, EndedSound
      <3>2. stream' = [stream EXCEPT ![s] = Ended(Unsubscribed(stream[s]))]
        BY <2>6 DEF Leave, SeeClosed
      <3>3. QED
        BY <2>6, <3>1, <3>2 DEF Leave, SeeClosed
    <2>7. QED
      BY <1>4, <2>2, <2>3, <2>4, <2>5, <2>a, <2>6 DEF StreamStep
  <1>5. ASSUME NEW u \in User, DisableUser(u)
        PROVE  /\ UNCHANGED <<buffers, stream>>
               /\ users' \in [User -> {"active", "revoking", "revoked"}]
    BY <1>1, <1>5 DEF DisableUser
  <1>6. ASSUME NEW u \in User, RevokeUser(u)
        PROVE  /\ UNCHANGED buffers
               /\ stream' = [s \in Stream |-> stream'[s]]
               /\ \A s \in Stream : Sound(stream'[s])
               /\ users' \in [User -> {"active", "revoking", "revoked"}]
    <2>1. ASSUME NEW s \in Stream PROVE Sound(stream'[s])
      BY <1>1, <1>6, <2>1, ClosingSound DEF RevokeUser, Buffers
    <2>2. QED
      BY <1>1, <1>6, <2>1 DEF RevokeUser
  <1>7. CASE UNCHANGED vars
    BY <1>1, <1>7 DEF vars, buffers, Buffers
  <1>8. CASE \E s \in Stream : StreamStep(s)
    <2>1. PICK s \in Stream : StreamStep(s)
      BY <1>8
    <2>2. PICK next : Sound(next) /\ stream' = [stream EXCEPT ![s] = next]
      BY <1>4, <2>1
    <2>3. \A t \in Stream : Sound(stream'[t])
      BY <1>1, <2>2
    <2>4. stream' = [t \in Stream |-> stream'[t]]
      BY <1>1, <2>2
    <2>5. UNCHANGED <<buffers, users>>
      BY <1>4, <2>1
    <2>6. QED
      BY <1>1, <2>3, <2>4, <2>5 DEF buffers, Buffers
  <1>9. CASE \E u \in User : RevokeUser(u)
    BY <1>1, <1>6, <1>9 DEF buffers, Buffers
  <1>10. CASE \E u \in User : DisableUser(u)
    BY <1>1, <1>5, <1>10 DEF buffers, Buffers
  <1>11. QED
    BY <1>3, <1>7, <1>8, <1>9, <1>10 DEF Next

(* The buffers and the queues of any hub keep their types and limits.      *)
THEOREM TypeCorrect == Spec => []TypeOK
  <1>1. IInv => TypeOK
    BY DEF IInv
  <1>2. QED
    BY InitIInv, NextIInv, <1>1, PTL DEF Spec

(* Subscribe never blocks while it holds the lock of the hub: in every     *)
(* reachable state the replay fits into a new subscriber's channel.        *)
THEOREM SubscribeNeverBlocks == Spec => []ReplayFits
  <1>1. TypeOK => ReplayFits
    BY ReplayFitsWhenTyped
  <1>2. QED
    BY TypeCorrect, <1>1, PTL

(* However RevokeUser, unsubscribe and Publish interleave, no channel is   *)
(* closed twice and none is offered an event after its close.              *)
THEOREM ChannelsAreSound == Spec => []ChannelsSound
  <1>1. IInv => ChannelsSound
    BY DEF IInv
  <1>2. QED
    BY InitIInv, NextIInv, <1>1, PTL DEF Spec

-----------------------------------------------------------------------------
(* What a stream is shown.                                                 *)

(* Operators on positions in order.                                        *)
LEMMA SliceInOrder ==
    ASSUME NEW q \in Seq(Nat), NEW S, InOrder(q, S), NEW a \in Nat \ {0}
    PROVE  InOrder(SubSeq(q, a, Len(q)), S)
  <1> DEFINE p == SubSeq(q, a, Len(q))
  <1>1. p \in Seq(Nat) /\ \A k \in DOMAIN p : k + a - 1 \in DOMAIN q /\ p[k] = q[k + a - 1] /\ k \in Nat
    OBVIOUS
  <1> HIDE DEF p
  <1>2. Range(p) \subseteq S
    BY <1>1 DEF InOrder, Range
  <1>3. ASSUME NEW j \in DOMAIN p, NEW k \in DOMAIN p, j < k PROVE p[j] < p[k]
    <2>1. j + a - 1 < k + a - 1
      BY <1>1, <1>3
    <2>2. QED
      BY <1>1, <2>1 DEF InOrder, Increasing
  <1>4. QED
    BY <1>2, <1>3 DEF InOrder, Increasing, p

LEMMA BoundedInOrder ==
    ASSUME NEW q \in Seq(Nat), NEW S, InOrder(q, S), NEW n \in Nat
    PROVE  InOrder(Bounded(q, n), S)
  BY SliceInOrder DEF Bounded

LEMMA AppendInOrder ==
    ASSUME NEW q \in Seq(Nat), NEW S, InOrder(q, S), NEW i \in Nat, \A j \in S : j < i
    PROVE  InOrder(Append(q, i), S \cup {i})
  <1> DEFINE p == Append(q, i)
  <1>1. /\ p \in Seq(Nat) /\ Len(q) \in Nat /\ DOMAIN p = 1 .. Len(q) + 1 /\ DOMAIN q = 1 .. Len(q)
        /\ p[Len(q) + 1] = i /\ \A k \in DOMAIN q : p[k] = q[k] /\ q[k] \in Nat
    OBVIOUS
  <1> HIDE DEF p
  <1>2. Range(p) \subseteq S \cup {i}
    BY <1>1 DEF InOrder, Range
  <1>3. \A k \in DOMAIN q : q[k] < i
    BY DEF InOrder, Range
  <1>4. ASSUME NEW j \in DOMAIN p, NEW k \in DOMAIN p, j < k PROVE p[j] < p[k]
    <2>1. j \in DOMAIN q
      BY <1>1, <1>4
    <2>2. CASE k \in DOMAIN q
      BY <1>1, <1>4, <2>1, <2>2 DEF InOrder, Increasing
    <2>3. CASE k = Len(q) + 1
      BY <1>1, <1>3, <2>1, <2>3
    <2>4. QED
      BY <1>1, <2>2, <2>3
  <1>5. QED
    BY <1>2, <1>4 DEF InOrder, Increasing, p

(* Appending to the newest n positions and trimming to n keeps the newest. *)
LEMMA NewestBounded ==
    ASSUME NEW q \in Seq(Nat), NEW n \in Nat, NEW S \in SUBSET Nat, Newest(q, S, n), Len(q) <= n,
           NEW i \in Nat, \A j \in S : j < i
    PROVE  Newest(Bounded(Append(q, i), n), S \cup {i}, n)
  <1> DEFINE p == Append(q, i)
             b == Bounded(p, n)
  <1>0. Len(q) < n \/ Len(q) = n
    <2>1. Len(q) \in Nat
      OBVIOUS
    <2>2. ASSUME NEW m \in Nat, m <= n PROVE m < n \/ m = n
      BY <2>2
    <2>3. QED
      BY <2>1, <2>2
  <1>1. /\ p \in Seq(Nat) /\ Len(q) \in Nat /\ Len(p) = Len(q) + 1 /\ DOMAIN p = 1 .. Len(q) + 1
        /\ DOMAIN q = 1 .. Len(q)
        /\ p[Len(q) + 1] = i /\ \A k \in DOMAIN q : p[k] = q[k] /\ q[k] \in Nat
    OBVIOUS
  <1>2. InOrder(p, S \cup {i})
    BY AppendInOrder DEF Newest
  <1>3. InOrder(b, S \cup {i})
    BY <1>1, <1>2, BoundedInOrder
  <1>4. Range(p) = Range(q) \cup {i}
    BY <1>1 DEF Range
  <1>5. CASE Len(q) < n
    <2>1. b = p
      BY <1>1, <1>5 DEF Bounded
    <2>2. ASSUME NEW x \in S \ Range(q) PROVE FALSE
      <3>1. Len(q) = n
        BY DEF Newest
      <3>2. QED
        BY <1>1, <1>5, <3>1
    <2>3. QED
      BY <1>2, <1>4, <2>1, <2>2 DEF Newest
  <1>6. CASE Len(q) = n
    <2>1. b = SubSeq(p, 2, n + 1)
      BY <1>1, <1>6 DEF Bounded
    <2>2. Len(b) = n /\ DOMAIN b = 1 .. n /\ \A k \in 1 .. n : b[k] = p[k + 1]
      BY <1>1, <1>6, <2>1
    <2>3. ASSUME NEW x \in (S \cup {i}) \ Range(b), NEW y \in Range(b) PROVE x < y
      <3>0. PICK k \in DOMAIN b : y = b[k]
        BY <2>3 DEF Range
      <3>1. k \in 1 .. n /\ y = p[k + 1] /\ n > 0
        <4>1. k \in 1 .. n
          BY <2>2, <3>0
        <4>2. n > 0
          BY <4>1
        <4>3. QED
          BY <2>2, <3>0, <4>1, <4>2
      <3>2. k + 1 \in DOMAIN p /\ 1 \in DOMAIN p /\ 1 < k + 1 /\ n \in 1 .. n
        BY <1>1, <1>6, <3>1
      <3>3. p[1] < y
        BY <1>2, <3>1, <3>2 DEF InOrder, Increasing
      <3>4. x # i
        <4>1. b[n] = i
          BY <1>1, <1>6, <2>2, <3>2
        <4>2. QED
          BY <2>2, <2>3, <3>2, <4>1 DEF Range
      <3>5. CASE x \in Range(q)
        <4>1. PICK j \in DOMAIN q : x = q[j]
          BY <3>5 DEF Range
        <4>2. x = p[j] /\ j \in 1 .. n
          BY <1>1, <1>6, <4>1
        <4>3. j = 1
          <5>1. ASSUME j # 1 PROVE FALSE
            <6>1. j - 1 \in 1 .. n /\ b[j - 1] = p[j]
              BY <2>2, <4>2, <5>1
            <6>2. QED
              BY <2>2, <2>3, <4>2, <6>1 DEF Range
          <5>2. QED
            BY <5>1
        <4>4. QED
          BY <3>3, <4>2, <4>3
      <3>6. CASE x \notin Range(q)
        <4>1. 1 \in DOMAIN q /\ p[1] = q[1] /\ q[1] \in Range(q) /\ q[1] \in Nat
          BY <1>1, <1>6, <3>2 DEF Range
        <4>2. x \in S /\ x < q[1] /\ x \in Nat
          BY <2>3, <3>4, <3>6, <4>1 DEF Newest
        <4>3. y \in Nat
          BY <1>1, <3>1, <3>2
        <4>4. QED
          BY <3>3, <4>1, <4>2, <4>3
      <3>7. QED
        BY <3>5, <3>6
    <2>4. QED
      BY <1>3, <2>2, <2>3 DEF Newest
  <1>7. QED
    BY <1>0, <1>5, <1>6

-----------------------------------------------------------------------------
(* The invariant behind StreamIsExact: the buffers of the hub are its      *)
(* present, and each open stream has seen a replay that was the present    *)
(* when it subscribed and then the events offered to it.                   *)

HubInv ==
    /\ status \in {0} \cup PositionsOf("broker_status", published)
    /\ \A i \in {0} \cup PositionsOf("broker_status", published) : i <= status
    /\ Newest(logs, PositionsOf("broker_log", published), MaxLogs)
    /\ InOrder(traffic, PositionsOf("topic_message", published))

\* StreamIsExact's second part, element by element.
Joined(replay, seen, live, dropped) ==
    /\ Len(replay) <= Len(seen) /\ \A k \in 1 .. Len(replay) : seen[k] = replay[k]
    /\ \A k \in Len(replay) + 1 .. Len(seen) : seen[k] \in live
    /\ \A j, k \in Len(replay) + 1 .. Len(seen) : j < k => seen[j] < seen[k]
    /\ ~dropped => \A i \in live : \E k \in Len(replay) + 1 .. Len(seen) : seen[k] = i

Exact(sub, events) ==
    /\ sub.at \in {"new", "admitted"} => sub.got = <<>> /\ ~sub.dropped
    /\ sub.at = "open" =>
         /\ sub.from <= Len(events) /\ (~sub.registered => sub.to <= Len(events))
         /\ ShowsPresent(sub.replay, SubSeq(events, 1, sub.from))
         /\ Joined(sub.replay, sub.got \o sub.queue, Live(sub, events), sub.dropped)

ExactInv == HubInv /\ \A s \in Stream : Exact(stream[s], published)

(* A slice with given elements is the sequence of them.                     *)
LEMMA SliceIs ==
    ASSUME NEW q \in Seq(Nat), NEW p \in Seq(Nat), NEW m \in Nat, m + Len(p) <= Len(q),
           \A k \in 1 .. Len(p) : q[m + k] = p[k]
    PROVE  SubSeq(q, m + 1, m + Len(p)) = p
  <1> DEFINE n == Len(p)
             b == SubSeq(q, m + 1, m + n)
  <1>1. n \in Nat /\ m + 1 \in Int /\ m + n \in Int
    OBVIOUS
  <1>2. \A i \in m + 1 .. m + n : q[i] \in Nat
    BY <1>1
  <1>3. /\ b \in Seq(Nat) /\ Len(b) = IF m + 1 <= m + n THEN (m + n) - (m + 1) + 1 ELSE 0
        /\ \A i \in 1 .. (m + n) - (m + 1) + 1 : b[i] = q[(m + 1) + i - 1]
    BY <1>1, <1>2, SubSeqProperties
  <1> HIDE DEF b
  <1>4. Len(b) = n
    BY <1>1, <1>3
  <1>5. ASSUME NEW i \in 1 .. n PROVE b[i] = p[i]
    <2>1. i \in 1 .. (m + n) - (m + 1) + 1 /\ (m + 1) + i - 1 = m + i
      BY <1>1
    <2>2. QED
      BY <1>3, <2>1
  <1>6. b = p
    BY <1>3, <1>4, <1>5, SeqEqual
  <1>7. QED
    BY <1>6 DEF b

(* The replay, taken apart again.                                          *)
LEMMA ReplayParts ==
    ASSUME NEW a \in Nat, NEW l \in Seq(Nat), NEW t \in Seq(Nat),
           NEW r, r = (<<a>> \o l) \o t
    PROVE  /\ r \in Seq(Nat) /\ Len(r) = 1 + Len(l) + Len(t) /\ Head(r) = a
           /\ SubSeq(r, 2, 1 + Len(l)) = l
           /\ SubSeq(r, 1 + Len(l) + 1, Len(r)) = t
  <1> DEFINE h == <<a>> \o l
  <1>r. r = h \o t
    OBVIOUS
  <1>0. Len(l) \in Nat /\ Len(t) \in Nat
    OBVIOUS
  <1>1. h \in Seq(Nat) /\ Len(h) = 1 + Len(l) /\ h[1] = a /\ \A k \in 1 .. Len(l) : h[1 + k] = l[k]
    OBVIOUS
  <1> HIDE DEF h
  <1>2. /\ r \in Seq(Nat) /\ Len(r) = Len(h) + Len(t)
        /\ \A k \in 1 .. Len(h) + Len(t) : r[k] = IF k <= Len(h) THEN h[k] ELSE t[k - Len(h)]
    <2>1. h \in Seq(Nat)
      BY <1>1
    <2>2. QED
      BY <1>r, <2>1, ConcatProperties, Zenon
  <1>3. Len(r) = 1 + Len(l) + Len(t)
    BY <1>0, <1>1, <1>2
  <1>4. Head(r) = a
    <2>1. r[1] = a
      BY <1>0, <1>1, <1>2
    <2>2. Head(r) = r[1]
      BY <1>0, <1>2, <1>3
    <2>3. QED
      BY <2>1, <2>2
  <1>5. SubSeq(r, 1 + 1, 1 + Len(l)) = l
    <2>1. ASSUME NEW k \in 1 .. Len(l) PROVE r[1 + k] = l[k]
      <3>1. 1 + k \in 1 .. Len(h) + Len(t) /\ 1 + k <= Len(h)
        BY <1>0, <1>1
      <3>2. QED
        BY <1>1, <1>2, <3>1
    <2>2. 1 + Len(l) <= Len(r)
      BY <1>0, <1>3
    <2>3. QED
      BY <1>2, <2>1, <2>2, SliceIs
  <1>6. SubSeq(r, Len(h) + 1, Len(h) + Len(t)) = t
    <2>1. ASSUME NEW k \in 1 .. Len(t) PROVE r[Len(h) + k] = t[k]
      <3>1. /\ Len(h) + k \in 1 .. Len(h) + Len(t) /\ ~(Len(h) + k <= Len(h))
            /\ (Len(h) + k) - Len(h) = k
        BY <1>0, <1>1
      <3>2. QED
        BY <1>2, <3>1
    <2>2. Len(h) \in Nat /\ Len(h) + Len(t) <= Len(r)
      BY <1>0, <1>1, <1>2
    <2>3. QED
      BY <1>2, <2>1, <2>2, SliceIs
  <1>7. QED
    BY <1>1, <1>2, <1>3, <1>4, <1>5, <1>6

(* The element-wise form gives the form of StreamIsExact.                  *)
LEMMA JoinedIsExact ==
    ASSUME NEW replay \in Seq(Nat), NEW seen \in Seq(Nat), NEW live, NEW dropped \in BOOLEAN,
           Joined(replay, seen, live, dropped)
    PROVE  LET rest == SubSeq(seen, Len(replay) + 1, Len(seen)) IN
           /\ IsPrefix(replay, seen) /\ InOrder(rest, live)
           /\ ~dropped => live \subseteq Range(rest)
  <1> DEFINE n == Len(replay)
             rest == SubSeq(seen, n + 1, Len(seen))
  <1>1. n \in Nat /\ Len(seen) \in Nat /\ n <= Len(seen)
    BY DEF Joined
  <1>2. IsPrefix(replay, seen)
    <2>1. /\ SubSeq(replay, 1, n) \in Seq(Nat) /\ Len(SubSeq(replay, 1, n)) = n
          /\ \A k \in 1 .. n : SubSeq(replay, 1, n)[k] = replay[k]
      BY <1>1
    <2>2. /\ SubSeq(seen, 1, n) \in Seq(Nat) /\ Len(SubSeq(seen, 1, n)) = n
          /\ \A k \in 1 .. n : SubSeq(seen, 1, n)[k] = seen[k]
      BY <1>1
    <2>3. \A k \in 1 .. n : seen[k] = replay[k]
      BY DEF Joined
    <2>4. SubSeq(replay, 1, n) = SubSeq(seen, 1, n)
      BY <2>1, <2>2, <2>3, SeqEqual
    <2>5. QED
      BY <1>1, <2>4 DEF IsPrefix
  <1>3. /\ rest \in Seq(Nat) /\ DOMAIN rest = 1 .. Len(seen) - n
        /\ \A k \in DOMAIN rest : rest[k] = seen[n + k] /\ n + k \in n + 1 .. Len(seen) /\ k \in Nat
    BY <1>1
  <1> HIDE DEF rest
  <1>4. Range(rest) \subseteq live
    <2>1. \A k \in DOMAIN rest : rest[k] \in live
      BY <1>3 DEF Joined
    <2>2. QED
      BY <2>1 DEF Range
  <1>5. ASSUME NEW j \in DOMAIN rest, NEW k \in DOMAIN rest, j < k PROVE rest[j] < rest[k]
    <2>1. n + j < n + k
      BY <1>1, <1>3, <1>5
    <2>2. QED
      BY <1>3, <2>1 DEF Joined
  <1>6. ASSUME ~dropped, NEW i \in live PROVE i \in Range(rest)
    <2>1. PICK k \in n + 1 .. Len(seen) : seen[k] = i
      BY <1>6 DEF Joined
    <2>2. k - n \in DOMAIN rest /\ n + (k - n) = k
      BY <1>1, <1>3, <2>1
    <2>3. rest[k - n] = i
      BY <1>3, <2>1, <2>2
    <2>4. QED
      BY <2>2, <2>3 DEF Range
  <1>7. QED
    BY <1>2, <1>4, <1>5, <1>6 DEF InOrder, Increasing, rest

-----------------------------------------------------------------------------
(* Steps of one stream.                                                    *)

LEMMA HistoryGrows ==
    ASSUME NEW p \in Seq(Type), NEW type \in Type
    PROVE  /\ Append(p, type) \in Seq(Type) /\ Len(Append(p, type)) = Len(p) + 1 /\ Len(p) \in Nat
           /\ DOMAIN p = 1 .. Len(p) /\ DOMAIN Append(p, type) = 1 .. Len(p) + 1
           /\ Append(p, type)[Len(p) + 1] = type
           /\ \A k \in 1 .. Len(p) : Append(p, type)[k] = p[k]
  OBVIOUS

LEMMA PositionsGrow ==
    ASSUME NEW p \in Seq(Type), NEW type \in Type, NEW t
    PROVE  /\ PositionsOf(t, Append(p, type)) =
                PositionsOf(t, p) \cup (IF t = type THEN {Len(p) + 1} ELSE {})
           /\ PositionsOf(t, p) \subseteq Nat
           /\ \A j \in PositionsOf(t, p) : j < Len(p) + 1
  <1> DEFINE q == Append(p, type)
  <1>1. /\ Len(p) \in Nat /\ DOMAIN p = 1 .. Len(p) /\ DOMAIN q = 1 .. Len(p) + 1
        /\ q[Len(p) + 1] = type /\ \A k \in 1 .. Len(p) : q[k] = p[k]
    BY HistoryGrows
  <1> HIDE DEF q
  <1>2. PositionsOf(t, q) = PositionsOf(t, p) \cup (IF t = type THEN {Len(p) + 1} ELSE {})
    BY <1>1 DEF PositionsOf
  <1>3. PositionsOf(t, p) \subseteq Nat /\ \A j \in PositionsOf(t, p) : j < Len(p) + 1
    BY <1>1 DEF PositionsOf
  <1>4. QED
    BY <1>2, <1>3 DEF q

(* What was published before a subscription does not change.               *)
LEMMA PastKept ==
    ASSUME NEW p \in Seq(Type), NEW type \in Type, NEW n \in Nat, n <= Len(p)
    PROVE  SubSeq(Append(p, type), 1, n) = SubSeq(p, 1, n)
  <1> DEFINE q == Append(p, type)
  <1>1. /\ q \in Seq(Type) /\ Len(q) = Len(p) + 1 /\ Len(p) \in Nat
        /\ \A k \in 1 .. Len(p) : q[k] = p[k]
    BY HistoryGrows
  <1> HIDE DEF q
  <1>2. /\ SubSeq(q, 1, n) \in Seq(Type) /\ Len(SubSeq(q, 1, n)) = n
        /\ \A k \in 1 .. n : SubSeq(q, 1, n)[k] = q[k]
    BY <1>1
  <1>3. /\ SubSeq(p, 1, n) \in Seq(Type) /\ Len(SubSeq(p, 1, n)) = n
        /\ \A k \in 1 .. n : SubSeq(p, 1, n)[k] = p[k]
    BY <1>1
  <1>4. \A k \in 1 .. n : q[k] = p[k]
    BY <1>1
  <1>5. SubSeq(q, 1, n) = SubSeq(p, 1, n)
    BY <1>2, <1>3, <1>4, SeqEqual
  <1>6. QED
    BY <1>5 DEF q

(* An event offered and taken.                                             *)
LEMMA JoinedOffered ==
    ASSUME NEW replay \in Seq(Nat), NEW seen \in Seq(Nat), NEW live, NEW dropped,
           Joined(replay, seen, live, dropped), NEW i \in Nat, \A j \in live : j < i
    PROVE  Joined(replay, Append(seen, i), live \cup {i}, dropped)
  <1> DEFINE n == Len(replay)
             m == Len(seen)
             more == Append(seen, i)
  <1>1. n \in Nat /\ m \in Nat /\ n <= m
    BY DEF Joined
  <1>2. Len(more) = m + 1 /\ more[m + 1] = i /\ \A k \in 1 .. m : more[k] = seen[k]
    OBVIOUS
  <1> HIDE DEF more, m, n
  <1>3. /\ \A k \in 1 .. n : seen[k] = replay[k]
        /\ \A k \in n + 1 .. m : seen[k] \in live
        /\ \A j, k \in n + 1 .. m : j < k => seen[j] < seen[k]
        /\ ~dropped => \A x \in live : \E k \in n + 1 .. m : seen[k] = x
    BY DEF Joined, m, n
  <1>4. n <= m + 1 /\ \A k \in 1 .. n : more[k] = replay[k]
    BY <1>1, <1>2, <1>3
  <1>5. ASSUME NEW k \in n + 1 .. m + 1
        PROVE  (k = m + 1 /\ more[k] = i) \/ (k \in n + 1 .. m /\ more[k] = seen[k] /\ seen[k] \in live)
    BY <1>1, <1>2, <1>3
  <1>6. ASSUME NEW j \in n + 1 .. m + 1, NEW k \in n + 1 .. m + 1, j < k PROVE more[j] < more[k]
    <2>1. j \in n + 1 .. m /\ more[j] = seen[j] /\ seen[j] \in live
      BY <1>1, <1>5, <1>6
    <2>2. CASE k = m + 1
      BY <1>2, <2>1, <2>2
    <2>3. CASE k \in n + 1 .. m
      BY <1>1, <1>2, <1>3, <1>6, <2>1, <2>3
    <2>4. QED
      BY <1>5, <2>2, <2>3
  <1>7. ASSUME ~dropped, NEW x \in live \cup {i} PROVE \E k \in n + 1 .. m + 1 : more[k] = x
    <2>1. CASE x = i
      BY <1>1, <1>2, <2>1
    <2>2. CASE x \in live
      <3>1. PICK k \in n + 1 .. m : seen[k] = x
        BY <1>3, <1>7, <2>2
      <3>2. k \in n + 1 .. m + 1 /\ more[k] = x
        BY <1>1, <1>2, <3>1
      <3>3. QED
        BY <3>2
    <2>3. QED
      BY <2>1, <2>2
  <1>8. \A k \in n + 1 .. m + 1 : more[k] \in live \cup {i}
    BY <1>5
  <1>9. QED
    BY <1>2, <1>4, <1>6, <1>7, <1>8 DEF Joined, m, n, more

LEMMA JoinedDropped ==
    ASSUME NEW replay, NEW seen, NEW live, NEW dropped, Joined(replay, seen, live, dropped), NEW i
    PROVE  Joined(replay, seen, live \cup {i}, TRUE)
  BY DEF Joined

(* Handing the oldest queued event to the client.                          *)
LEMMA SeenKept ==
    ASSUME NEW got \in Seq(Nat), NEW queue \in Seq(Nat), queue # <<>>
    PROVE  Append(got, Head(queue)) \o Tail(queue) = got \o queue
  <1>1. Head(queue) \in Nat /\ Tail(queue) \in Seq(Nat) /\ <<Head(queue)>> \in Seq(Nat)
    BY HeadTailProperties
  <1>2. Append(got, Head(queue)) = got \o <<Head(queue)>>
    BY <1>1, AppendIsConcat
  <1>3. (got \o <<Head(queue)>>) \o Tail(queue) = got \o (<<Head(queue)>> \o Tail(queue))
    BY <1>1, ConcatAssociative
  <1>4. <<Head(queue)>> \o Tail(queue) = queue
    BY <1>1
  <1>5. QED
    BY <1>2, <1>3, <1>4

(* An event put last into the queue is seen last.                          *)
LEMMA SeenGrows ==
    ASSUME NEW got \in Seq(Nat), NEW queue \in Seq(Nat), NEW i \in Nat
    PROVE  got \o Append(queue, i) = Append(got \o queue, i)
  <1>1. <<i>> \in Seq(Nat) /\ got \o queue \in Seq(Nat)
    OBVIOUS
  <1>2. Append(queue, i) = queue \o <<i>> /\ Append(got \o queue, i) = (got \o queue) \o <<i>>
    BY <1>1, AppendIsConcat
  <1>3. (got \o queue) \o <<i>> = got \o (queue \o <<i>>)
    BY <1>1, ConcatAssociative
  <1>4. QED
    BY <1>2, <1>3

(* The replay that Subscribe sends is the hub's present.                   *)
LEMMA ReplayIsPresent ==
    ASSUME TypeOK, HubInv
    PROVE  ShowsPresent(Replay, SubSeq(published, 1, Len(published)))
  <1> DEFINE t == Bounded(traffic, MaxReplay)
             k == 1 + Len(logs)
             statuses == {0} \cup PositionsOf("broker_status", published)
  <1>1. SubSeq(published, 1, Len(published)) = published
    BY SubSeqFull DEF TypeOK
  <1>2. /\ status \in Nat /\ logs \in Seq(Nat) /\ traffic \in Seq(Nat)
        /\ t \in Seq(Nat) /\ MaxReplay \in Nat
    BY BoundedFits, EventHubAssumption DEF TypeOK
  <1>3. InOrder(t, PositionsOf("topic_message", published))
    BY <1>2, BoundedInOrder DEF HubInv
  <1> HIDE DEF t
  <1>4. /\ Len(Replay) = 1 + Len(logs) + Len(t) /\ Head(Replay) = status
        /\ SubSeq(Replay, 2, 1 + Len(logs)) = logs
        /\ SubSeq(Replay, 1 + Len(logs) + 1, Len(Replay)) = t
    <2>1. Replay = (<<status>> \o logs) \o t
      BY DEF Replay, t
    <2>2. QED
      BY <1>2, <2>1, ReplayParts
  <1>5. k \in 1 .. Len(Replay)
    <2>1. Len(logs) \in Nat /\ Len(t) \in Nat
      BY <1>2
    <2>2. QED
      BY <1>4, <2>1
  <1>6. Head(Replay) \in statuses /\ \A i \in statuses : i <= Head(Replay)
    BY <1>4 DEF HubInv
  <1>7. /\ Newest(SubSeq(Replay, 2, k), PositionsOf("broker_log", published), MaxLogs)
        /\ InOrder(SubSeq(Replay, k + 1, Len(Replay)),
                   PositionsOf("topic_message", published))
    BY <1>3, <1>4 DEF HubInv
  <1> HIDE DEF k
  <1>8. ShowsPresent(Replay, published)
    BY <1>5, <1>6, <1>7 DEF ShowsPresent
  <1>9. QED
    BY <1>1, <1>8

(* Publish keeps the buffers the present of the longer history.            *)
LEMMA PublishKeepsHub ==
    ASSUME TypeOK, HubInv, NEW type \in Type, Publish(type)
    PROVE  HubInv'
  <1> DEFINE i == Len(published) + 1
             P(t) == PositionsOf(t, published)
             Q(t) == PositionsOf(t, Append(published, type))
  <1>0. published \in Seq(Type) /\ i \in Nat
    BY DEF TypeOK
  <1>1. \A t : /\ Q(t) = P(t) \cup (IF t = type THEN {i} ELSE {})
               /\ P(t) \in SUBSET Nat /\ \A j \in P(t) : j < i
    BY <1>0, PositionsGrow
  <1>2. /\ published' = Append(published, type)
        /\ status' = IF type = "broker_status" THEN i ELSE status
        /\ logs' = IF type = "broker_log" THEN Buffered(i) ELSE logs
        /\ IF type = "topic_message"
           THEN \E aged \in 0 .. Len(traffic) : traffic' = Pruned(i, aged)
           ELSE UNCHANGED traffic
    BY DEF Publish
  <1> HIDE DEF i, P, Q
  <1>3. /\ status' \in {0} \cup Q("broker_status")
        /\ \A j \in {0} \cup Q("broker_status") : j <= status'
    <2>1. /\ status \in {0} \cup P("broker_status") /\ status \in Nat
          /\ \A j \in {0} \cup P("broker_status") : j <= status
      BY DEF HubInv, TypeOK, P
    <2>2. CASE type = "broker_status"
      <3>1. status' = i /\ Q("broker_status") = P("broker_status") \cup {i}
        BY <1>1, <1>2, <2>2
      <3>2. ASSUME NEW j \in {0} \cup Q("broker_status") PROVE j <= i
        <4>1. CASE j = 0
          BY <1>0, <4>1
        <4>2. CASE j = i
          BY <1>0, <4>2
        <4>3. CASE j \in P("broker_status")
          <5>1. j \in Nat /\ j < i
            BY <1>1, <4>3
          <5>2. QED
            BY <1>0, <5>1
        <4>4. QED
          BY <3>1, <3>2, <4>1, <4>2, <4>3
      <3>3. QED
        BY <3>1, <3>2
    <2>3. CASE type # "broker_status"
      <3>1. status' = status /\ Q("broker_status") = P("broker_status")
        BY <1>1, <1>2, <2>3
      <3>2. QED
        BY <2>1, <3>1
    <2>4. QED
      BY <2>2, <2>3
  <1>4. Newest(logs', Q("broker_log"), MaxLogs)
    <2>1. /\ logs \in Seq(Nat) /\ Len(logs) <= MaxLogs /\ MaxLogs \in Nat
          /\ Newest(logs, P("broker_log"), MaxLogs)
      BY EventHubAssumption DEF HubInv, TypeOK, P
    <2>2. CASE type = "broker_log"
      <3>1. logs' = Bounded(Append(logs, i), MaxLogs)
        BY <1>2, <2>2 DEF Buffered
      <3>2. Q("broker_log") = P("broker_log") \cup {i}
        BY <1>1, <2>2
      <3>3. P("broker_log") \in SUBSET Nat /\ \A j \in P("broker_log") : j < i
        BY <1>1
      <3>4. Newest(Bounded(Append(logs, i), MaxLogs), P("broker_log") \cup {i}, MaxLogs)
        BY <1>0, <2>1, <3>3, NewestBounded
      <3>5. QED
        BY <3>1, <3>2, <3>4
    <2>3. CASE type # "broker_log"
      <3>1. logs' = logs /\ Q("broker_log") = P("broker_log")
        BY <1>1, <1>2, <2>3
      <3>2. QED
        BY <2>1, <3>1
    <2>4. QED
      BY <2>2, <2>3
  <1>5. InOrder(traffic', Q("topic_message"))
    <2>1. traffic \in Seq(Nat) /\ InOrder(traffic, P("topic_message")) /\ MaxTraffic \in Nat
      BY EventHubAssumption DEF HubInv, TypeOK, P
    <2>2. CASE type = "topic_message"
      <3>1. PICK aged \in 0 .. Len(traffic) : traffic' = Pruned(i, aged)
        BY <1>2, <2>2
      <3>2. Q("topic_message") = P("topic_message") \cup {i}
        BY <1>1, <2>2
      <3> DEFINE more == Append(traffic, i)
                 kept == SubSeq(more, aged + 1, Len(more))
      <3>3. more \in Seq(Nat) /\ Len(more) = Len(traffic) + 1 /\ aged + 1 \in Nat \ {0}
        BY <1>0, <2>1
      <3>4. InOrder(more, P("topic_message") \cup {i})
        BY <1>0, <1>1, <2>1, AppendInOrder
      <3> HIDE DEF more
      <3>5. InOrder(kept, P("topic_message") \cup {i})
        BY <3>3, <3>4, SliceInOrder
      <3>6. kept \in Seq(Nat)
        BY <3>3
      <3>7. traffic' = Bounded(kept, MaxTraffic)
        BY <3>1, <3>3 DEF Pruned, more
      <3> HIDE DEF kept
      <3>8. InOrder(Bounded(kept, MaxTraffic), P("topic_message") \cup {i})
        BY <2>1, <3>5, <3>6, BoundedInOrder
      <3>9. QED
        BY <3>2, <3>7, <3>8
    <2>3. CASE type # "topic_message"
      <3>1. traffic' = traffic /\ Q("topic_message") = P("topic_message")
        BY <1>1, <1>2, <2>3
      <3>2. QED
        BY <2>1, <3>1
    <2>4. QED
      BY <2>2, <2>3
  <1>6. QED
    BY <1>2, <1>3, <1>4, <1>5 DEF HubInv, Q

-----------------------------------------------------------------------------
(* The live events of a subscription grow by the event published, if it is *)
(* registered and its role may read the event.                             *)
LEMMA LiveGrows ==
    ASSUME NEW sub \in Subscription, NEW p \in Seq(Type), NEW type \in Type,
           sub.from <= Len(p), ~sub.registered => sub.to <= Len(p)
    PROVE  /\ Live(sub, Append(p, type)) = Live(sub, p) \cup
                (IF sub.registered /\ (type = "broker_log_entry" => sub.auditor)
                 THEN {Len(p) + 1} ELSE {})
           /\ \A j \in Live(sub, p) : j \in Nat /\ j < Len(p) + 1
  <1> DEFINE q == Append(p, type)
             n == Len(p)
  <1>1. /\ Len(q) = n + 1 /\ n \in Nat
        /\ q[n + 1] = type /\ \A k \in 1 .. n : q[k] = p[k]
    BY HistoryGrows
  <1>2. sub.from \in Nat /\ sub.to \in Nat
    BY DEF Subscription
  <1>3. sub.from <= n /\ (~sub.registered => sub.to <= n)
    OBVIOUS
  <1> HIDE DEF q, n
  <1>4. CASE sub.registered
    <2>1. Live(sub, p) = {k \in sub.from + 1 .. n : p[k] = "broker_log_entry" => sub.auditor}
      BY <1>4 DEF Live, n
    <2>2. Live(sub, q) = {k \in sub.from + 1 .. n + 1 : q[k] = "broker_log_entry" => sub.auditor}
      BY <1>1, <1>4 DEF Live
    <2>3. ASSUME NEW k
          PROVE  k \in sub.from + 1 .. n + 1 <=> k \in sub.from + 1 .. n \/ k = n + 1
      BY <1>1, <1>2, <1>3
    <2>4. ASSUME NEW k \in sub.from + 1 .. n
          PROVE  q[k] = p[k] /\ k # n + 1 /\ k \in Nat /\ k < n + 1
      <3>1. k \in 1 .. n
        BY <1>1, <1>2
      <3>2. k # n + 1 /\ k \in Nat /\ k < n + 1
        BY <1>1, <1>2
      <3>3. QED
        BY <1>1, <3>1, <3>2
    <2>5. Live(sub, q) = Live(sub, p) \cup
                (IF sub.registered /\ (type = "broker_log_entry" => sub.auditor)
                 THEN {n + 1} ELSE {})
      BY <1>1, <1>4, <2>1, <2>2, <2>3, <2>4
    <2>6. QED
      BY <2>1, <2>4, <2>5 DEF q, n
  <1>5. CASE ~sub.registered
    <2>1. Live(sub, p) = {k \in sub.from + 1 .. sub.to : p[k] = "broker_log_entry" => sub.auditor}
      BY <1>5 DEF Live
    <2>2. Live(sub, q) = {k \in sub.from + 1 .. sub.to : q[k] = "broker_log_entry" => sub.auditor}
      BY <1>5 DEF Live
    <2>3. ASSUME NEW k \in sub.from + 1 .. sub.to
          PROVE  q[k] = p[k] /\ k \in Nat /\ k < n + 1
      <3>1. k \in 1 .. n
        BY <1>1, <1>2, <1>3, <1>5
      <3>2. k \in Nat /\ k < n + 1
        BY <1>1, <3>1
      <3>3. QED
        BY <1>1, <3>1, <3>2
    <2>4. Live(sub, q) = Live(sub, p)
      BY <2>1, <2>2, <2>3
    <2>5. QED
      BY <1>5, <2>1, <2>3, <2>4 DEF q, n
  <1>6. QED
    BY <1>4, <1>5

(* What Exact says of an open stream, with its fields as parameters.       *)
LEMMA ExactByFields ==
    ASSUME NEW sub \in Subscription, NEW next \in Subscription, NEW p \in Seq(Type), NEW q,
           Exact(sub, p), sub.at = "open",
           next.at = "open", next.replay = sub.replay,
           next.from = sub.from, next.from <= Len(q), ~next.registered => next.to <= Len(q),
           SubSeq(q, 1, sub.from) = SubSeq(p, 1, sub.from),
           Joined(sub.replay, next.got \o next.queue, Live(next, q), next.dropped)
    PROVE  Exact(next, q)
  BY DEF Exact

(* A publication as seen by one stream.                                    *)
LEMMA PublishExact ==
    ASSUME TypeOK, NEW type \in Type, NEW s \in Stream, Sound(stream[s]),
           Exact(stream[s], published), Publish(type)
    PROVE  Exact(stream'[s], published')
  <1> DEFINE sub == stream[s]
             next == stream'[s]
             p == published
             q == Append(published, type)
             i == Len(published) + 1
             seen == sub.got \o sub.queue
  <1>1. /\ published' = q
        /\ next = IF sub.registered /\ Wants(s, type) THEN Offered(s, i) ELSE sub
    BY DEF Publish
  <1>2. /\ p \in Seq(Type) /\ sub \in Subscription /\ i \in Nat
        /\ sub.got \in Seq(Nat) /\ sub.queue \in Seq(Nat) /\ sub.replay \in Seq(Nat)
        /\ sub.from \in Nat /\ sub.to \in Nat
    BY DEF TypeOK, Sound, Subscription
  <1>3. Len(q) = Len(p) + 1 /\ Len(p) \in Nat
    BY <1>2, HistoryGrows
  <1>4. CASE sub.at # "open"
    <2>1. CASE sub.registered
      <3>1. sub.at \notin {"new", "admitted"}
        BY <2>1 DEF Sound
      <3>2. next.at = sub.at
        BY <1>1, <1>2 DEF Offered, Subscription
      <3>3. QED
        BY <1>1, <1>4, <3>1, <3>2 DEF Exact
    <2>2. CASE ~sub.registered
      BY <1>1, <1>4, <2>2 DEF Exact
    <2>3. QED
      BY <2>1, <2>2
  <1>5. CASE sub.at = "open"
    <2>1. /\ sub.from <= Len(p) /\ (~sub.registered => sub.to <= Len(p))
          /\ Joined(sub.replay, seen, Live(sub, p), sub.dropped)
      BY <1>5 DEF Exact
    <2>2. sub.from <= Len(q) /\ (~sub.registered => sub.to <= Len(q))
      BY <1>2, <1>3, <2>1
    <2>3. SubSeq(q, 1, sub.from) = SubSeq(p, 1, sub.from)
      BY <1>2, <2>1, PastKept
    <2>4. /\ Live(sub, q) = Live(sub, p) \cup
                (IF sub.registered /\ (type = "broker_log_entry" => sub.auditor)
                 THEN {i} ELSE {})
          /\ \A j \in Live(sub, p) : j \in Nat /\ j < i
      BY <1>2, <2>1, LiveGrows
    <2>5. seen \in Seq(Nat)
      BY <1>2
    <2> HIDE DEF i, q, p
    <2>6. CASE ~(sub.registered /\ Wants(s, type))
      <3>1. next = sub
        BY <1>1, <2>6
      <3>2. Live(sub, q) = Live(sub, p)
        BY <2>4, <2>6 DEF Wants
      <3>3. Joined(sub.replay, seen, Live(sub, q), sub.dropped)
        BY <2>1, <3>2
      <3> HIDE DEF sub, next
      <3>4. Exact(sub, q)
        BY <1>2, <1>5, <2>2, <2>3, <3>3, ExactByFields DEF sub, p
      <3>5. QED
        BY <1>1, <3>1, <3>4 DEF next
    <2>7. CASE sub.registered /\ Wants(s, type)
      <3>0. next = Offered(s, i) /\ Live(sub, q) = Live(sub, p) \cup {i}
        BY <1>1, <2>4, <2>7 DEF Wants
      <3>1. CASE Len(sub.queue) < brokerEventSubscriberCapacity
        <4> DEFINE longer == Append(sub.queue, i)
        <4>1. next = [sub EXCEPT !.queue = longer]
          BY <3>0, <3>1 DEF Offered
        <4>2. longer \in Seq(Nat)
          BY <1>2
        <4>3. /\ next \in Subscription /\ next.queue = longer /\ next.got = sub.got
              /\ next.at = sub.at /\ next.from = sub.from /\ next.to = sub.to
              /\ next.replay = sub.replay /\ next.registered = sub.registered
              /\ next.dropped = sub.dropped /\ next.auditor = sub.auditor
          BY <1>2, <4>1, <4>2 DEF Subscription
        <4>4. next.got \o next.queue = Append(seen, i)
          <5>1. sub.got \o longer = Append(seen, i)
            BY <1>2, SeenGrows
          <5>2. QED
            BY <4>3, <5>1
        <4>5. Joined(sub.replay, Append(seen, i), Live(sub, p) \cup {i}, sub.dropped)
          <5> HIDE DEF seen, sub
          <5>1. QED
            BY <1>2, <2>1, <2>4, <2>5, JoinedOffered
        <4>6. Live(next, q) = Live(sub, q)
          BY <4>3 DEF Live
        <4>7. Joined(sub.replay, next.got \o next.queue, Live(next, q), next.dropped)
          BY <3>0, <4>3, <4>4, <4>5, <4>6
        <4> HIDE DEF sub, next
        <4>8. Exact(next, q)
          BY <1>2, <1>5, <2>2, <2>3, <4>3, <4>7, ExactByFields DEF sub, p
        <4>9. QED
          BY <1>1, <4>8 DEF next
      <3>2. CASE ~(Len(sub.queue) < brokerEventSubscriberCapacity)
        <4>1. next = [sub EXCEPT !.dropped = TRUE]
          BY <3>0, <3>2 DEF Offered
        <4>2. /\ next \in Subscription /\ next.queue = sub.queue /\ next.got = sub.got
              /\ next.at = sub.at /\ next.from = sub.from /\ next.to = sub.to
              /\ next.replay = sub.replay /\ next.registered = sub.registered
              /\ next.dropped = TRUE /\ next.auditor = sub.auditor
          BY <1>2, <4>1 DEF Subscription
        <4>3. Joined(sub.replay, seen, Live(sub, p) \cup {i}, TRUE)
          BY <2>1, JoinedDropped
        <4>4. Live(next, q) = Live(sub, q)
          BY <4>2 DEF Live
        <4>5. Joined(sub.replay, next.got \o next.queue, Live(next, q), next.dropped)
          BY <3>0, <4>2, <4>3, <4>4
        <4> HIDE DEF sub, next
        <4>6. Exact(next, q)
          BY <1>2, <1>5, <2>2, <2>3, <4>2, <4>5, ExactByFields DEF sub, p
        <4>7. QED
          BY <1>1, <4>6 DEF next
      <3>3. QED
        BY <3>1, <3>2
    <2>8. QED
      BY <2>6, <2>7
  <1>6. QED
    BY <1>4, <1>5

(* A subscription that is closed keeps the events it was live for.         *)
LEMMA ClosingExact ==
    ASSUME NEW sub, Sound(sub), sub.registered, published \in Seq(Type),
           Exact(sub, published)
    PROVE  Exact(Closing(sub), published)
  <1> DEFINE next == Closing(sub)
             p == published
  <1>1. /\ sub \in Subscription /\ sub.at \notin {"new", "admitted"}
        /\ Len(p) \in Nat /\ sub.closes + 1 \in Nat
    BY DEF Sound, Subscription
  <1>2. /\ next.queue = sub.queue /\ next.got = sub.got
        /\ next.at = sub.at /\ next.from = sub.from /\ next.to = Len(p)
        /\ next.replay = sub.replay /\ next.registered = FALSE
        /\ next.dropped = sub.dropped /\ next.auditor = sub.auditor
    BY <1>1 DEF Closing, Subscription
  <1>3. next \in Subscription
    BY ClosingSound DEF Sound
  <1> HIDE DEF next
  <1>4. Live(next, p) = Live(sub, p)
    BY <1>2 DEF Live
  <1>5. CASE sub.at = "open"
    <2>1. /\ sub.from <= Len(p)
          /\ Joined(sub.replay, sub.got \o sub.queue, Live(sub, p), sub.dropped)
      BY <1>5 DEF Exact
    <2>2. next.from <= Len(p) /\ next.to <= Len(p)
      BY <1>1, <1>2, <2>1
    <2>3. Joined(sub.replay, next.got \o next.queue, Live(next, p), next.dropped)
      BY <1>2, <1>4, <2>1
    <2>4. QED
      BY <1>1, <1>2, <1>3, <1>5, <2>2, <2>3, ExactByFields DEF next
  <1>6. CASE sub.at # "open"
    BY <1>1, <1>2, <1>6 DEF Exact, next
  <1>7. QED
    BY <1>5, <1>6

(* The steps of a stream's own handler.                                    *)
LEMMA SubscribeExact ==
    ASSUME TypeOK, HubInv, NEW s \in Stream, Sound(stream[s]),
           Exact(stream[s], published), Subscribe(s)
    PROVE  Exact(stream'[s], published)
  <1> DEFINE sub == stream[s]
             next == stream'[s]
             p == published
  <1>1. /\ p \in Seq(Type) /\ Len(p) \in Nat /\ sub \in Subscription
        /\ sub.at = "admitted" /\ Replay \in Seq(Nat) /\ stream \in [Stream -> Subscription]
    BY ReplayFitsWhenTyped DEF TypeOK, Subscribe
  <1>2. sub.got = <<>> /\ ~sub.dropped
    BY <1>1 DEF Exact
  <1>3. /\ next.at = "open" /\ next.registered = TRUE /\ next.queue = Replay
        /\ next.replay = Replay /\ next.from = Len(p) /\ next.got = <<>>
        /\ next.dropped = sub.dropped
    BY <1>1, <1>2 DEF Subscribe, Subscription
  <1> HIDE DEF next
  <1>4. next.got \o next.queue = Replay
    BY <1>1, <1>3
  <1>5. Live(next, p) = {}
    <2>1. Len(p) + 1 .. Len(p) = {}
      BY <1>1
    <2>2. QED
      BY <1>3, <2>1 DEF Live
  <1>6. Joined(Replay, Replay, {}, next.dropped)
    <2>1. Len(Replay) \in Nat /\ Len(Replay) + 1 .. Len(Replay) = {}
      BY <1>1
    <2>2. QED
      BY <2>1 DEF Joined
  <1>7. ShowsPresent(Replay, SubSeq(p, 1, Len(p)))
    BY ReplayIsPresent
  <1>8. Len(p) <= Len(p)
    BY <1>1
  <1>9. Exact(next, p)
    BY <1>3, <1>4, <1>5, <1>6, <1>7, <1>8 DEF Exact
  <1>10. QED
    BY <1>9 DEF next

LEMMA DeliverExact ==
    ASSUME TypeOK, NEW s \in Stream, Exact(stream[s], published), Deliver(s)
    PROVE  Exact(stream'[s], published)
  <1> DEFINE sub == stream[s]
             next == stream'[s]
             p == published
             more == Append(sub.got, Head(sub.queue))
  <1>1. /\ p \in Seq(Type) /\ sub \in Subscription /\ sub.at = "open"
        /\ sub.got \in Seq(Nat) /\ sub.queue \in Seq(Nat) /\ sub.queue # <<>>
        /\ stream \in [Stream -> Subscription]
    BY DEF TypeOK, Deliver, Subscription
  <1>2. more \in Seq(Nat) /\ Tail(sub.queue) \in Seq(Nat)
    BY <1>1
  <1>3. /\ next = [sub EXCEPT !.queue = Tail(sub.queue), !.writing = TRUE, !.got = more]
    BY <1>1 DEF Deliver
  <1> HIDE DEF more
  <1>4. /\ next \in Subscription /\ next.queue = Tail(sub.queue) /\ next.got = more
        /\ next.at = sub.at /\ next.from = sub.from /\ next.to = sub.to
        /\ next.replay = sub.replay /\ next.registered = sub.registered
        /\ next.dropped = sub.dropped /\ next.auditor = sub.auditor
    BY <1>1, <1>2, <1>3 DEF Subscription
  <1>5. next.got \o next.queue = sub.got \o sub.queue
    BY <1>1, <1>4, SeenKept DEF more
  <1>6. Live(next, p) = Live(sub, p)
    BY <1>4 DEF Live
  <1>7. /\ sub.from <= Len(p) /\ (~sub.registered => sub.to <= Len(p))
        /\ Joined(sub.replay, sub.got \o sub.queue, Live(sub, p), sub.dropped)
    BY <1>1 DEF Exact
  <1>8. Joined(sub.replay, next.got \o next.queue, Live(next, p), next.dropped)
    BY <1>4, <1>5, <1>6, <1>7
  <1> HIDE DEF next, sub
  <1>9. QED
    BY <1>1, <1>4, <1>7, <1>8, ExactByFields DEF sub, next

LEMMA WriteEndsExact ==
    ASSUME TypeOK, NEW s \in Stream, Exact(stream[s], published), WriteEnds(s)
    PROVE  Exact(stream'[s], published)
  <1> DEFINE sub == stream[s]
             next == stream'[s]
             p == published
  <1>1. /\ p \in Seq(Type) /\ sub \in Subscription /\ sub.at = "open"
        /\ stream \in [Stream -> Subscription]
    BY DEF TypeOK, WriteEnds
  <1>2. next = [sub EXCEPT !.writing = FALSE]
    BY <1>1 DEF WriteEnds
  <1>3. /\ next \in Subscription /\ next.queue = sub.queue /\ next.got = sub.got
        /\ next.at = sub.at /\ next.from = sub.from /\ next.to = sub.to
        /\ next.replay = sub.replay /\ next.registered = sub.registered
        /\ next.dropped = sub.dropped /\ next.auditor = sub.auditor
    BY <1>1, <1>2 DEF Subscription
  <1>4. Live(next, p) = Live(sub, p)
    BY <1>3 DEF Live
  <1>5. /\ sub.from <= Len(p) /\ (~sub.registered => sub.to <= Len(p))
        /\ Joined(sub.replay, sub.got \o sub.queue, Live(sub, p), sub.dropped)
    BY <1>1 DEF Exact
  <1>6. Joined(sub.replay, next.got \o next.queue, Live(next, p), next.dropped)
    BY <1>3, <1>4, <1>5
  <1> HIDE DEF next, sub
  <1>7. QED
    BY <1>1, <1>3, <1>5, <1>6, ExactByFields DEF sub, next

LEMMA HandlerExact ==
    ASSUME TypeOK, HubInv, NEW s \in Stream, Sound(stream[s]),
           Exact(stream[s], published), StreamStep(s)
    PROVE  /\ Exact(stream'[s], published) /\ UNCHANGED buffers
           /\ \A t \in Stream \ {s} : stream'[t] = stream[t]
  <1>0. stream[s] \in Subscription /\ stream \in [Stream -> Subscription]
    BY DEF TypeOK
  <1>1. CASE Admit(s)
    <2>1. PICK auditor \in BOOLEAN :
            stream' = [stream EXCEPT ![s].at = "admitted", ![s].auditor = auditor]
      BY <1>1 DEF Admit
    <2>2. stream'[s].at = "admitted" /\ stream'[s].got = stream[s].got
          /\ stream'[s].dropped = stream[s].dropped
      BY <1>0, <2>1 DEF Subscription
    <2>3. Exact(stream'[s], published)
      BY <1>1, <2>2 DEF Exact, Admit
    <2>4. QED
      BY <1>0, <1>1, <2>1, <2>3 DEF Admit
  <1>2. CASE AcceptFails(s)
    <2>1. stream'[s].at = "ended"
      BY <1>0, <1>2 DEF AcceptFails, Subscription
    <2>2. Exact(stream'[s], published)
      BY <2>1 DEF Exact
    <2>3. QED
      BY <1>0, <1>2, <2>2 DEF AcceptFails
  <1>3. CASE Subscribe(s)
    <2>1. Exact(stream'[s], published)
      BY <1>3, SubscribeExact
    <2>2. QED
      BY <1>0, <1>3, <2>1 DEF Subscribe
  <1>4. CASE Deliver(s)
    <2>1. Exact(stream'[s], published)
      BY <1>4, DeliverExact
    <2>2. QED
      BY <1>0, <1>4, <2>1 DEF Deliver
  <1>a. CASE WriteEnds(s)
    <2>1. Exact(stream'[s], published)
      BY <1>a, WriteEndsExact
    <2>2. QED
      BY <1>0, <1>a, <2>1 DEF WriteEnds
  <1>5. CASE Leave(s) \/ SeeClosed(s)
    <2>1. /\ stream' = [stream EXCEPT ![s] = Ended(Unsubscribed(stream[s]))]
          /\ UNCHANGED buffers
      BY <1>5 DEF Leave, SeeClosed
    <2>2. stream'[s].at = "ended"
      BY <1>0, <2>1 DEF Ended
    <2>3. Exact(stream'[s], published)
      BY <2>2 DEF Exact
    <2>4. QED
      BY <1>0, <2>1, <2>3
  <1>6. QED
    BY <1>1, <1>2, <1>3, <1>4, <1>a, <1>5 DEF StreamStep

LEMMA InitExact == Init => ExactInv
  <1> SUFFICES ASSUME Init PROVE ExactInv
    OBVIOUS
  <1>1. \A t : PositionsOf(t, published) = {}
    BY DEF Init, PositionsOf
  <1>2. InOrder(<<>>, {})
    BY DEF InOrder, Increasing, Range
  <1>3. HubInv
    <2>1. status = 0 /\ logs = <<>> /\ traffic = <<>> /\ 0 <= 0
      BY DEF Init
    <2>2. Newest(<<>>, {}, MaxLogs)
      BY <1>2 DEF Newest
    <2>3. QED
      BY <1>1, <1>2, <2>1, <2>2 DEF HubInv
  <1>4. \A s \in Stream : Exact(stream[s], published)
    BY DEF Init, Exact, Unopened
  <1>5. QED
    BY <1>3, <1>4 DEF ExactInv

LEMMA NextExact == IInv /\ ExactInv /\ [Next]_vars => ExactInv'
  <1> SUFFICES ASSUME IInv, ExactInv, [Next]_vars PROVE ExactInv'
    OBVIOUS
  <1>1. TypeOK /\ published \in Seq(Type) /\ \A s \in Stream : Sound(stream[s])
    BY IInvByStream DEF IInv, TypeOK
  <1>2. HubInv /\ \A s \in Stream : Exact(stream[s], published)
    BY DEF ExactInv
  <1>3. UNCHANGED buffers => HubInv' /\ published' = published
    BY <1>2 DEF buffers, HubInv
  <1>4. CASE \E type \in Type : Publish(type)
    <2>1. PICK type \in Type : Publish(type)
      BY <1>4
    <2>2. HubInv'
      BY <1>1, <1>2, <2>1, PublishKeepsHub
    <2>3. \A s \in Stream : Exact(stream'[s], published')
      BY <1>1, <1>2, <2>1, PublishExact
    <2>4. QED
      BY <2>2, <2>3 DEF ExactInv, Exact, Live
  <1>5. CASE \E s \in Stream : StreamStep(s)
    <2>1. PICK s \in Stream : StreamStep(s)
      BY <1>5
    <2>2. /\ Exact(stream'[s], published) /\ UNCHANGED buffers
          /\ \A t \in Stream \ {s} : stream'[t] = stream[t]
      BY <1>1, <1>2, <2>1, HandlerExact
    <2>3. \A t \in Stream : Exact(stream'[t], published')
      BY <1>2, <1>3, <2>2
    <2>4. QED
      BY <1>3, <2>2, <2>3 DEF ExactInv, Exact, Live
  <1>6. CASE \E u \in User : RevokeUser(u)
    <2>1. PICK u \in User : RevokeUser(u)
      BY <1>6
    <2>2. UNCHANGED buffers
      BY <2>1 DEF RevokeUser
    <2>3. ASSUME NEW s \in Stream PROVE Exact(stream'[s], published')
      <3>1. stream'[s] = IF UserOf[s] = u /\ stream[s].registered
                         THEN Closing(stream[s]) ELSE stream[s]
        BY <2>1 DEF RevokeUser
      <3>2. stream[s].registered => Exact(Closing(stream[s]), published)
        BY <1>1, <1>2, ClosingExact
      <3>3. QED
        BY <1>2, <1>3, <2>2, <3>1, <3>2
    <2>4. QED
      BY <1>3, <2>2, <2>3 DEF ExactInv, Exact, Live
  <1>7. CASE (\E u \in User : DisableUser(u)) \/ UNCHANGED vars
    <2>1. UNCHANGED <<buffers, stream>>
      BY <1>7 DEF DisableUser, vars
    <2>2. QED
      BY <1>2, <1>3, <2>1 DEF ExactInv
  <1>8. QED
    BY <1>4, <1>5, <1>6, <1>7 DEF Next

(* Every stream is shown the present of the hub and then each event        *)
(* published during its subscription that its role may read, once and in   *)
(* order, for as long as none was dropped: Subscribe's replay and Publish's*)
(* offers leave no gap and no duplicate between them, whatever the sizes   *)
(* of the buffers and however slow the reader.                             *)
THEOREM StreamsAreExact == Spec => []StreamIsExact
  <1>1. IInv /\ ExactInv => StreamIsExact
    <2> SUFFICES ASSUME IInv, ExactInv PROVE StreamIsExact
      OBVIOUS
    <2>1. ASSUME NEW s \in Stream, stream[s].at = "open"
          PROVE  LET sub == stream[s]
                     seen == sub.got \o sub.queue
                     live == Live(sub, published)
                     rest == SubSeq(seen, Len(sub.replay) + 1, Len(seen))
                 IN  /\ ShowsPresent(sub.replay, SubSeq(published, 1, sub.from))
                     /\ IsPrefix(sub.replay, seen)
                     /\ InOrder(rest, live)
                     /\ ~sub.dropped => live \subseteq Range(rest)
      <3> DEFINE sub == stream[s]
                 seen == sub.got \o sub.queue
                 live == Live(sub, published)
      <3>1. /\ sub.got \in Seq(Nat) /\ sub.queue \in Seq(Nat)
            /\ sub.replay \in Seq(Nat) /\ sub.dropped \in BOOLEAN
        BY DEF IInv, TypeOK, Subscription
      <3>2. seen \in Seq(Nat)
        BY <3>1
      <3>3. /\ ShowsPresent(sub.replay, SubSeq(published, 1, sub.from))
            /\ Joined(sub.replay, seen, live, sub.dropped)
        BY <2>1 DEF ExactInv, Exact
      <3> HIDE DEF seen, live
      <3>4. QED
        BY <3>1, <3>2, <3>3, JoinedIsExact DEF seen, live
    <2>2. QED
      BY <2>1, Zenon DEF StreamIsExact
  <1>2. QED
    BY InitIInv, NextIInv, InitExact, NextExact, <1>1, PTL DEF Spec

-----------------------------------------------------------------------------
(***************************************************************************)
(* BrokerMonitor and the Alerter it composes with, for any number of       *)
(* changes of the connection and any size of the queue.                    *)
(***************************************************************************)

AlertValue == Statuses \cup {"none"}

AlerterState ==
    [queue : Seq(AlertValue), closed : BOOLEAN, sending : Seq(AlertValue),
     done : BOOLEAN, shut : {"no", "waiting", "clean", "expired"},
     panicked : BOOLEAN, full : BOOLEAN,
     accepted : Seq(AlertValue), posted : Seq(AlertValue)]

\* What was accepted is what was posted, what run() holds and what is queued,
\* in that order; run() ends on a closed and empty queue.
AlerterInv ==
    /\ alerter \in AlerterState
    /\ ~alerter.panicked
    /\ alerter.accepted = (alerter.posted \o alerter.sending) \o alerter.queue
    /\ alerter.done => alerter.closed /\ alerter.queue = <<>> /\ alerter.sending = <<>>

-----------------------------------------------------------------------------
(* The handlers in sequence: what holds at each point of the one that      *)
(* handles the latest change.                                              *)

Odd == changes % 2 = 1

Told(s) == alerter.full \/ alerter.closed \/ LastAlert = s

\* Nothing of the running handler has been published yet.
Settled == hub.gauge = hub.status /\ Told(hub.status)

SessionIs(s) ==
    /\ (hub.subscriptions # {}) <=> (s = "connected")
    /\ hub.sysAvailable <=> "$SYS/#" \in hub.subscriptions

\* The session counts a lost connection before the metrics do.
Ahead(lost) == hub.reconnects = IF lost THEN hub.drops + 1 ELSE hub.drops

Latest == handler[changes]

Agree ==
    /\ Settled /\ SessionIs(hub.status) /\ Ahead(FALSE)
    /\ hub.status = "connected" => Odd

Subscribing == {"subscribe", "failedSession", "failedSys", "subscribeSys",
                "refusedSys", "fullSession", "fullSys"}

AtConnect ==
    /\ Settled /\ Ahead(FALSE) /\ hub.status = "disconnected"
    /\ Latest.at \in {"sys", "subscribe", "subscribeSys", "refusedSys"} =>
         hub.subscriptions = {"#"}
    /\ Latest.at = "failedSys" => hub.subscriptions = {}
    /\ Latest.at = "fullSys" => hub.subscriptions = {"#", "$SYS/#"}

AtLost ==
    /\ Settled
    /\ Latest.at = "session" => Ahead(FALSE)
    /\ Latest.at = "sys" => hub.subscriptions = {} /\ Ahead(hub.status = "connected")

\* publishBrokerStatus has a status to publish.
Announced == /\ Latest.next \in Statuses /\ SessionIs(Latest.next)
             /\ Latest.next = "connected" => Odd

SerialInv ==
    ~overlap =>
        /\ \A k \in Handler : Running(k) => k = changes
        /\ Latest.at \in {"new", "done"} => Agree
        /\ Latest.at \in {"session", "sys"} => IF Odd THEN AtConnect ELSE AtLost
        /\ Latest.at \in Subscribing => Odd /\ AtConnect
        /\ Latest.at \in {"snapshot", "publish"} =>
             /\ Announced /\ Settled
             /\ Ahead(hub.status = "connected" /\ Latest.next # "connected")
        /\ Latest.at = "publish" => Latest.prev = hub.status
        /\ Latest.at = "metrics" =>
             /\ Announced /\ Told(Latest.prev) /\ hub.status = Latest.next
             /\ Ahead(Latest.was = "connected" /\ Latest.next # "connected")
        /\ Latest.at \in {"log", "alert"} =>
             /\ Announced /\ Told(Latest.prev) /\ Ahead(FALSE)
             /\ hub.status = Latest.next /\ hub.gauge = Latest.next

\* What a step of a session leaves alone.
Kept == UNCHANGED <<changes, stopped, overlap, alerter>>

\* StartBrokerMonitor announces a failure once, before any change.
StartInv == handler[0].at # "new" => stopped

-----------------------------------------------------------------------------
(* The alerter.                                                            *)

(* Taking the first of the queue moves it, and keeps the order.            *)
LEMMA HeadThenTail ==
    ASSUME NEW S, NEW a \in Seq(S), NEW q \in Seq(S), q # <<>>
    PROVE  (a \o <<>>) \o q = (a \o <<Head(q)>>) \o Tail(q)
  <1>1. Head(q) \in S /\ Tail(q) \in Seq(S) /\ <<Head(q)>> \in Seq(S)
    BY HeadTailProperties
  <1>2. q = <<Head(q)>> \o Tail(q)
    BY <1>1
  <1>3. a \o <<>> = a
    BY ConcatEmptySeq
  <1>4. QED
    BY <1>1, <1>2, <1>3, ConcatAssociative

LEMMA EnqueueSound ==
    ASSUME AlerterInv, Len(alerter.queue) <= QueueSize, NEW alert \in AlertValue, Enqueue(alert)
    PROVE  /\ AlerterInv' /\ Len(alerter'.queue) <= QueueSize
           /\ \/ alerter.closed /\ alerter' = alerter
              \/ alerter'.full
              \/ /\ alerter'.accepted = Append(alerter.accepted, alert)
                 /\ alerter'.full = alerter.full /\ alerter'.closed = alerter.closed
  <1>1. CASE alerter.closed
    BY <1>1 DEF Enqueue, AlerterInv
  <1>2. CASE ~alerter.closed /\ Len(alerter.queue) = QueueSize
    <2>1. alerter' = [alerter EXCEPT !.full = TRUE]
      BY <1>2 DEF Enqueue, Sent
    <2>2. QED
      BY <2>1 DEF AlerterInv, AlerterState
  <1>3. CASE ~alerter.closed /\ Len(alerter.queue) # QueueSize
    <2> DEFINE q == Append(alerter.queue, alert)
               p == Append(alerter.accepted, alert)
               a == [alerter EXCEPT !.queue = q]
    <2>1. alerter' = [a EXCEPT !.accepted = p]
      BY <1>3 DEF Enqueue, Sent, AlerterInv, AlerterState
    <2>2. /\ alerter.queue \in Seq(AlertValue) /\ alerter.accepted \in Seq(AlertValue)
          /\ alerter.posted \in Seq(AlertValue) /\ alerter.sending \in Seq(AlertValue)
          /\ ~alerter.done /\ ~alerter.panicked /\ alerter \in AlerterState
          /\ alerter.accepted = (alerter.posted \o alerter.sending) \o alerter.queue
      BY <1>3 DEF AlerterInv, AlerterState
    <2>3. /\ q \in Seq(AlertValue) /\ p \in Seq(AlertValue)
          /\ Len(q) <= QueueSize
      BY <1>3, <2>2, AlerterAssumption
    <2>4. p = (alerter.posted \o alerter.sending) \o q
      <3> DEFINE w == alerter.posted \o alerter.sending
                 v == alerter.queue
      <3>1. w \in Seq(AlertValue) /\ v \in Seq(AlertValue)
            /\ alerter.accepted = w \o v
        BY <2>2, ConcatProperties
      <3> HIDE DEF w, v
      <3>2. w \o v \in Seq(AlertValue) /\ <<alert>> \in Seq(AlertValue)
        BY <3>1, ConcatProperties
      <3>3. Append(w \o v, alert) = (w \o v) \o <<alert>> /\ Append(v, alert) = v \o <<alert>>
        BY <3>1, <3>2
      <3> DEFINE z == <<alert>>
      <3>4. z \in Seq(AlertValue)
        BY <3>2
      <3> HIDE DEF z
      <3>5. (w \o v) \o z = w \o (v \o z)
        BY <3>1, <3>4, ConcatAssociative
      <3>6. p = w \o q
        BY <3>1, <3>3, <3>5 DEF v, z
      <3>7. QED
        BY <3>6 DEF w
    <2> HIDE DEF q, p
    <2>5. a \in AlerterState /\ a = [alerter EXCEPT !.queue = q] /\ a.queue = q
          /\ a.posted = alerter.posted /\ a.sending = alerter.sending
      BY <2>2, <2>3 DEF AlerterState
    <2> HIDE DEF a
    <2>6. alerter' \in AlerterState /\ alerter'.queue = q /\ alerter'.accepted = p
          /\ alerter'.posted = alerter.posted /\ alerter'.sending = alerter.sending
      BY <2>1, <2>3, <2>5 DEF AlerterState
    <2>7. alerter'.closed = alerter.closed /\ alerter'.panicked = alerter.panicked
          /\ alerter'.done = alerter.done /\ alerter'.full = alerter.full
      BY <2>1, <2>2, <2>5 DEF AlerterState
    <2>8. AlerterInv'
      BY <1>3, <2>2, <2>4, <2>6, <2>7 DEF AlerterInv
    <2>9. QED
      BY <2>3, <2>6, <2>7, <2>8 DEF p
  <1>4. QED
    BY <1>1, <1>2, <1>3

(* run() and Shutdown.                                                     *)
LEMMA RunSound ==
    ASSUME AlerterInv, Len(alerter.queue) <= QueueSize,
           RunTake \/ RunDeliver \/ RunExit \/ Shutdown \/ ShutdownReturns
    PROVE  /\ AlerterInv' /\ Len(alerter'.queue) <= QueueSize
           /\ alerter'.accepted = alerter.accepted /\ alerter'.full = alerter.full
           /\ alerter.closed => alerter'.closed
  <1>0. /\ alerter.queue \in Seq(AlertValue) /\ alerter.accepted \in Seq(AlertValue)
        /\ alerter.posted \in Seq(AlertValue) /\ alerter.sending \in Seq(AlertValue)
        /\ alerter \in AlerterState /\ ~alerter.panicked
        /\ alerter.accepted = (alerter.posted \o alerter.sending) \o alerter.queue
        /\ alerter.done => alerter.closed /\ alerter.queue = <<>> /\ alerter.sending = <<>>
    BY DEF AlerterInv, AlerterState
  <1>1. CASE RunTake
    <2> DEFINE h == <<Head(alerter.queue)>>
               q == Tail(alerter.queue)
               a == [alerter EXCEPT !.sending = h]
    <2>1. /\ alerter.sending = <<>> /\ alerter.queue # <<>>
          /\ alerter' = [a EXCEPT !.queue = q]
      BY <1>0, <1>1 DEF RunTake, AlerterState
    <2>2. /\ h \in Seq(AlertValue) /\ q \in Seq(AlertValue) /\ Len(q) <= QueueSize
      BY <1>0, <2>1, HeadTailProperties, AlerterAssumption
    <2>3. alerter.accepted = (alerter.posted \o h) \o q
      BY <1>0, <2>1, HeadThenTail
    <2> HIDE DEF h, q
    <2>4. a \in AlerterState /\ a.sending = h /\ a.posted = alerter.posted
          /\ a.accepted = alerter.accepted
      BY <1>0, <2>2 DEF AlerterState
    <2>5. a.closed = alerter.closed /\ a.panicked = alerter.panicked
          /\ a.done = alerter.done /\ a.full = alerter.full
      BY <1>0 DEF AlerterState
    <2> HIDE DEF a
    <2>6. alerter' \in AlerterState /\ alerter'.queue = q /\ alerter'.sending = h
          /\ alerter'.posted = alerter.posted /\ alerter'.accepted = alerter.accepted
      BY <2>1, <2>2, <2>4 DEF AlerterState
    <2>7. alerter'.closed = alerter.closed /\ alerter'.panicked = alerter.panicked
          /\ alerter'.done = alerter.done /\ alerter'.full = alerter.full
      BY <2>1, <2>4, <2>5 DEF AlerterState
    <2>8. AlerterInv'
      BY <1>0, <2>1, <2>3, <2>6, <2>7 DEF AlerterInv
    <2>9. QED
      BY <2>2, <2>6, <2>7, <2>8
  <1>2. CASE RunDeliver
    <2> DEFINE p == alerter.posted \o alerter.sending
               e == <<>>
               a == [alerter EXCEPT !.sending = e]
    <2>1. /\ alerter.sending # <<>> /\ alerter' = [a EXCEPT !.posted = p]
      BY <1>0, <1>2 DEF RunDeliver, AlerterState
    <2>2. p \in Seq(AlertValue) /\ alerter.accepted = p \o alerter.queue
      BY <1>0, ConcatProperties
    <2>3. alerter.accepted = (p \o <<>>) \o alerter.queue
      BY <2>2, ConcatEmptySeq
    <2>3a. e = <<>> /\ e \in Seq(AlertValue)
      OBVIOUS
    <2> HIDE DEF p, e
    <2>4. a \in AlerterState /\ a.sending = e /\ a.queue = alerter.queue
          /\ a.accepted = alerter.accepted
      BY <1>0, <2>3a DEF AlerterState
    <2>5. a.closed = alerter.closed /\ a.panicked = alerter.panicked
          /\ a.done = alerter.done /\ a.full = alerter.full
      BY <1>0 DEF AlerterState
    <2> HIDE DEF a
    <2>6. alerter' \in AlerterState /\ alerter'.queue = alerter.queue
          /\ alerter'.sending = <<>> /\ alerter'.posted = p
          /\ alerter'.accepted = alerter.accepted
      BY <2>1, <2>2, <2>3a, <2>4 DEF AlerterState
    <2>7. alerter'.closed = alerter.closed /\ alerter'.panicked = alerter.panicked
          /\ alerter'.done = alerter.done /\ alerter'.full = alerter.full
      BY <2>1, <2>4, <2>5 DEF AlerterState
    <2>8. AlerterInv'
      BY <1>0, <2>1, <2>3, <2>6, <2>7 DEF AlerterInv
    <2>9. QED
      BY <2>6, <2>7, <2>8
  <1>3. CASE RunExit
    BY <1>3 DEF RunExit, AlerterInv, AlerterState
  <1>4. CASE Shutdown
    BY <1>4 DEF Shutdown, AlerterInv, AlerterState
  <1>5. CASE ShutdownReturns
    BY <1>5 DEF ShutdownReturns, AlerterInv, AlerterState
  <1>6. QED
    BY <1>1, <1>2, <1>3, <1>4, <1>5

-----------------------------------------------------------------------------
(* The fields a step writes.                                               *)

Point == {"new", "session", "sys", "subscribe", "failedSession", "failedSys",
          "subscribeSys", "refusedSys", "fullSession", "fullSys", "snapshot",
          "publish", "metrics", "log", "alert", "done"}

HandlerState == [at : Point, prev : AlertValue, was : AlertValue, next : AlertValue]

HubState == [status : Statuses, subscriptions : SUBSET {"#", "$SYS/#"},
             sysAvailable : BOOLEAN, reconnects : Nat, gauge : Statuses, drops : Nat]

(* The type invariant, by variable.                                        *)
LEMMA TypeByVariable ==
    MonitorTypeOK <=> /\ changes \in Handler /\ stopped \in BOOLEAN /\ overlap \in BOOLEAN
               /\ handler \in [Handler -> HandlerState] /\ hub \in HubState
               /\ Len(alerter.queue) <= QueueSize
  BY DEF MonitorTypeOK, Handler, HandlerState, HubState, Point, AlertValue

LEMMA TypeAfter ==
    ASSUME changes' \in Handler, stopped' \in BOOLEAN, overlap' \in BOOLEAN,
           handler' \in [Handler -> HandlerState], hub' \in HubState,
           Len(alerter'.queue) <= QueueSize
    PROVE  MonitorTypeOK'
  BY DEF MonitorTypeOK, Handler, HandlerState, HubState, Point, AlertValue

LEMMA GoWrites ==
    ASSUME handler \in [Handler -> HandlerState], NEW k \in Handler, NEW at \in Point,
           Go(k, at)
    PROVE  /\ handler' \in [Handler -> HandlerState]
           /\ \A j \in Handler \ {k} : handler'[j] = handler[j]
           /\ handler'[k].at = at /\ handler'[k].next = handler[k].next
           /\ handler'[k].prev = handler[k].prev /\ handler'[k].was = handler[k].was
  <1>1. handler' = [handler EXCEPT ![k] = [handler[k] EXCEPT !.at = at]]
    BY DEF Go, HandlerState
  <1> DEFINE h == [handler[k] EXCEPT !.at = at]
  <1>2. h \in HandlerState /\ h.at = at /\ h.next = handler[k].next
        /\ h.prev = handler[k].prev /\ h.was = handler[k].was
    BY DEF HandlerState
  <1> HIDE DEF h
  <1>3. QED
    BY <1>1, <1>2 DEF h

LEMMA AnnounceWrites ==
    ASSUME handler \in [Handler -> HandlerState], NEW k \in Handler, NEW s \in Statuses,
           Announce(k, s)
    PROVE  /\ handler' \in [Handler -> HandlerState]
           /\ \A j \in Handler \ {k} : handler'[j] = handler[j]
           /\ handler'[k].at = "snapshot" /\ handler'[k].next = s
  <1> DEFINE h == [handler[k] EXCEPT !.at = "snapshot", !.next = s]
  <1>1. handler' = [handler EXCEPT ![k] = h]
    BY DEF Announce, HandlerState
  <1>2. h \in HandlerState /\ h.at = "snapshot" /\ h.next = s
    BY DEF HandlerState, Point, AlertValue
  <1> HIDE DEF h
  <1>3. QED
    BY <1>1, <1>2

LEMMA SessionWrites ==
    ASSUME hub \in HubState, NEW filters \in SUBSET {"#", "$SYS/#"}, NEW connected \in BOOLEAN,
           setMonitorSession(filters, connected)
    PROVE  /\ hub' \in HubState /\ hub'.subscriptions = filters
           /\ hub'.status = hub.status /\ hub'.gauge = hub.gauge
           /\ hub'.sysAvailable = hub.sysAvailable /\ hub'.drops = hub.drops
           /\ hub'.reconnects = IF ~connected /\ hub.status = "connected"
                                THEN hub.reconnects + 1 ELSE hub.reconnects
  <1> DEFINE n == IF ~connected /\ hub.status = "connected"
                  THEN hub.reconnects + 1 ELSE hub.reconnects
  <1>1. n \in Nat /\ n = IF ~connected /\ hub.status = "connected"
                         THEN hub.reconnects + 1 ELSE hub.reconnects
    BY DEF HubState
  <1>2. hub' = [hub EXCEPT !.subscriptions = filters, !.reconnects = n]
    BY DEF setMonitorSession, HubState
  <1> HIDE DEF n
  <1>3. /\ hub' \in HubState /\ hub'.subscriptions = filters /\ hub'.reconnects = n
        /\ hub'.status = hub.status /\ hub'.gauge = hub.gauge
        /\ hub'.sysAvailable = hub.sysAvailable /\ hub'.drops = hub.drops
    BY <1>1, <1>2 DEF HubState
  <1>4. QED
    BY <1>1, <1>3

LEMMA SysWrites ==
    ASSUME hub \in HubState, NEW available \in BOOLEAN, setSysSubscription(available)
    PROVE  /\ hub' \in HubState /\ hub'.sysAvailable = available
           /\ hub'.subscriptions = hub.subscriptions /\ hub'.status = hub.status
           /\ hub'.gauge = hub.gauge /\ hub'.reconnects = hub.reconnects
           /\ hub'.drops = hub.drops
  BY DEF setSysSubscription, HubState

LEMMA PublishWrites ==
    ASSUME hub \in HubState, NEW s \in Statuses, hub' = [hub EXCEPT !.status = s]
    PROVE  /\ hub' \in HubState /\ hub'.status = s /\ hub'.sysAvailable = hub.sysAvailable
           /\ hub'.subscriptions = hub.subscriptions /\ hub'.gauge = hub.gauge
           /\ hub'.reconnects = hub.reconnects /\ hub'.drops = hub.drops
  BY DEF HubState

LEMMA MetricsWrite ==
    ASSUME hub \in HubState, NEW s \in Statuses, NEW n \in Nat,
           hub' = [hub EXCEPT !.gauge = s, !.drops = n]
    PROVE  /\ hub' \in HubState /\ hub'.gauge = s /\ hub'.drops = n
           /\ hub'.sysAvailable = hub.sysAvailable
           /\ hub'.subscriptions = hub.subscriptions /\ hub'.status = hub.status
           /\ hub'.reconnects = hub.reconnects
  BY DEF HubState


-----------------------------------------------------------------------------
(* The types, and the alerter.                                             *)

\* A handler that publishes has a status to publish.
NextInv ==
    \A k \in Handler :
        handler[k].at \in {"snapshot", "publish", "metrics", "log", "alert"} =>
            handler[k].next \in Statuses

TypeInv == MonitorTypeOK /\ AlerterInv /\ NextInv

LEMMA InitType == MonitorInit => TypeInv
  <1> SUFFICES ASSUME MonitorInit PROVE TypeInv
    OBVIOUS
  <1>1. handler \in [Handler -> HandlerState] /\ changes \in Handler
    BY BrokerMonitorAssumption DEF MonitorInit, HandlerState, Handler, Point, AlertValue
  <1>2. hub \in HubState
    BY DEF MonitorInit, HubState, Statuses
  <1>3. alerter.queue = <<>> /\ Len(alerter.queue) <= QueueSize
    BY AlerterAssumption DEF MonitorInit, NewWebhookAlerter
  <1>4. MonitorTypeOK
    BY <1>1, <1>2, <1>3, TypeByVariable DEF MonitorInit
  <1>5. AlerterInv
    <2> DEFINE e == <<>>
    <2>1. e \in Seq(AlertValue) /\ e = (e \o e) \o e
      BY ConcatEmptySeq
    <2>2. alerter = [queue |-> e, closed |-> FALSE, sending |-> e, done |-> FALSE,
                     shut |-> "no", panicked |-> FALSE, full |-> FALSE,
                     accepted |-> e, posted |-> e]
      BY DEF MonitorInit, NewWebhookAlerter
    <2> HIDE DEF e
    <2>3. QED
      BY <2>1, <2>2 DEF AlerterInv, AlerterState
  <1>6. NextInv
    BY DEF MonitorInit, NextInv
  <1>7. QED
    BY <1>4, <1>5, <1>6 DEF TypeInv

(* A step that moves one handler and leaves the alerter alone.             *)
LEMMA HandlerTyped ==
    ASSUME TypeInv, NEW k \in Handler,
           handler' \in [Handler -> HandlerState], hub' \in HubState,
           \A j \in Handler \ {k} : handler'[j] = handler[j],
           handler'[k].at \in {"snapshot", "publish", "metrics", "log", "alert"} =>
               handler'[k].next \in Statuses,
           changes' \in Handler, stopped' \in BOOLEAN, overlap' \in BOOLEAN,
           alerter' = alerter
    PROVE  TypeInv'
  <1>1. MonitorTypeOK'
    <2>1. Len(alerter'.queue) <= QueueSize
      BY TypeByVariable DEF TypeInv
    <2>2. QED
      BY <2>1, TypeAfter
  <1>2. NextInv'
    BY DEF TypeInv, NextInv
  <1>3. AlerterInv'
    BY DEF TypeInv, AlerterInv
  <1>4. QED
    BY <1>1, <1>2, <1>3 DEF TypeInv

LEMMA StepType == TypeInv /\ [MonitorNext]_monitorVars => TypeInv'
  <1> SUFFICES ASSUME TypeInv, [MonitorNext]_monitorVars PROVE TypeInv'
    OBVIOUS
  <1>0. /\ handler \in [Handler -> HandlerState] /\ hub \in HubState
        /\ changes \in Handler /\ stopped \in BOOLEAN /\ overlap \in BOOLEAN
        /\ Len(alerter.queue) <= QueueSize /\ AlerterInv
        /\ \A k \in Handler : handler[k] \in HandlerState
    BY TypeByVariable DEF TypeInv

  <1>1. ASSUME NEW k \in Handler, LostSession(k), Kept PROVE TypeInv'
    <2>1. changes' = changes /\ stopped' = stopped /\ overlap' = overlap /\ alerter' = alerter
      BY <1>1 DEF LostSession, Kept
    <2>2. hub' \in HubState
      BY <1>1, <1>0, SessionWrites DEF LostSession
    <2>3. /\ handler' \in [Handler -> HandlerState]
          /\ \A j \in Handler \ {k} : handler'[j] = handler[j]
          /\ handler'[k].at \in {"snapshot", "publish", "metrics", "log", "alert"} =>
               handler'[k].next \in Statuses
      BY <1>1, <1>0, GoWrites DEF LostSession, Point
    <2>4. QED
      BY <1>0, <2>1, <2>2, <2>3, HandlerTyped
  <1>2. ASSUME NEW k \in Handler, LostSys(k), Kept PROVE TypeInv'
    <2>1. changes' = changes /\ stopped' = stopped /\ overlap' = overlap /\ alerter' = alerter
      BY <1>2 DEF LostSys, Kept
    <2>2. hub' \in HubState
      BY <1>2, <1>0, SysWrites DEF LostSys
    <2>3. /\ handler' \in [Handler -> HandlerState]
          /\ \A j \in Handler \ {k} : handler'[j] = handler[j]
          /\ handler'[k].at \in {"snapshot", "publish", "metrics", "log", "alert"} =>
               handler'[k].next \in Statuses
      BY <1>2, <1>0, AnnounceWrites DEF LostSys, Statuses
    <2>4. QED
      BY <1>0, <2>1, <2>2, <2>3, HandlerTyped
  <1>3. ASSUME NEW k \in Handler, ConnectSession(k), Kept PROVE TypeInv'
    <2>1. changes' = changes /\ stopped' = stopped /\ overlap' = overlap /\ alerter' = alerter
      BY <1>3 DEF ConnectSession, Kept
    <2>2. hub' \in HubState
      BY <1>3, <1>0, SessionWrites DEF ConnectSession
    <2>3. /\ handler' \in [Handler -> HandlerState]
          /\ \A j \in Handler \ {k} : handler'[j] = handler[j]
          /\ handler'[k].at \in {"snapshot", "publish", "metrics", "log", "alert"} =>
               handler'[k].next \in Statuses
      BY <1>3, <1>0, GoWrites DEF ConnectSession, Point
    <2>4. QED
      BY <1>0, <2>1, <2>2, <2>3, HandlerTyped
  <1>4. ASSUME NEW k \in Handler, ConnectSys(k), Kept PROVE TypeInv'
    <2>1. changes' = changes /\ stopped' = stopped /\ overlap' = overlap /\ alerter' = alerter
      BY <1>4 DEF ConnectSys, Kept
    <2>2. hub' \in HubState
      BY <1>4, <1>0, SysWrites DEF ConnectSys
    <2>3. /\ handler' \in [Handler -> HandlerState]
          /\ \A j \in Handler \ {k} : handler'[j] = handler[j]
          /\ handler'[k].at \in {"snapshot", "publish", "metrics", "log", "alert"} =>
               handler'[k].next \in Statuses
      BY <1>4, <1>0, GoWrites DEF ConnectSys, Point
    <2>4. QED
      BY <1>0, <2>1, <2>2, <2>3, HandlerTyped
  <1>5. ASSUME NEW k \in Handler, SubscribeAll(k), Kept PROVE TypeInv'
    <2>1. changes' = changes /\ stopped' = stopped /\ overlap' = overlap /\ alerter' = alerter
      BY <1>5 DEF SubscribeAll, Kept
    <2>2. hub' \in HubState
      BY <1>5, <1>0 DEF SubscribeAll
    <2>3. /\ handler' \in [Handler -> HandlerState]
          /\ \A j \in Handler \ {k} : handler'[j] = handler[j]
          /\ handler'[k].at \in {"snapshot", "publish", "metrics", "log", "alert"} =>
               handler'[k].next \in Statuses
      BY <1>5, <1>0, GoWrites DEF SubscribeAll, Point
    <2>4. QED
      BY <1>0, <2>1, <2>2, <2>3, HandlerTyped
  <1>6. ASSUME NEW k \in Handler, FailedSession(k), Kept PROVE TypeInv'
    <2>1. changes' = changes /\ stopped' = stopped /\ overlap' = overlap /\ alerter' = alerter
      BY <1>6 DEF FailedSession, Kept
    <2>2. hub' \in HubState
      BY <1>6, <1>0, SessionWrites DEF FailedSession
    <2>3. /\ handler' \in [Handler -> HandlerState]
          /\ \A j \in Handler \ {k} : handler'[j] = handler[j]
          /\ handler'[k].at \in {"snapshot", "publish", "metrics", "log", "alert"} =>
               handler'[k].next \in Statuses
      BY <1>6, <1>0, GoWrites DEF FailedSession, Point
    <2>4. QED
      BY <1>0, <2>1, <2>2, <2>3, HandlerTyped
  <1>7. ASSUME NEW k \in Handler, FailedSys(k), Kept PROVE TypeInv'
    <2>1. changes' = changes /\ stopped' = stopped /\ overlap' = overlap /\ alerter' = alerter
      BY <1>7 DEF FailedSys, Kept
    <2>2. hub' \in HubState
      BY <1>7, <1>0, SysWrites DEF FailedSys
    <2>3. /\ handler' \in [Handler -> HandlerState]
          /\ \A j \in Handler \ {k} : handler'[j] = handler[j]
          /\ handler'[k].at \in {"snapshot", "publish", "metrics", "log", "alert"} =>
               handler'[k].next \in Statuses
      BY <1>7, <1>0, AnnounceWrites DEF FailedSys, Statuses
    <2>4. QED
      BY <1>0, <2>1, <2>2, <2>3, HandlerTyped
  <1>8. ASSUME NEW k \in Handler, SubscribeSys(k), Kept PROVE TypeInv'
    <2>1. changes' = changes /\ stopped' = stopped /\ overlap' = overlap /\ alerter' = alerter
      BY <1>8 DEF SubscribeSys, Kept
    <2>2. hub' \in HubState
      BY <1>8, <1>0 DEF SubscribeSys
    <2>3. /\ handler' \in [Handler -> HandlerState]
          /\ \A j \in Handler \ {k} : handler'[j] = handler[j]
          /\ handler'[k].at \in {"snapshot", "publish", "metrics", "log", "alert"} =>
               handler'[k].next \in Statuses
      BY <1>8, <1>0, GoWrites DEF SubscribeSys, Point
    <2>4. QED
      BY <1>0, <2>1, <2>2, <2>3, HandlerTyped
  <1>9. ASSUME NEW k \in Handler, RefusedSys(k), Kept PROVE TypeInv'
    <2>1. changes' = changes /\ stopped' = stopped /\ overlap' = overlap /\ alerter' = alerter
      BY <1>9 DEF RefusedSys, Kept
    <2>2. hub' \in HubState
      BY <1>9, <1>0, SysWrites DEF RefusedSys
    <2>3. /\ handler' \in [Handler -> HandlerState]
          /\ \A j \in Handler \ {k} : handler'[j] = handler[j]
          /\ handler'[k].at \in {"snapshot", "publish", "metrics", "log", "alert"} =>
               handler'[k].next \in Statuses
      BY <1>9, <1>0, AnnounceWrites DEF RefusedSys, Statuses
    <2>4. QED
      BY <1>0, <2>1, <2>2, <2>3, HandlerTyped
  <1>10. ASSUME NEW k \in Handler, FullSession(k), Kept PROVE TypeInv'
    <2>1. changes' = changes /\ stopped' = stopped /\ overlap' = overlap /\ alerter' = alerter
      BY <1>10 DEF FullSession, Kept
    <2>2. hub' \in HubState
      BY <1>10, <1>0, SessionWrites DEF FullSession
    <2>3. /\ handler' \in [Handler -> HandlerState]
          /\ \A j \in Handler \ {k} : handler'[j] = handler[j]
          /\ handler'[k].at \in {"snapshot", "publish", "metrics", "log", "alert"} =>
               handler'[k].next \in Statuses
      BY <1>10, <1>0, GoWrites DEF FullSession, Point
    <2>4. QED
      BY <1>0, <2>1, <2>2, <2>3, HandlerTyped
  <1>11. ASSUME NEW k \in Handler, FullSys(k), Kept PROVE TypeInv'
    <2>1. changes' = changes /\ stopped' = stopped /\ overlap' = overlap /\ alerter' = alerter
      BY <1>11 DEF FullSys, Kept
    <2>2. hub' \in HubState
      BY <1>11, <1>0, SysWrites DEF FullSys
    <2>3. /\ handler' \in [Handler -> HandlerState]
          /\ \A j \in Handler \ {k} : handler'[j] = handler[j]
          /\ handler'[k].at \in {"snapshot", "publish", "metrics", "log", "alert"} =>
               handler'[k].next \in Statuses
      BY <1>11, <1>0, AnnounceWrites DEF FullSys, Statuses
    <2>4. QED
      BY <1>0, <2>1, <2>2, <2>3, HandlerTyped
  <1>12. ASSUME NEW k \in Handler, TakeSnapshot(k) PROVE TypeInv'
    <2>1. changes' = changes /\ stopped' = stopped /\ overlap' = overlap /\ alerter' = alerter
      BY <1>12 DEF TakeSnapshot
    <2>2. hub' \in HubState
      BY <1>12, <1>0 DEF TakeSnapshot
    <2>3. /\ handler' \in [Handler -> HandlerState]
          /\ \A j \in Handler \ {k} : handler'[j] = handler[j]
          /\ handler'[k].at \in {"snapshot", "publish", "metrics", "log", "alert"} =>
               handler'[k].next \in Statuses
      <3> DEFINE h == [handler[k] EXCEPT !.at = "publish", !.prev = hub.status]
      <3>1. handler' = [handler EXCEPT ![k] = h]
        BY <1>12, <1>0 DEF TakeSnapshot, HandlerState
      <3>2. h \in HandlerState /\ h.next = handler[k].next
        BY <1>0 DEF HandlerState, HubState, Point, AlertValue
      <3>3. handler[k].next \in Statuses
        BY <1>12 DEF TakeSnapshot, TypeInv, NextInv
      <3> HIDE DEF h
      <3>4. QED
        BY <1>0, <3>1, <3>2, <3>3
    <2>4. QED
      BY <1>0, <2>1, <2>2, <2>3, HandlerTyped
  <1>13. ASSUME NEW k \in Handler, PublishStatus(k) PROVE TypeInv'
    <2>1. changes' = changes /\ stopped' = stopped /\ overlap' = overlap /\ alerter' = alerter
      BY <1>13 DEF PublishStatus
    <2>2. hub' \in HubState
      <3>1. handler[k].next \in Statuses
        BY <1>13 DEF PublishStatus, TypeInv, NextInv
      <3>2. QED
        BY <1>13, <1>0, <3>1, PublishWrites DEF PublishStatus
    <2>3. /\ handler' \in [Handler -> HandlerState]
          /\ \A j \in Handler \ {k} : handler'[j] = handler[j]
          /\ handler'[k].at \in {"snapshot", "publish", "metrics", "log", "alert"} =>
               handler'[k].next \in Statuses
      <3> DEFINE h == [handler[k] EXCEPT !.at = "metrics", !.was = hub.status]
      <3>1. handler' = [handler EXCEPT ![k] = h]
        BY <1>13, <1>0 DEF PublishStatus, HandlerState
      <3>2. h \in HandlerState /\ h.next = handler[k].next
        BY <1>0 DEF HandlerState, HubState, Point, AlertValue
      <3>3. handler[k].next \in Statuses
        BY <1>13 DEF PublishStatus, TypeInv, NextInv
      <3> HIDE DEF h
      <3>4. QED
        BY <1>0, <3>1, <3>2, <3>3
    <2>4. QED
      BY <1>0, <2>1, <2>2, <2>3, HandlerTyped
  <1>14. ASSUME NEW k \in Handler, SetMetrics(k) PROVE TypeInv'
    <2>1. changes' = changes /\ stopped' = stopped /\ overlap' = overlap /\ alerter' = alerter
      BY <1>14 DEF SetMetrics
    <2>2. hub' \in HubState
      <3> DEFINE n == IF handler[k].next # "connected" /\ handler[k].was = "connected"
                      THEN hub.drops + 1 ELSE hub.drops
      <3>1. handler[k].next \in Statuses
        BY <1>14 DEF SetMetrics, TypeInv, NextInv
      <3>2. n \in Nat
        BY <1>0 DEF HubState
      <3>3. hub' = [hub EXCEPT !.gauge = handler[k].next, !.drops = n]
        BY <1>14, <1>0 DEF SetMetrics, HubState
      <3> HIDE DEF n
      <3>4. QED
        BY <1>0, <3>1, <3>2, <3>3, MetricsWrite
    <2>3. /\ handler' \in [Handler -> HandlerState]
          /\ \A j \in Handler \ {k} : handler'[j] = handler[j]
          /\ handler'[k].at \in {"snapshot", "publish", "metrics", "log", "alert"} =>
               handler'[k].next \in Statuses
      <3>1. handler[k].next \in Statuses
        BY <1>14 DEF SetMetrics, TypeInv, NextInv
      <3>2. QED
        BY <1>14, <1>0, <3>1, GoWrites DEF SetMetrics, Point
    <2>4. QED
      BY <1>0, <2>1, <2>2, <2>3, HandlerTyped
  <1>15. ASSUME NEW k \in Handler, PublishLog(k) PROVE TypeInv'
    <2>1. changes' = changes /\ stopped' = stopped /\ overlap' = overlap /\ alerter' = alerter
      BY <1>15 DEF PublishLog
    <2>2. hub' \in HubState
      BY <1>15, <1>0 DEF PublishLog
    <2>3. /\ handler' \in [Handler -> HandlerState]
          /\ \A j \in Handler \ {k} : handler'[j] = handler[j]
          /\ handler'[k].at \in {"snapshot", "publish", "metrics", "log", "alert"} =>
               handler'[k].next \in Statuses
      <3>1. handler[k].next \in Statuses
        BY <1>15 DEF PublishLog, TypeInv, NextInv
      <3>2. QED
        BY <1>15, <1>0, <3>1, GoWrites DEF PublishLog, Point
    <2>4. QED
      BY <1>0, <2>1, <2>2, <2>3, HandlerTyped
  <1>16. ASSUME NEW k \in Handler, Alert(k) PROVE TypeInv'
    <2>1. handler[k].next \in AlertValue
      BY <1>16 DEF Alert, TypeInv, NextInv, AlertValue
    <2>2. AlerterInv' /\ Len(alerter'.queue) <= QueueSize
      BY <1>16, <1>0, <2>1, EnqueueSound DEF Alert
    <2>3. /\ handler' \in [Handler -> HandlerState] /\ handler'[k].at = "done"
          /\ \A j \in Handler \ {k} : handler'[j] = handler[j]
      BY <1>16, <1>0, GoWrites DEF Alert, Point
    <2>4. MonitorTypeOK'
      BY <1>16, <1>0, <2>2, <2>3, TypeAfter DEF Alert
    <2>5. NextInv'
      BY <2>3 DEF TypeInv, NextInv
    <2>6. QED
      BY <2>2, <2>4, <2>5 DEF TypeInv
  <1>17. CASE ConnectionChanges
    <2>1. changes' = changes + 1 /\ changes' \in Handler
      BY <1>17, <1>0, BrokerMonitorAssumption DEF ConnectionChanges, Handler
    <2>2. stopped' = stopped /\ hub' = hub /\ alerter' = alerter /\ overlap' \in BOOLEAN
      BY <1>17, <1>0 DEF ConnectionChanges
    <2>3. Go(changes', "session")
      BY <1>17, <2>1 DEF ConnectionChanges
    <2>4. /\ handler' \in [Handler -> HandlerState] /\ handler'[changes'].at = "session"
          /\ \A j \in Handler \ {changes'} : handler'[j] = handler[j]
      BY <1>0, <2>1, <2>3, GoWrites DEF Point
    <2>5. QED
      BY <1>0, <2>1, <2>2, <2>4, HandlerTyped
  <1>18. CASE MonitorFails
    <2>1. 0 \in Handler
      BY BrokerMonitorAssumption DEF Handler
    <2>2. /\ stopped' \in BOOLEAN /\ hub' = hub /\ alerter' = alerter
          /\ overlap' = overlap /\ changes' = changes
      BY <1>18 DEF MonitorFails
    <2>3. /\ handler' \in [Handler -> HandlerState] /\ handler'[0].next \in Statuses
          /\ \A j \in Handler \ {0} : handler'[j] = handler[j]
      BY <1>18, <1>0, <2>1, AnnounceWrites DEF MonitorFails, Statuses
    <2>4. QED
      BY <1>0, <2>1, <2>2, <2>3, HandlerTyped
  <1>19. CASE Stop
    <2>1. stopped' \in BOOLEAN /\ UNCHANGED <<changes, handler, overlap, hub, alerter>>
      BY <1>19 DEF Stop
    <2>2. MonitorTypeOK'
      BY <1>0, <2>1, TypeAfter
    <2>3. AlerterInv' /\ NextInv'
      BY <2>1 DEF TypeInv, AlerterInv, NextInv
    <2>4. QED
      BY <2>2, <2>3 DEF TypeInv
  <1>20. CASE RunStep
    <2>1. AlerterInv' /\ Len(alerter'.queue) <= QueueSize
      BY <1>20, <1>0, RunSound DEF RunStep, ShutdownStep
    <2>2. UNCHANGED <<changes, stopped, handler, overlap, hub>>
      BY <1>20 DEF RunStep, ShutdownStep
    <2>3. MonitorTypeOK'
      BY <1>0, <2>1, <2>2, TypeAfter
    <2>4. NextInv'
      BY <2>2 DEF TypeInv, NextInv
    <2>5. QED
      BY <2>1, <2>3, <2>4 DEF TypeInv
  <1>21. CASE ShutdownStep
    <2>1. AlerterInv' /\ Len(alerter'.queue) <= QueueSize
      BY <1>21, <1>0, RunSound DEF RunStep, ShutdownStep
    <2>2. UNCHANGED <<changes, stopped, handler, overlap, hub>>
      BY <1>21 DEF RunStep, ShutdownStep
    <2>3. MonitorTypeOK'
      BY <1>0, <2>1, <2>2, TypeAfter
    <2>4. NextInv'
      BY <2>2 DEF TypeInv, NextInv
    <2>5. QED
      BY <2>1, <2>3, <2>4 DEF TypeInv
  <1>22. CASE UNCHANGED monitorVars
    BY <1>22 DEF monitorVars, TypeInv, MonitorTypeOK, AlerterInv, NextInv
  <1>23. QED
    BY <1>1, <1>2, <1>3, <1>4, <1>5, <1>6, <1>7, <1>8, <1>9, <1>10, <1>11,
       <1>12, <1>13, <1>14, <1>15, <1>16, <1>17, <1>18, <1>19, <1>20, <1>21,
       <1>22 DEF MonitorNext, HandlerStep, SessionStep, Kept

-----------------------------------------------------------------------------
(* Handlers that run one after the other.                                  *)

LEMMA InitSerial == MonitorInit => SerialInv /\ StartInv
  <1> SUFFICES ASSUME MonitorInit PROVE SerialInv /\ StartInv
    OBVIOUS
  <1>1. \A k \in Handler : handler[k].at = "new"
    BY DEF MonitorInit
  <1>2. changes \in Handler /\ 0 \in Handler
    BY BrokerMonitorAssumption DEF MonitorInit, Handler
  <1>3. LastAlert = "disconnected"
    BY DEF MonitorInit, NewWebhookAlerter, LastAlert
  <1>4. Agree
    BY <1>3 DEF MonitorInit, Agree, Settled, Told, SessionIs, Ahead
  <1>5. QED
    BY <1>1, <1>2, <1>4 DEF SerialInv, StartInv, Latest, Running, Subscribing

LEMMA StepSerial ==
    TypeInv /\ SerialInv /\ StartInv /\ [MonitorNext]_monitorVars => SerialInv' /\ StartInv'
  <1> SUFFICES ASSUME TypeInv, SerialInv, StartInv, [MonitorNext]_monitorVars
               PROVE  SerialInv' /\ StartInv'
    OBVIOUS
  <1>0. /\ handler \in [Handler -> HandlerState] /\ hub \in HubState
        /\ changes \in Handler /\ stopped \in BOOLEAN /\ overlap \in BOOLEAN
    BY TypeByVariable DEF TypeInv
  <1>a. 0 \in Handler
    BY BrokerMonitorAssumption DEF Handler

  <1>1. ASSUME NEW k \in Handler, LostSession(k), Kept PROVE SerialInv' /\ StartInv'
    <2>1. /\ changes' = changes /\ stopped' = stopped /\ overlap' = overlap
          /\ \A s : Told(s)' = Told(s)
      BY <1>1 DEF LostSession, Kept, Told, LastAlert
    <2>2. /\ handler'[k].at = "sys"
          /\ \A j \in Handler \ {k} : handler'[j] = handler[j]
      BY <1>1, <1>0, GoWrites DEF LostSession, Point
    <2>3. /\ hub'.subscriptions = {} /\ hub'.reconnects = IF hub.status = "connected" THEN hub.reconnects + 1 ELSE hub.reconnects
          /\ hub'.status = hub.status /\ hub'.gauge = hub.gauge
          /\ hub'.sysAvailable = hub.sysAvailable /\ hub'.drops = hub.drops
      BY <1>1, <1>0, SessionWrites DEF LostSession
    <2>4. handler[k].at # "new" /\ StartInv'
      BY <1>1, <1>a, <2>1, <2>2 DEF LostSession, StartInv
    <2>5. ASSUME ~overlap
          PROVE  k = changes /\ (Odd' <=> Odd) /\ (k % 2 = 1 <=> Odd) /\ (k % 2 = 0 <=> ~Odd)
      BY <1>1, <2>1, <2>5, <1>0 DEF LostSession, SerialInv, Running, Odd, Handler
    <2>6. SerialInv'
      BY <1>1, <1>0, <2>1, <2>2, <2>3, <2>5
         DEF LostSession, SerialInv, Latest, Agree, AtConnect, AtLost, Announced,
             Settled, SessionIs, Ahead, Subscribing, Running, HubState, Statuses
    <2>7. QED
      BY <2>4, <2>6
  <1>2. ASSUME NEW k \in Handler, LostSys(k), Kept PROVE SerialInv' /\ StartInv'
    <2>1. /\ changes' = changes /\ stopped' = stopped /\ overlap' = overlap
          /\ \A s : Told(s)' = Told(s)
      BY <1>2 DEF LostSys, Kept, Told, LastAlert
    <2>2. /\ handler'[k].at = "snapshot" /\ handler'[k].next = "disconnected"
          /\ \A j \in Handler \ {k} : handler'[j] = handler[j]
      BY <1>2, <1>0, AnnounceWrites DEF LostSys, Statuses
    <2>3. /\ hub'.sysAvailable = FALSE /\ hub'.reconnects = hub.reconnects
          /\ hub'.subscriptions = hub.subscriptions /\ hub'.status = hub.status
          /\ hub'.gauge = hub.gauge /\ hub'.drops = hub.drops
      BY <1>2, <1>0, SysWrites DEF LostSys
    <2>4. handler[k].at # "new" /\ StartInv'
      BY <1>2, <1>a, <2>1, <2>2 DEF LostSys, StartInv
    <2>5. ASSUME ~overlap
          PROVE  k = changes /\ (Odd' <=> Odd) /\ (k % 2 = 1 <=> Odd) /\ (k % 2 = 0 <=> ~Odd)
      BY <1>2, <2>1, <2>5, <1>0 DEF LostSys, SerialInv, Running, Odd, Handler
    <2>6. SerialInv'
      BY <1>2, <1>0, <2>1, <2>2, <2>3, <2>5
         DEF LostSys, SerialInv, Latest, Agree, AtConnect, AtLost, Announced,
             Settled, SessionIs, Ahead, Subscribing, Running, HubState, Statuses
    <2>7. QED
      BY <2>4, <2>6
  <1>3. ASSUME NEW k \in Handler, ConnectSession(k), Kept
        PROVE  SerialInv' /\ StartInv'
    <2>1. /\ changes' = changes /\ stopped' = stopped /\ overlap' = overlap
          /\ \A s : Told(s)' = Told(s)
      BY <1>3 DEF ConnectSession, Kept, Told, LastAlert
    <2>2. /\ handler'[k].at = "sys"
          /\ \A j \in Handler \ {k} : handler'[j] = handler[j]
      BY <1>3, <1>0, GoWrites DEF ConnectSession, Point
    <2>3. /\ hub'.subscriptions = {"#"} /\ hub'.reconnects = hub.reconnects
          /\ hub'.status = hub.status /\ hub'.gauge = hub.gauge
          /\ hub'.sysAvailable = hub.sysAvailable /\ hub'.drops = hub.drops
      BY <1>3, <1>0, SessionWrites DEF ConnectSession
    <2>4. handler[k].at # "new" /\ StartInv'
      BY <1>3, <1>a, <2>1, <2>2 DEF ConnectSession, StartInv
    <2>5. ASSUME ~overlap
          PROVE  k = changes /\ (Odd' <=> Odd) /\ (k % 2 = 1 <=> Odd) /\ (k % 2 = 0 <=> ~Odd)
      BY <1>3, <2>1, <2>5, <1>0 DEF ConnectSession, SerialInv, Running, Odd, Handler
    <2>6. SerialInv'
      BY <1>3, <1>0, <2>1, <2>2, <2>3, <2>5
         DEF ConnectSession, SerialInv, Latest, Agree, AtConnect, AtLost, Announced,
             Settled, SessionIs, Ahead, Subscribing, Running, HubState, Statuses
    <2>7. QED
      BY <2>4, <2>6
  <1>4. ASSUME NEW k \in Handler, ConnectSys(k), Kept PROVE SerialInv' /\ StartInv'
    <2>1. /\ changes' = changes /\ stopped' = stopped /\ overlap' = overlap
          /\ \A s : Told(s)' = Told(s)
      BY <1>4 DEF ConnectSys, Kept, Told, LastAlert
    <2>2. /\ handler'[k].at = "subscribe"
          /\ \A j \in Handler \ {k} : handler'[j] = handler[j]
      BY <1>4, <1>0, GoWrites DEF ConnectSys, Point
    <2>3. /\ hub'.sysAvailable = FALSE /\ hub'.reconnects = hub.reconnects
          /\ hub'.subscriptions = hub.subscriptions /\ hub'.status = hub.status
          /\ hub'.gauge = hub.gauge /\ hub'.drops = hub.drops
      BY <1>4, <1>0, SysWrites DEF ConnectSys
    <2>4. handler[k].at # "new" /\ StartInv'
      BY <1>4, <1>a, <2>1, <2>2 DEF ConnectSys, StartInv
    <2>5. ASSUME ~overlap
          PROVE  k = changes /\ (Odd' <=> Odd) /\ (k % 2 = 1 <=> Odd) /\ (k % 2 = 0 <=> ~Odd)
      BY <1>4, <2>1, <2>5, <1>0 DEF ConnectSys, SerialInv, Running, Odd, Handler
    <2>6. SerialInv'
      BY <1>4, <1>0, <2>1, <2>2, <2>3, <2>5
         DEF ConnectSys, SerialInv, Latest, Agree, AtConnect, AtLost, Announced,
             Settled, SessionIs, Ahead, Subscribing, Running, HubState, Statuses
    <2>7. QED
      BY <2>4, <2>6
  <1>5. ASSUME NEW k \in Handler, SubscribeAll(k), Kept
        PROVE  SerialInv' /\ StartInv'
    <2>1. /\ changes' = changes /\ stopped' = stopped /\ overlap' = overlap
          /\ \A s : Told(s)' = Told(s)
      BY <1>5 DEF SubscribeAll, Kept, Told, LastAlert
    <2>2. /\ handler'[k].at \in {"subscribeSys", "failedSession"}
          /\ \A j \in Handler \ {k} : handler'[j] = handler[j]
      BY <1>5, <1>0, GoWrites DEF SubscribeAll, Point
    <2>3. hub' = hub
      BY <1>5 DEF SubscribeAll
    <2>4. handler[k].at # "new" /\ StartInv'
      BY <1>5, <1>a, <2>1, <2>2 DEF SubscribeAll, StartInv
    <2>5. ASSUME ~overlap
          PROVE  k = changes /\ (Odd' <=> Odd) /\ (k % 2 = 1 <=> Odd) /\ (k % 2 = 0 <=> ~Odd)
      BY <1>5, <2>1, <2>5, <1>0 DEF SubscribeAll, SerialInv, Running, Odd, Handler
    <2>6. SerialInv'
      BY <1>5, <1>0, <2>1, <2>2, <2>3, <2>5
         DEF SubscribeAll, SerialInv, Latest, Agree, AtConnect, AtLost, Announced,
             Settled, SessionIs, Ahead, Subscribing, Running, HubState, Statuses
    <2>7. QED
      BY <2>4, <2>6
  <1>6. ASSUME NEW k \in Handler, FailedSession(k), Kept
        PROVE  SerialInv' /\ StartInv'
    <2>1. /\ changes' = changes /\ stopped' = stopped /\ overlap' = overlap
          /\ \A s : Told(s)' = Told(s)
      BY <1>6 DEF FailedSession, Kept, Told, LastAlert
    <2>2. /\ handler'[k].at = "failedSys"
          /\ \A j \in Handler \ {k} : handler'[j] = handler[j]
      BY <1>6, <1>0, GoWrites DEF FailedSession, Point
    <2>3. /\ hub'.subscriptions = {} /\ hub'.reconnects = IF hub.status = "connected" THEN hub.reconnects + 1 ELSE hub.reconnects
          /\ hub'.status = hub.status /\ hub'.gauge = hub.gauge
          /\ hub'.sysAvailable = hub.sysAvailable /\ hub'.drops = hub.drops
      BY <1>6, <1>0, SessionWrites DEF FailedSession
    <2>4. handler[k].at # "new" /\ StartInv'
      BY <1>6, <1>a, <2>1, <2>2 DEF FailedSession, StartInv
    <2>5. ASSUME ~overlap
          PROVE  k = changes /\ (Odd' <=> Odd) /\ (k % 2 = 1 <=> Odd) /\ (k % 2 = 0 <=> ~Odd)
      BY <1>6, <2>1, <2>5, <1>0 DEF FailedSession, SerialInv, Running, Odd, Handler
    <2>6. SerialInv'
      BY <1>6, <1>0, <2>1, <2>2, <2>3, <2>5
         DEF FailedSession, SerialInv, Latest, Agree, AtConnect, AtLost, Announced,
             Settled, SessionIs, Ahead, Subscribing, Running, HubState, Statuses
    <2>7. QED
      BY <2>4, <2>6
  <1>7. ASSUME NEW k \in Handler, FailedSys(k), Kept PROVE SerialInv' /\ StartInv'
    <2>1. /\ changes' = changes /\ stopped' = stopped /\ overlap' = overlap
          /\ \A s : Told(s)' = Told(s)
      BY <1>7 DEF FailedSys, Kept, Told, LastAlert
    <2>2. /\ handler'[k].at = "snapshot" /\ handler'[k].next = "disconnected"
          /\ \A j \in Handler \ {k} : handler'[j] = handler[j]
      BY <1>7, <1>0, AnnounceWrites DEF FailedSys, Statuses
    <2>3. /\ hub'.sysAvailable = FALSE /\ hub'.reconnects = hub.reconnects
          /\ hub'.subscriptions = hub.subscriptions /\ hub'.status = hub.status
          /\ hub'.gauge = hub.gauge /\ hub'.drops = hub.drops
      BY <1>7, <1>0, SysWrites DEF FailedSys
    <2>4. handler[k].at # "new" /\ StartInv'
      BY <1>7, <1>a, <2>1, <2>2 DEF FailedSys, StartInv
    <2>5. ASSUME ~overlap
          PROVE  k = changes /\ (Odd' <=> Odd) /\ (k % 2 = 1 <=> Odd) /\ (k % 2 = 0 <=> ~Odd)
      BY <1>7, <2>1, <2>5, <1>0 DEF FailedSys, SerialInv, Running, Odd, Handler
    <2>6. SerialInv'
      BY <1>7, <1>0, <2>1, <2>2, <2>3, <2>5
         DEF FailedSys, SerialInv, Latest, Agree, AtConnect, AtLost, Announced,
             Settled, SessionIs, Ahead, Subscribing, Running, HubState, Statuses
    <2>7. QED
      BY <2>4, <2>6
  <1>8. ASSUME NEW k \in Handler, SubscribeSys(k), Kept
        PROVE  SerialInv' /\ StartInv'
    <2>1. /\ changes' = changes /\ stopped' = stopped /\ overlap' = overlap
          /\ \A s : Told(s)' = Told(s)
      BY <1>8 DEF SubscribeSys, Kept, Told, LastAlert
    <2>2. /\ handler'[k].at \in {"fullSession", "refusedSys"}
          /\ \A j \in Handler \ {k} : handler'[j] = handler[j]
      BY <1>8, <1>0, GoWrites DEF SubscribeSys, Point
    <2>3. hub' = hub
      BY <1>8 DEF SubscribeSys
    <2>4. handler[k].at # "new" /\ StartInv'
      BY <1>8, <1>a, <2>1, <2>2 DEF SubscribeSys, StartInv
    <2>5. ASSUME ~overlap
          PROVE  k = changes /\ (Odd' <=> Odd) /\ (k % 2 = 1 <=> Odd) /\ (k % 2 = 0 <=> ~Odd)
      BY <1>8, <2>1, <2>5, <1>0 DEF SubscribeSys, SerialInv, Running, Odd, Handler
    <2>6. SerialInv'
      BY <1>8, <1>0, <2>1, <2>2, <2>3, <2>5
         DEF SubscribeSys, SerialInv, Latest, Agree, AtConnect, AtLost, Announced,
             Settled, SessionIs, Ahead, Subscribing, Running, HubState, Statuses
    <2>7. QED
      BY <2>4, <2>6
  <1>9. ASSUME NEW k \in Handler, RefusedSys(k), Kept PROVE SerialInv' /\ StartInv'
    <2>1. /\ changes' = changes /\ stopped' = stopped /\ overlap' = overlap
          /\ \A s : Told(s)' = Told(s)
      BY <1>9 DEF RefusedSys, Kept, Told, LastAlert
    <2>2. /\ handler'[k].at = "snapshot" /\ handler'[k].next = "connected"
          /\ \A j \in Handler \ {k} : handler'[j] = handler[j]
      BY <1>9, <1>0, AnnounceWrites DEF RefusedSys, Statuses
    <2>3. /\ hub'.sysAvailable = FALSE /\ hub'.reconnects = hub.reconnects
          /\ hub'.subscriptions = hub.subscriptions /\ hub'.status = hub.status
          /\ hub'.gauge = hub.gauge /\ hub'.drops = hub.drops
      BY <1>9, <1>0, SysWrites DEF RefusedSys
    <2>4. handler[k].at # "new" /\ StartInv'
      BY <1>9, <1>a, <2>1, <2>2 DEF RefusedSys, StartInv
    <2>5. ASSUME ~overlap
          PROVE  k = changes /\ (Odd' <=> Odd) /\ (k % 2 = 1 <=> Odd) /\ (k % 2 = 0 <=> ~Odd)
      BY <1>9, <2>1, <2>5, <1>0 DEF RefusedSys, SerialInv, Running, Odd, Handler
    <2>6. SerialInv'
      BY <1>9, <1>0, <2>1, <2>2, <2>3, <2>5
         DEF RefusedSys, SerialInv, Latest, Agree, AtConnect, AtLost, Announced,
             Settled, SessionIs, Ahead, Subscribing, Running, HubState, Statuses
    <2>7. QED
      BY <2>4, <2>6
  <1>10. ASSUME NEW k \in Handler, FullSession(k), Kept
         PROVE  SerialInv' /\ StartInv'
    <2>1. /\ changes' = changes /\ stopped' = stopped /\ overlap' = overlap
          /\ \A s : Told(s)' = Told(s)
      BY <1>10 DEF FullSession, Kept, Told, LastAlert
    <2>2. /\ handler'[k].at = "fullSys"
          /\ \A j \in Handler \ {k} : handler'[j] = handler[j]
      BY <1>10, <1>0, GoWrites DEF FullSession, Point
    <2>3. /\ hub'.subscriptions = {"#", "$SYS/#"} /\ hub'.reconnects = hub.reconnects
          /\ hub'.status = hub.status /\ hub'.gauge = hub.gauge
          /\ hub'.sysAvailable = hub.sysAvailable /\ hub'.drops = hub.drops
      BY <1>10, <1>0, SessionWrites DEF FullSession
    <2>4. handler[k].at # "new" /\ StartInv'
      BY <1>10, <1>a, <2>1, <2>2 DEF FullSession, StartInv
    <2>5. ASSUME ~overlap
          PROVE  k = changes /\ (Odd' <=> Odd) /\ (k % 2 = 1 <=> Odd) /\ (k % 2 = 0 <=> ~Odd)
      BY <1>10, <2>1, <2>5, <1>0 DEF FullSession, SerialInv, Running, Odd, Handler
    <2>6. SerialInv'
      BY <1>10, <1>0, <2>1, <2>2, <2>3, <2>5
         DEF FullSession, SerialInv, Latest, Agree, AtConnect, AtLost, Announced,
             Settled, SessionIs, Ahead, Subscribing, Running, HubState, Statuses
    <2>7. QED
      BY <2>4, <2>6
  <1>11. ASSUME NEW k \in Handler, FullSys(k), Kept PROVE SerialInv' /\ StartInv'
    <2>1. /\ changes' = changes /\ stopped' = stopped /\ overlap' = overlap
          /\ \A s : Told(s)' = Told(s)
      BY <1>11 DEF FullSys, Kept, Told, LastAlert
    <2>2. /\ handler'[k].at = "snapshot" /\ handler'[k].next = "connected"
          /\ \A j \in Handler \ {k} : handler'[j] = handler[j]
      BY <1>11, <1>0, AnnounceWrites DEF FullSys, Statuses
    <2>3. /\ hub'.sysAvailable = TRUE /\ hub'.reconnects = hub.reconnects
          /\ hub'.subscriptions = hub.subscriptions /\ hub'.status = hub.status
          /\ hub'.gauge = hub.gauge /\ hub'.drops = hub.drops
      BY <1>11, <1>0, SysWrites DEF FullSys
    <2>4. handler[k].at # "new" /\ StartInv'
      BY <1>11, <1>a, <2>1, <2>2 DEF FullSys, StartInv
    <2>5. ASSUME ~overlap
          PROVE  k = changes /\ (Odd' <=> Odd) /\ (k % 2 = 1 <=> Odd) /\ (k % 2 = 0 <=> ~Odd)
      BY <1>11, <2>1, <2>5, <1>0 DEF FullSys, SerialInv, Running, Odd, Handler
    <2>6. SerialInv'
      BY <1>11, <1>0, <2>1, <2>2, <2>3, <2>5
         DEF FullSys, SerialInv, Latest, Agree, AtConnect, AtLost, Announced,
             Settled, SessionIs, Ahead, Subscribing, Running, HubState, Statuses
    <2>7. QED
      BY <2>4, <2>6
  <1>12. ASSUME NEW k \in Handler, TakeSnapshot(k) PROVE SerialInv' /\ StartInv'
    <2>1. /\ changes' = changes /\ stopped' = stopped /\ overlap' = overlap
          /\ \A s : Told(s)' = Told(s)
      BY <1>12 DEF TakeSnapshot, Told, LastAlert
    <2>2. /\ handler'[k].at = "publish" /\ handler'[k].next = handler[k].next
          /\ handler'[k].prev = hub.status /\ handler'[k].was = handler[k].was
          /\ \A j \in Handler \ {k} : handler'[j] = handler[j]
      <3> DEFINE h == [handler[k] EXCEPT !.at = "publish", !.prev = hub.status]
      <3>1. handler' = [handler EXCEPT ![k] = h]
        BY <1>12, <1>0 DEF TakeSnapshot, HandlerState
      <3>2. /\ h.at = "publish" /\ h.next = handler[k].next
            /\ h.prev = hub.status /\ h.was = handler[k].was
        BY <1>0 DEF HandlerState
      <3> HIDE DEF h
      <3>3. QED
        BY <1>0, <3>1, <3>2
    <2>3. hub' = hub
      BY <1>12 DEF TakeSnapshot
    <2>4. StartInv'
      <3>1. handler[k].at # "new"
        BY <1>12 DEF TakeSnapshot
      <3>2. QED
        BY <1>a, <2>1, <2>2, <3>1 DEF StartInv
    <2>5. ASSUME ~overlap PROVE k = changes /\ (Odd' <=> Odd)
      BY <1>12, <2>1, <2>5, <1>0 DEF TakeSnapshot, SerialInv, Running, Odd
    <2>6. SerialInv'
      BY <1>12, <1>0, <2>1, <2>2, <2>3, <2>5
         DEF TakeSnapshot, SerialInv, Latest, Agree, AtConnect, AtLost, Announced,
             Settled, SessionIs, Ahead, Subscribing, Running, HubState, Statuses
    <2>7. QED
      BY <2>4, <2>6
  <1>13. ASSUME NEW k \in Handler, PublishStatus(k) PROVE SerialInv' /\ StartInv'
    <2>1. /\ changes' = changes /\ stopped' = stopped /\ overlap' = overlap
          /\ \A s : Told(s)' = Told(s)
      BY <1>13 DEF PublishStatus, Told, LastAlert
    <2>2. /\ handler'[k].at = "metrics" /\ handler'[k].next = handler[k].next
          /\ handler'[k].was = hub.status /\ handler'[k].prev = handler[k].prev
          /\ \A j \in Handler \ {k} : handler'[j] = handler[j]
      <3> DEFINE h == [handler[k] EXCEPT !.at = "metrics", !.was = hub.status]
      <3>1. handler' = [handler EXCEPT ![k] = h]
        BY <1>13, <1>0 DEF PublishStatus, HandlerState
      <3>2. /\ h.at = "metrics" /\ h.next = handler[k].next
            /\ h.was = hub.status /\ h.prev = handler[k].prev
        BY <1>0 DEF HandlerState
      <3> HIDE DEF h
      <3>3. QED
        BY <1>0, <3>1, <3>2
    <2>3. /\ hub'.status = handler[k].next /\ hub'.sysAvailable = hub.sysAvailable
          /\ hub'.subscriptions = hub.subscriptions
          /\ hub'.reconnects = hub.reconnects /\ hub'.drops = hub.drops
      <3>1. handler[k].next \in Statuses
        BY <1>13 DEF PublishStatus, TypeInv, NextInv
      <3>2. QED
        BY <1>13, <1>0, <3>1, PublishWrites DEF PublishStatus
    <2>4. StartInv'
      <3>1. handler[k].at # "new"
        BY <1>13 DEF PublishStatus
      <3>2. QED
        BY <1>a, <2>1, <2>2, <3>1 DEF StartInv
    <2>5. ASSUME ~overlap PROVE k = changes /\ (Odd' <=> Odd)
      BY <1>13, <2>1, <2>5, <1>0 DEF PublishStatus, SerialInv, Running, Odd
    <2>6. SerialInv'
      BY <1>13, <1>0, <2>1, <2>2, <2>3, <2>5
         DEF PublishStatus, SerialInv, Latest, Agree, AtConnect, AtLost, Announced,
             Settled, SessionIs, Ahead, Subscribing, Running, HubState, Statuses
    <2>7. QED
      BY <2>4, <2>6
  <1>14. ASSUME NEW k \in Handler, SetMetrics(k) PROVE SerialInv' /\ StartInv'
    <2>1. /\ changes' = changes /\ stopped' = stopped /\ overlap' = overlap
          /\ \A s : Told(s)' = Told(s)
      BY <1>14 DEF SetMetrics, Told, LastAlert
    <2>2. /\ handler'[k].at = "log" /\ handler'[k].next = handler[k].next
          /\ handler'[k].prev = handler[k].prev
          /\ \A j \in Handler \ {k} : handler'[j] = handler[j]
      BY <1>14, <1>0, GoWrites DEF SetMetrics, Point
    <2>3. /\ hub'.status = hub.status /\ hub'.sysAvailable = hub.sysAvailable
          /\ hub'.subscriptions = hub.subscriptions
          /\ hub'.gauge = handler[k].next /\ hub'.reconnects = hub.reconnects
          /\ hub'.drops = IF handler[k].next # "connected" /\ handler[k].was = "connected"
                          THEN hub.drops + 1 ELSE hub.drops
      <3> DEFINE n == IF handler[k].next # "connected" /\ handler[k].was = "connected"
                      THEN hub.drops + 1 ELSE hub.drops
      <3>1. handler[k].next \in Statuses
        BY <1>14 DEF SetMetrics, TypeInv, NextInv
      <3>2. n \in Nat /\ n = IF handler[k].next # "connected" /\ handler[k].was = "connected"
                             THEN hub.drops + 1 ELSE hub.drops
        BY <1>0 DEF HubState
      <3>3. hub' = [hub EXCEPT !.gauge = handler[k].next, !.drops = n]
        BY <1>14, <1>0 DEF SetMetrics, HubState
      <3> HIDE DEF n
      <3>4. /\ hub'.status = hub.status /\ hub'.sysAvailable = hub.sysAvailable
            /\ hub'.subscriptions = hub.subscriptions /\ hub'.gauge = handler[k].next
            /\ hub'.reconnects = hub.reconnects /\ hub'.drops = n
        BY <1>0, <3>1, <3>2, <3>3, MetricsWrite
      <3>5. QED
        BY <3>2, <3>4
    <2>4. StartInv'
      <3>1. handler[k].at # "new"
        BY <1>14 DEF SetMetrics
      <3>2. QED
        BY <1>a, <2>1, <2>2, <3>1 DEF StartInv
    <2>5. ASSUME ~overlap PROVE k = changes /\ (Odd' <=> Odd)
      BY <1>14, <2>1, <2>5, <1>0 DEF SetMetrics, SerialInv, Running, Odd
    <2>6. SerialInv'
      BY <1>14, <1>0, <2>1, <2>2, <2>3, <2>5
         DEF SetMetrics, SerialInv, Latest, Agree, AtConnect, AtLost, Announced,
             Settled, SessionIs, Ahead, Subscribing, Running, HubState, Statuses
    <2>7. QED
      BY <2>4, <2>6
  <1>15. ASSUME NEW k \in Handler, PublishLog(k) PROVE SerialInv' /\ StartInv'
    <2>1. /\ changes' = changes /\ stopped' = stopped /\ overlap' = overlap
          /\ \A s : Told(s)' = Told(s)
      BY <1>15 DEF PublishLog, Told, LastAlert
    <2>2. /\ handler'[k].at \in {"done", "alert"}
          /\ handler'[k].at = "done" <=> handler[k].prev = handler[k].next
          /\ handler'[k].next = handler[k].next
          /\ handler'[k].prev = handler[k].prev
          /\ \A j \in Handler \ {k} : handler'[j] = handler[j]
      <3>1. CASE handler[k].prev = handler[k].next
        <4>1. Go(k, "done")
          BY <1>15, <3>1 DEF PublishLog
        <4>2. QED
          BY <1>0, <3>1, <4>1, GoWrites DEF Point
      <3>2. CASE handler[k].prev # handler[k].next
        <4>1. Go(k, "alert")
          BY <1>15, <3>2 DEF PublishLog
        <4>2. QED
          BY <1>0, <3>2, <4>1, GoWrites DEF Point
      <3>3. QED
        BY <3>1, <3>2
    <2>3. hub' = hub
      BY <1>15 DEF PublishLog
    <2>4. StartInv'
      <3>1. handler[k].at # "new"
        BY <1>15 DEF PublishLog
      <3>2. QED
        BY <1>a, <2>1, <2>2, <3>1 DEF StartInv
    <2>5. ASSUME ~overlap PROVE k = changes /\ (Odd' <=> Odd)
      BY <1>15, <2>1, <2>5, <1>0 DEF PublishLog, SerialInv, Running, Odd
    <2>6. SerialInv'
      BY <1>15, <1>0, <2>1, <2>2, <2>3, <2>5
         DEF PublishLog, SerialInv, Latest, Agree, AtConnect, AtLost, Announced,
             Settled, SessionIs, Ahead, Subscribing, Running, HubState, Statuses
    <2>7. QED
      BY <2>4, <2>6
  <1>16. ASSUME NEW k \in Handler, Alert(k) PROVE SerialInv' /\ StartInv'
    <2>1. changes' = changes /\ stopped' = stopped /\ overlap' = overlap
          /\ Told(handler[k].next)'
      <3>1. handler[k].next \in AlertValue
        BY <1>16 DEF Alert, TypeInv, NextInv, AlertValue
      <3>2. /\ alerter.accepted \in Seq(AlertValue) /\ AlerterInv
            /\ Len(alerter.queue) <= QueueSize
        BY TypeByVariable DEF TypeInv, AlerterInv, AlerterState
      <3>3. \/ alerter'.closed \/ alerter'.full
            \/ alerter'.accepted = Append(alerter.accepted, handler[k].next)
        BY <1>16, <3>1, <3>2, EnqueueSound DEF Alert
      <3>4. CASE alerter'.accepted = Append(alerter.accepted, handler[k].next)
        <4> DEFINE a == Append(alerter.accepted, handler[k].next)
        <4>1. a # <<>> /\ Last(a) = handler[k].next
          BY <3>1, <3>2 DEF Last
        <4> HIDE DEF a
        <4>2. alerter'.accepted = a
          BY <3>4 DEF a
        <4>3. LastAlert' = handler[k].next
          BY <4>1, <4>2 DEF LastAlert
        <4>4. handler'[k].next = handler[k].next
          BY <1>16, <1>0, GoWrites DEF Alert, Point
        <4>5. QED
          BY <1>16, <4>3, <4>4 DEF Alert, Told
      <3>5. QED
        BY <1>16, <3>3, <3>4 DEF Alert, Told
    <2>2. /\ handler'[k].at = "done" /\ handler'[k].next = handler[k].next
          /\ handler'[k].prev = handler[k].prev
          /\ \A j \in Handler \ {k} : handler'[j] = handler[j]
      BY <1>16, <1>0, GoWrites DEF Alert, Point
    <2>3. hub' = hub
      BY <1>16 DEF Alert
    <2>4. StartInv'
      <3>1. handler[k].at # "new"
        BY <1>16 DEF Alert
      <3>2. QED
        BY <1>a, <2>1, <2>2, <3>1 DEF StartInv
    <2>5. ASSUME ~overlap PROVE k = changes /\ (Odd' <=> Odd)
      BY <1>16, <2>1, <2>5, <1>0 DEF Alert, SerialInv, Running, Odd
    <2>6. SerialInv'
      BY <1>16, <1>0, <2>1, <2>2, <2>3, <2>5
         DEF Alert, SerialInv, Latest, Agree, AtConnect, AtLost, Announced, Settled,
             SessionIs, Ahead, Subscribing, Running, HubState, Statuses
    <2>7. QED
      BY <2>4, <2>6
  <1>17. CASE ConnectionChanges
    <2>1. /\ ~stopped /\ stopped' = stopped /\ hub' = hub
          /\ \A s : Told(s)' = Told(s)
          /\ overlap' = (overlap \/ \E k \in Handler : Running(k))
      BY <1>17 DEF ConnectionChanges, Told, LastAlert
    <2>2. changes' = changes + 1 /\ changes' \in Handler /\ changes' # 0
      BY <1>17, <1>0, BrokerMonitorAssumption DEF ConnectionChanges, Handler
    <2>3. /\ handler'[changes'].at = "session"
          /\ \A j \in Handler \ {changes'} : handler'[j] = handler[j]
      BY <1>17, <1>0, <2>2, GoWrites DEF ConnectionChanges, Point
    <2>4. StartInv'
      BY <1>a, <2>1, <2>2, <2>3 DEF StartInv
    <2>5. Odd' <=> ~Odd
      BY <1>0, <2>2 DEF Odd, Handler
    <2>6. ASSUME ~overlap' PROVE ~overlap /\ Agree /\ \A k \in Handler : ~Running(k)
      BY <1>0, <2>1, <2>6 DEF SerialInv, Latest, Running
    <2>7. SerialInv'
      BY <1>0, <2>1, <2>2, <2>3, <2>5, <2>6
         DEF SerialInv, Latest, Agree, AtConnect, AtLost, Announced, Settled,
             SessionIs, Ahead, Subscribing, Running, HubState, Statuses
    <2>8. QED
      BY <2>4, <2>7
  <1>18. CASE MonitorFails
    <2>1. /\ changes = 0 /\ ~stopped /\ stopped'
          /\ changes' = changes /\ overlap' = overlap /\ hub' = hub
          /\ \A s : Told(s)' = Told(s)
      BY <1>18 DEF MonitorFails, Told, LastAlert
    <2>2. /\ handler'[0].at = "snapshot" /\ handler'[0].next = "disconnected"
          /\ \A j \in Handler \ {0} : handler'[j] = handler[j]
      BY <1>18, <1>0, <1>a, AnnounceWrites DEF MonitorFails, Statuses
    <2>3. handler[0].at = "new" /\ StartInv'
      BY <2>1 DEF StartInv
    <2>4. ~Odd /\ ~Odd'
      BY <2>1 DEF Odd
    <2>5. ASSUME ~overlap PROVE Agree /\ hub.status = "disconnected"
      BY <1>0, <2>1, <2>3, <2>4, <2>5
         DEF SerialInv, Latest, Agree, HubState, Statuses
    <2>6. SerialInv'
      BY <1>0, <1>a, <2>1, <2>2, <2>4, <2>5
         DEF SerialInv, Latest, Agree, AtConnect, AtLost, Announced, Settled,
             SessionIs, Ahead, Subscribing, Running, Statuses
    <2>7. QED
      BY <2>3, <2>6
  <1>19. CASE Stop
    <2>1. UNCHANGED <<changes, handler, overlap, hub, alerter>> /\ stopped'
      BY <1>19 DEF Stop
    <2>2. StartInv'
      BY <2>1 DEF StartInv
    <2>3. SerialInv'
      BY <2>1
         DEF SerialInv, Latest, Agree, AtConnect, AtLost, Announced, Settled,
             SessionIs, Ahead, Subscribing, Running, Told, LastAlert, Odd
    <2>4. QED
      BY <2>2, <2>3
  <1>20. CASE RunStep
    <2>1. UNCHANGED <<changes, stopped, handler, overlap, hub>>
      BY <1>20 DEF RunStep, ShutdownStep
    <2>2. AlerterInv /\ Len(alerter.queue) <= QueueSize
      BY TypeByVariable DEF TypeInv
    <2>3. /\ alerter'.accepted = alerter.accepted /\ alerter'.full = alerter.full
          /\ alerter.closed => alerter'.closed
      BY <1>20, <2>2, RunSound DEF RunStep, ShutdownStep
    <2>4. \A s : Told(s) => Told(s)'
      BY <2>3 DEF Told, LastAlert
    <2>5. StartInv' /\ (Odd' <=> Odd)
      BY <2>1 DEF StartInv, Odd
    <2>6. SerialInv'
      BY <2>1, <2>4, <2>5
         DEF SerialInv, Latest, Agree, AtConnect, AtLost, Announced, Settled,
             SessionIs, Ahead, Subscribing, Running
    <2>7. QED
      BY <2>5, <2>6
  <1>21. CASE ShutdownStep
    <2>1. UNCHANGED <<changes, stopped, handler, overlap, hub>>
      BY <1>21 DEF RunStep, ShutdownStep
    <2>2. AlerterInv /\ Len(alerter.queue) <= QueueSize
      BY TypeByVariable DEF TypeInv
    <2>3. /\ alerter'.accepted = alerter.accepted /\ alerter'.full = alerter.full
          /\ alerter.closed => alerter'.closed
      BY <1>21, <2>2, RunSound DEF RunStep, ShutdownStep
    <2>4. \A s : Told(s) => Told(s)'
      BY <2>3 DEF Told, LastAlert
    <2>5. StartInv' /\ (Odd' <=> Odd)
      BY <2>1 DEF StartInv, Odd
    <2>6. SerialInv'
      BY <2>1, <2>4, <2>5
         DEF SerialInv, Latest, Agree, AtConnect, AtLost, Announced, Settled,
             SessionIs, Ahead, Subscribing, Running
    <2>7. QED
      BY <2>5, <2>6
  <1>22. CASE UNCHANGED monitorVars
    BY <1>22, <1>0
       DEF monitorVars, SerialInv, Latest, Agree, AtConnect, AtLost, Announced, Settled,
           SessionIs, Ahead, Subscribing, Running, StartInv, Told, LastAlert, Odd
  <1>23. QED
    BY <1>1, <1>2, <1>3, <1>4, <1>5, <1>6, <1>7, <1>8, <1>9, <1>10, <1>11,
       <1>12, <1>13, <1>14, <1>15, <1>16, <1>17, <1>18, <1>19, <1>20, <1>21,
       <1>22 DEF MonitorNext, HandlerStep, SessionStep, Kept

-----------------------------------------------------------------------------
(* The theorems.                                                           *)

MonitorInv == TypeInv /\ SerialInv /\ StartInv

LEMMA Inductive == MonitorSpec => []MonitorInv
  <1>1. MonitorInit => MonitorInv
    BY InitType, InitSerial DEF MonitorInv
  <1>2. MonitorInv /\ [MonitorNext]_monitorVars => MonitorInv'
    BY StepType, StepSerial DEF MonitorInv
  <1>3. QED
    BY <1>1, <1>2, PTL DEF MonitorSpec

(* The handlers of the monitor keep the fields of the hub and the queue of *)
(* the alerter in their types, whatever the connection does.               *)
THEOREM MonitorTypeCorrect == MonitorSpec => []MonitorTypeOK
  <1>1. MonitorInv => MonitorTypeOK
    BY DEF MonitorInv, TypeInv
  <1>2. QED
    BY <1>1, Inductive, PTL

(* Enqueue never sends on the queue that Shutdown closed, and run() leaves *)
(* only after it handed every accepted alert to deliver, once and in order.*)
THEOREM AlertsDelivered == MonitorSpec => []AlertsSound
  <1>1. MonitorInv => AlertsSound
    <2> SUFFICES ASSUME MonitorInv PROVE AlertsSound
      OBVIOUS
    <2>1. /\ ~alerter.panicked /\ alerter.posted \in Seq(AlertValue)
          /\ alerter.accepted = (alerter.posted \o alerter.sending) \o alerter.queue
          /\ alerter.done => alerter.queue = <<>> /\ alerter.sending = <<>>
      BY DEF MonitorInv, TypeInv, AlerterInv, AlerterState
    <2>2. (alerter.posted \o <<>>) \o <<>> = alerter.posted
      BY <2>1, ConcatEmptySeq
    <2>3. QED
      BY <2>1, <2>2 DEF AlertsSound
  <1>2. QED
    BY <1>1, Inductive, PTL

(* Whenever the handlers of the connection ran one after the other, the    *)
(* status, the gauge, the session, the availability of $SYS, the reconnect *)
(* counters and the last alert agree once the last of them is done.        *)
THEOREM SerialAgreement == MonitorSpec => []SerialHandlersAgree
  <1>1. MonitorInv => SerialHandlersAgree
    <2> SUFFICES ASSUME MonitorInv, Quiet, ~overlap PROVE SerialHandlersAgree
      BY DEF SerialHandlersAgree
    <2>1. changes \in Handler
      BY TypeByVariable DEF MonitorInv, TypeInv
    <2>2. Agree
      BY <2>1 DEF MonitorInv, SerialInv, Quiet, Running, Latest
    <2>3. QED
      BY <2>2
         DEF SerialHandlersAgree, Agree, Settled, Told, SessionIs, Ahead, Odd, Up
  <1>2. QED
    BY <1>1, Inductive, PTL
===============================================================================
