--------------------------- MODULE BusScanProofs ---------------------------
(***************************************************************************)
(* Theorems about the event bus, and about the signal scanner, its largest *)
(* reader.                                                                 *)
(*                                                                         *)
(* The bus: for any consumers, topics, subscriptions and queue sizes, and  *)
(* any number of events.  Every publish() call delivers its event to some  *)
(* set R of consumers, and all that the proofs need of R is in             *)
(* PublishDelivers: its members subscribe to the topic, the event logger   *)
(* is one of them unless R is empty, and none has a full queue when the    *)
(* topic is lossless.                                                      *)
(*                                                                         *)
(* The scanner: for any markets, groups, quotes, headlines, intervals and  *)
(* limits.  All that the proofs need of a handler is in Sourced: a row is  *)
(* of a market of the index the handler has just looked at.                *)
(***************************************************************************)
EXTENDS Bus, Scan, SumProofs, SequenceTheorems

\* The event logger is the first subscriber of every topic that has one, and a
\* subscriber of all as soon as it has started.
SubsInv ==
    /\ \A t \in Topic : \A i \in DOMAIN subs[t] : t \in Interest[subs[t][i]]
    /\ \A t \in Topic : subs[t] # <<>> => subs[t][1] = Logger
    /\ Subscribed(Logger) => \A t \in Topic : subs[t] # <<>>

\* The two halves of a consumer's history, and what separates them: an event still in
\* the queue was published after every event taken out of it.
Increasing(s) == \A i, j \in DOMAIN s : i < j => s[i].id < s[j].id

OrderInv ==
    \A c \in Consumer :
        /\ Increasing(got[c])
        /\ Increasing(queue[c])
        /\ \A i \in DOMAIN got[c], j \in DOMAIN queue[c] : got[c][i].id < queue[c][j].id
        /\ \A i \in DOMAIN got[c] : got[c][i].id <= published
        /\ \A j \in DOMAIN queue[c] : queue[c][j].id <= published

IInv == TypeOK /\ SubsInv /\ OrderInv /\ LosslessKept /\ DropsAccountForLosses

----------------------------------------------------------------------------

\* FirstFull() finds the first full queue if there is one.
LEMMA FirstFullSpec ==
    ASSUME TypeOK, NEW t \in Topic
    PROVE  /\ FirstFull(t) = 0 => \A i \in DOMAIN subs[t] : ~Full(subs[t][i])
           /\ FirstFull(t) # 0 => /\ FirstFull(t) \in DOMAIN subs[t]
                                  /\ \A i \in 1 .. FirstFull(t) - 1 : ~Full(subs[t][i])
<1> DEFINE blocked == {i \in DOMAIN subs[t] : Full(subs[t][i])}
           least == CHOOSE i \in blocked : \A j \in blocked : i <= j
<1>1. subs[t] \in Seq(Consumer)
    BY DEF TypeOK
<1>2. DOMAIN subs[t] = 1 .. Len(subs[t]) /\ Len(subs[t]) \in Nat
    BY <1>1
<1>3. FirstFull(t) = IF blocked = {} THEN 0 ELSE least
    BY DEF FirstFull
<1>4. CASE blocked = {}
    <2>1. \A i \in DOMAIN subs[t] : ~Full(subs[t][i])
        BY <1>4
    <2> QED BY <1>3, <1>4, <2>1
<1>5. CASE blocked # {}
    <2>1. \E i \in blocked : \A j \in blocked : i <= j
        <3>1. blocked \in SUBSET Nat
            BY <1>2
        <3> HIDE DEF blocked
        <3> QED BY <1>5, <3>1, LeastNatural
    <2>2. least \in blocked /\ \A j \in blocked : least <= j
        BY <2>1
    <2>3. least \in DOMAIN subs[t]
        BY <2>2
    <2> HIDE DEF least
    <2>4. ASSUME NEW i \in 1 .. least - 1 PROVE ~Full(subs[t][i])
        <3>1. i \in DOMAIN subs[t] /\ ~(least <= i)
            BY <1>2, <2>3
        <3>2. i \notin blocked
            BY <2>2, <3>1
        <3> QED BY <3>1, <3>2
    <2> QED BY <1>2, <1>3, <1>5, <2>3, <2>4
<1>6. QED BY <1>4, <1>5

\* The bound of a queue is positive.
LEMMA BoundPositive == \A c \in Consumer : Bound(c) \in Nat \ {0}
    BY BusAssumption DEF BusAssumption, Bound

\* The first n subscribers of a topic: subscribed to it, and with the event logger among
\* them.
LEMMA SubscribersSpec ==
    ASSUME TypeOK, SubsInv, NEW t \in Topic, NEW n \in 0 .. Len(subs[t])
    PROVE  /\ Subscribers(t, n) \subseteq Consumer
           /\ \A c \in Subscribers(t, n) : t \in Interest[c]
           /\ Subscribers(t, n) # {} => Logger \in Subscribers(t, n)
<1>1. subs[t] \in Seq(Consumer)
    BY DEF TypeOK
<1>2. DOMAIN subs[t] = 1 .. Len(subs[t]) /\ Len(subs[t]) \in Nat
    BY <1>1
<1>3. Subscribers(t, n) \subseteq Consumer /\ \A c \in Subscribers(t, n) : t \in Interest[c]
    BY <1>1, <1>2 DEF Subscribers, SubsInv
<1>4. ASSUME Subscribers(t, n) # {} PROVE Logger \in Subscribers(t, n)
    <2>1. 1 \in 1 .. n
        BY <1>4 DEF Subscribers
    <2>2. subs[t] # <<>>
        BY <1>2, <2>1
    <2> QED BY <2>1, <2>2 DEF SubsInv, Subscribers
<1>5. QED BY <1>3, <1>4

\* No full queue, no drop.
LEMMA NoneFull ==
    ASSUME TypeOK, NEW t \in Topic, NEW R, \A c \in R : ~Full(c)
    PROVE  drops = [drops EXCEPT ![t] = @ + Cardinality({c \in R : Full(c)})]
<1>1. {c \in R : Full(c)} = {}
    OBVIOUS
<1>2. Cardinality({c \in R : Full(c)}) = 0
    BY <1>1, FS_EmptySet
<1>3. drops \in [Topic -> Nat]
    BY DEF TypeOK
<1>4. drops[t] + 0 = drops[t]
    BY <1>3
<1>5. QED BY <1>2, <1>3, <1>4

\* What a publish() call delivers, and to whom, and how it counts the drops.
LEMMA PublishDelivers ==
    ASSUME TypeOK, SubsInv, NEW t \in Topic,
           PublishLossy(t) \/ PublishLossless(t) \/ PublishRaises(t)
    PROVE  \E R \in SUBSET Consumer :
               /\ Deliver(t, R)
               /\ \A c \in R : t \in Interest[c]
               /\ R # {} => Logger \in R
               /\ t \in Lossless => \A c \in R : ~Full(c)
               /\ drops' = [drops EXCEPT ![t] = @ + Cardinality({c \in R : Full(c)})]
<1>1. Len(subs[t]) \in Nat /\ DOMAIN subs[t] = 1 .. Len(subs[t])
    BY DEF TypeOK
<1>2. CASE PublishLossy(t)
    <2> DEFINE R == Subscribers(t, Len(subs[t]))
    <2>1. /\ R \subseteq Consumer
          /\ \A c \in R : t \in Interest[c]
          /\ R # {} => Logger \in R
        BY <1>1, SubscribersSpec
    <2>2. Deliver(t, R) /\ t \notin Lossless
        BY <1>2 DEF PublishLossy
    <2>3. drops' = [drops EXCEPT ![t] = @ + Cardinality({c \in R : Full(c)})]
        BY <1>2 DEF PublishLossy
    <2> HIDE DEF R
    <2>4. QED BY <2>1, <2>2, <2>3
<1>3. CASE PublishLossless(t)
    <2> DEFINE R == Subscribers(t, Len(subs[t]))
    <2>1. /\ R \subseteq Consumer
          /\ \A c \in R : t \in Interest[c]
          /\ R # {} => Logger \in R
        BY <1>1, SubscribersSpec
    <2>2. \A c \in R : ~Full(c)
        BY <1>1, <1>3, FirstFullSpec DEF PublishLossless, Subscribers
    <2>3. Deliver(t, R) /\ drops' = drops
        BY <1>3 DEF PublishLossless
    <2> HIDE DEF R
    <2>4. QED BY <1>1, <2>1, <2>2, <2>3, NoneFull
<1>4. CASE PublishRaises(t)
    <2> DEFINE n == FirstFull(t) - 1
               R == Subscribers(t, n)
    <2>1. n \in 0 .. Len(subs[t])
        BY <1>1, <1>4, FirstFullSpec DEF PublishRaises
    <2>2. /\ R \subseteq Consumer
          /\ \A c \in R : t \in Interest[c]
          /\ R # {} => Logger \in R
        BY <2>1, SubscribersSpec
    <2>3. \A c \in R : ~Full(c)
        BY <1>4, FirstFullSpec DEF PublishRaises, Subscribers
    <2>4. Deliver(t, R) /\ drops' = drops
        BY <1>4 DEF PublishRaises
    <2> HIDE DEF R
    <2>5. QED BY <2>2, <2>3, <2>4, NoneFull
<1>5. QED BY <1>2, <1>3, <1>4

\* The event a publish() call of topic t makes.
NewEvent(t) == [topic |-> t, id |-> published + 1]

\* It is an event.
LEMMA NewEventType == ASSUME TypeOK, NEW t \in Topic PROVE NewEvent(t) \in Event
    BY DEF TypeOK, Event, NewEvent

\* A queue that the call does not reach stays as it is.
LEMMA NotReached ==
    ASSUME NEW t \in Topic, NEW R \in SUBSET Consumer, Deliver(t, R),
           NEW c \in Consumer, c \notin R
    PROVE  queue'[c] = queue[c] /\ accepted'[c] = accepted[c] + 0 /\ evicted'[c] = evicted[c]
    BY DEF Deliver, Put

\* A queue with room gets the event at its end.
LEMMA ReachedWithRoom ==
    ASSUME TypeOK, NEW t \in Topic, NEW R \in SUBSET Consumer, Deliver(t, R),
           NEW c \in R, ~Full(c)
    PROVE  /\ queue'[c] \in Seq(Event)
           /\ Len(queue'[c]) = Len(queue[c]) + 1
           /\ \A i \in DOMAIN queue[c] : queue'[c][i] = queue[c][i]
           /\ queue'[c][Len(queue[c]) + 1] = NewEvent(t)
           /\ accepted'[c] = accepted[c] + 1
           /\ evicted'[c] = evicted[c]
<1>1. c \in Consumer /\ queue[c] \in Seq(Event) /\ NewEvent(t) \in Event
    BY NewEventType DEF TypeOK
<1>2. queue'[c] = Append(queue[c], NewEvent(t))
    BY DEF Deliver, Put, NewEvent
<1>3. accepted'[c] = accepted[c] + 1 /\ evicted'[c] = evicted[c]
    BY DEF Deliver
<1> HIDE DEF NewEvent
<1>4. QED BY <1>1, <1>2, <1>3, AppendProperties

\* A full queue loses its oldest event, then gets the new one.
LEMMA ReachedWhenFull ==
    ASSUME TypeOK, NEW t \in Topic, NEW R \in SUBSET Consumer, Deliver(t, R),
           NEW c \in R, Full(c)
    PROVE  /\ queue'[c] \in Seq(Event)
           /\ Len(queue[c]) \in Nat \ {0}
           /\ Len(queue'[c]) = Len(queue[c])
           /\ \A i \in 1 .. Len(queue[c]) - 1 : queue'[c][i] = queue[c][i + 1]
           /\ queue'[c][Len(queue[c])] = NewEvent(t)
           /\ accepted'[c] = accepted[c] + 1
           /\ evicted'[c] = evicted[c] \cup {queue[c][1]}
<1>1. c \in Consumer /\ queue[c] \in Seq(Event) /\ NewEvent(t) \in Event
    BY NewEventType DEF TypeOK
<1>2. Len(queue[c]) \in Nat \ {0}
    BY <1>1, BoundPositive DEF Full
<1>3. queue'[c] = Append(Tail(queue[c]), NewEvent(t))
    BY DEF Deliver, Put, NewEvent
<1>4. accepted'[c] = accepted[c] + 1 /\ evicted'[c] = evicted[c] \cup {queue[c][1]}
    BY DEF Deliver
<1>5. /\ Tail(queue[c]) \in Seq(Event)
      /\ Len(Tail(queue[c])) = Len(queue[c]) - 1
      /\ \A i \in 1 .. Len(queue[c]) - 1 : Tail(queue[c])[i] = queue[c][i + 1]
    BY <1>1, <1>2, HeadTailProperties
<1>6. QED BY <1>1, <1>2, <1>3, <1>4, <1>5, AppendProperties

\* Taking an event moves it from the head of the queue to the end of what was taken.
LEMMA ConsumeMoves ==
    ASSUME TypeOK, NEW c \in Consumer, Consume(c)
    PROVE  /\ Len(queue[c]) \in Nat \ {0}
           /\ queue'[c] \in Seq(Event)
           /\ Len(queue'[c]) = Len(queue[c]) - 1
           /\ \A i \in 1 .. Len(queue[c]) - 1 : queue'[c][i] = queue[c][i + 1]
           /\ got'[c] \in Seq(Event)
           /\ Len(got'[c]) = Len(got[c]) + 1
           /\ \A i \in DOMAIN got[c] : got'[c][i] = got[c][i]
           /\ got'[c][Len(got[c]) + 1] = queue[c][1]
           /\ \A d \in Consumer \ {c} : queue'[d] = queue[d] /\ got'[d] = got[d]
<1>1. queue[c] \in Seq(Event) /\ queue[c] # <<>> /\ got[c] \in Seq(Event)
    BY DEF TypeOK, Consume
<1>2. got'[c] = Append(got[c], Head(queue[c])) /\ queue'[c] = Tail(queue[c])
    BY DEF TypeOK, Consume
<1>3. \A d \in Consumer \ {c} : queue'[d] = queue[d] /\ got'[d] = got[d]
    BY DEF TypeOK, Consume
<1>4. QED BY <1>1, <1>2, <1>3
----------------------------------------------------------------------------

\* The full queues can be counted.
LEMMA FullIsFinite ==
    ASSUME NEW R \in SUBSET Consumer
    PROVE  Cardinality({c \in R : Full(c)}) \in Nat
<1>1. {c \in R : Full(c)} \in SUBSET Consumer
    OBVIOUS
<1>2. QED BY <1>1, BusAssumption, FS_Subset, FS_CardinalityType DEF BusAssumption

\* A publish() call keeps the shape of the state, the bounds of the queues included.
LEMMA TypePublish ==
    ASSUME TypeOK, NEW t \in Topic, NEW R \in SUBSET Consumer, Deliver(t, R),
           drops' = [drops EXCEPT ![t] = @ + Cardinality({c \in R : Full(c)})]
    PROVE  TypeOK'
<1>1. \A c \in Consumer : queue'[c] \in Seq(Event) /\ Len(queue'[c]) <= Bound(c)
    <2> SUFFICES ASSUME NEW c \in Consumer
                 PROVE  queue'[c] \in Seq(Event) /\ Len(queue'[c]) <= Bound(c)
        OBVIOUS
    <2>1. /\ Len(queue[c]) \in Nat /\ Len(queue[c]) <= Bound(c) /\ Bound(c) \in Nat
          /\ queue[c] \in Seq(Event)
        BY BoundPositive DEF TypeOK, QueueBounded
    <2>2. CASE c \notin R
        BY <2>1, <2>2, NotReached
    <2>3. CASE c \in R /\ Full(c)
        BY <2>1, <2>3, ReachedWhenFull
    <2>4. CASE c \in R /\ ~Full(c)
        BY <2>1, <2>4, ReachedWithRoom DEF Full
    <2>5. QED BY <2>2, <2>3, <2>4
<1>2. queue' \in [Consumer -> Seq(Event)] /\ QueueBounded'
    <2>1. queue' = [c \in Consumer |-> queue'[c]]
        BY DEF Deliver, Put
    <2>2. \A c \in Consumer : Bound(c)' = Bound(c)
        BY DEF Bound
    <2>3. QED BY <1>1, <2>1, <2>2 DEF QueueBounded
<1>3. accepted' \in [Consumer -> Nat]
    BY DEF TypeOK, Deliver
<1>4. evicted' \in [Consumer -> SUBSET Event]
    <2>1. \A c \in Consumer : evicted'[c] \in SUBSET Event
        <3> SUFFICES ASSUME NEW c \in Consumer PROVE evicted'[c] \in SUBSET Event
            OBVIOUS
        <3>1. evicted[c] \in SUBSET Event /\ queue[c] \in Seq(Event)
            BY DEF TypeOK
        <3>2. CASE c \in R /\ Full(c)
            <4>1. queue[c][1] \in Event
                BY <3>1, <3>2, ReachedWhenFull, ElementOfSeq
            <4>2. evicted'[c] = evicted[c] \cup {queue[c][1]}
                BY <3>2, ReachedWhenFull
            <4>3. QED BY <3>1, <4>1, <4>2
        <3>3. CASE c \in R /\ ~Full(c)
            BY <3>1, <3>3, ReachedWithRoom
        <3>4. CASE c \notin R
            BY <3>1, <3>4, NotReached
        <3>5. QED BY <3>2, <3>3, <3>4
    <2>2. evicted' = [c \in Consumer |-> evicted'[c]]
        BY DEF Deliver
    <2>3. QED BY <2>1, <2>2
<1>5. published' \in Nat /\ subs' = subs /\ got' = got
    BY DEF TypeOK, Deliver
<1>6. drops' \in [Topic -> Nat]
    <2>1. Cardinality({c \in R : Full(c)}) \in Nat
        BY FullIsFinite
    <2>2. QED BY <2>1 DEF TypeOK
<1>7. QED BY <1>2, <1>3, <1>4, <1>5, <1>6 DEF TypeOK

\* Every step keeps the shape of the state.
LEMMA TypeStep == TypeOK /\ SubsInv /\ [Next]_vars => TypeOK'
<1> SUFFICES ASSUME TypeOK, SubsInv, [Next]_vars PROVE TypeOK'
    OBVIOUS
<1>1. ASSUME NEW c \in Consumer, Subscribe(c) PROVE TypeOK'
    <2>1. subs' \in [Topic -> Seq(Consumer)]
        BY <1>1 DEF TypeOK, Subscribe
    <2>2. QED BY <1>1, <2>1 DEF TypeOK, Subscribe, QueueBounded, Bound
<1>2. ASSUME NEW c \in Consumer, Consume(c) PROVE TypeOK'
    <2>1. queue' = [queue EXCEPT ![c] = queue'[c]] /\ got' = [got EXCEPT ![c] = got'[c]]
        BY <1>2 DEF TypeOK, Consume
    <2>2. queue' \in [Consumer -> Seq(Event)] /\ got' \in [Consumer -> Seq(Event)]
        BY <1>2, <2>1, ConsumeMoves DEF TypeOK
    <2>3. \A d \in Consumer : Len(queue'[d]) <= Bound(d)
        <3> SUFFICES ASSUME NEW d \in Consumer PROVE Len(queue'[d]) <= Bound(d)
            OBVIOUS
        <3>1. Len(queue[d]) <= Bound(d) /\ Bound(d) \in Nat
            BY BoundPositive DEF TypeOK, QueueBounded
        <3>2. QED BY <1>2, <3>1, ConsumeMoves
    <2>4. QueueBounded'
        BY <2>3 DEF QueueBounded, Bound
    <2>5. QED BY <1>2, <2>2, <2>4 DEF TypeOK, Consume
<1>3. ASSUME NEW t \in Topic, PublishLossy(t) \/ PublishLossless(t) \/ PublishRaises(t)
      PROVE  TypeOK'
    BY <1>3, PublishDelivers, TypePublish
<1>4. CASE UNCHANGED vars
    BY <1>4 DEF TypeOK, vars, QueueBounded, Bound
<1>5. QED BY <1>1, <1>2, <1>3, <1>4 DEF Next

\* Subscriptions are only ever added, the event logger's first.
LEMMA SubsStep == TypeOK /\ SubsInv /\ [Next]_vars => SubsInv'
<1> SUFFICES ASSUME TypeOK, SubsInv, [Next]_vars PROVE SubsInv'
    OBVIOUS
<1>1. CASE subs' = subs
    BY <1>1 DEF SubsInv, Subscribed
<1>2. ASSUME NEW c \in Consumer, Subscribe(c) PROVE SubsInv'
    <2> DEFINE joins(t) == t \in Interest[c]
    <2>1. \A t \in Topic :
            /\ subs[t] \in Seq(Consumer)
            /\ joins(t) => /\ subs'[t] \in Seq(Consumer)
                           /\ DOMAIN subs'[t] = DOMAIN subs[t] \cup {Len(subs[t]) + 1}
                           /\ \A i \in DOMAIN subs[t] : subs'[t][i] = subs[t][i]
                           /\ subs'[t][Len(subs[t]) + 1] = c
            /\ ~joins(t) => subs'[t] = subs[t]
        <3> SUFFICES ASSUME NEW t \in Topic
                     PROVE  /\ subs[t] \in Seq(Consumer)
                            /\ joins(t) => /\ subs'[t] \in Seq(Consumer)
                                           /\ DOMAIN subs'[t] = DOMAIN subs[t] \cup {Len(subs[t]) + 1}
                                           /\ \A i \in DOMAIN subs[t] : subs'[t][i] = subs[t][i]
                                           /\ subs'[t][Len(subs[t]) + 1] = c
                            /\ ~joins(t) => subs'[t] = subs[t]
            OBVIOUS
        <3>1. subs[t] \in Seq(Consumer) /\ Len(subs[t]) \in Nat /\ DOMAIN subs[t] = 1 .. Len(subs[t])
            BY DEF TypeOK
        <3>2. subs'[t] = IF joins(t) THEN Append(subs[t], c) ELSE subs[t]
            BY <1>2 DEF Subscribe
        <3>3. QED BY <3>1, <3>2, AppendProperties, LenProperties
    <2> HIDE DEF joins
    <2>2. \A t \in Topic : \A i \in DOMAIN subs'[t] : t \in Interest[subs'[t][i]]
        BY <2>1 DEF SubsInv, joins
    <2>3. \A t \in Topic : subs[t] # <<>> => 1 \in DOMAIN subs[t]
        BY <2>1
    <2>4. CASE c = Logger
        <3>1. \A t \in Topic : joins(t)
            BY <2>4, BusAssumption DEF BusAssumption, joins
        <3>2. \A t \in Topic : subs[t] = <<>>
            BY <1>2, <2>3, <2>4 DEF Subscribe, Subscribed, SubsInv
        <3>3. \A t \in Topic : subs'[t] # <<>> /\ subs'[t][1] = Logger
            BY <2>1, <2>4, <3>1, <3>2, LenProperties, EmptySeq
        <3>4. QED BY <2>2, <3>3 DEF SubsInv
    <2>5. CASE c # Logger
        <3>1. Subscribed(Logger)
            BY <1>2, <2>5 DEF Subscribe
        <3>2. \A t \in Topic : subs[t] # <<>> /\ subs[t][1] = Logger /\ 1 \in DOMAIN subs[t]
            BY <2>3, <3>1 DEF SubsInv
        <3>3. \A t \in Topic : subs'[t] # <<>> /\ subs'[t][1] = Logger
            <4> SUFFICES ASSUME NEW t \in Topic PROVE subs'[t] # <<>> /\ subs'[t][1] = Logger
                OBVIOUS
            <4>1. 1 \in DOMAIN subs'[t] /\ subs'[t][1] = Logger
                BY <2>1, <3>2
            <4>2. QED BY <4>1
        <3>4. QED BY <2>2, <3>3 DEF SubsInv
    <2>6. QED BY <2>4, <2>5
<1>3. QED BY <1>1, <1>2 DEF Next, vars, Consume, PublishLossy, PublishLossless, PublishRaises, Deliver
\* The histories stay in publish order: what is appended is the newest event of all,
\* and eviction and consumption take the oldest of the queue.
LEMMA OrderStep == TypeOK /\ TypeOK' /\ SubsInv /\ OrderInv /\ [Next]_vars => OrderInv'
<1> SUFFICES ASSUME TypeOK, TypeOK', SubsInv, OrderInv, [Next]_vars PROVE OrderInv'
    OBVIOUS
<1> DEFINE Ordered(g, q, n) ==
        /\ \A i, j \in DOMAIN g : i < j => g[i].id < g[j].id
        /\ \A i, j \in DOMAIN q : i < j => q[i].id < q[j].id
        /\ \A i \in DOMAIN g, j \in DOMAIN q : g[i].id < q[j].id
        /\ \A i \in DOMAIN g : g[i].id <= n
        /\ \A j \in DOMAIN q : q[j].id <= n
<1>1. SUFFICES ASSUME NEW c \in Consumer PROVE Ordered(got'[c], queue'[c], published')
    BY DEF OrderInv, Increasing
<1>2. got[c] \in Seq(Event) /\ queue[c] \in Seq(Event) /\ published \in Nat
    BY DEF TypeOK
<1>3. Ordered(got[c], queue[c], published)
    BY DEF OrderInv, Increasing
<1>4. /\ Len(queue[c]) \in Nat /\ DOMAIN queue[c] = 1 .. Len(queue[c])
      /\ Len(got[c]) \in Nat /\ DOMAIN got[c] = 1 .. Len(got[c])
    BY <1>2
<1>5. /\ \A i \in DOMAIN queue[c] : queue[c][i].id \in Nat
      /\ \A i \in DOMAIN got[c] : got[c][i].id \in Nat
    <2>1. \A e \in Event : e.id \in Nat
        BY DEF Event
    <2>2. QED BY <1>2, <2>1
<1>6. CASE queue' = queue /\ got' = got /\ published' = published
    BY <1>3, <1>6
<1>7. ASSUME NEW d \in Consumer, Consume(d) PROVE Ordered(got'[c], queue'[c], published')
    <2>1. published' = published
        BY <1>7 DEF Consume
    <2>2. CASE c # d
        BY <1>3, <1>7, <2>1, <2>2, ConsumeMoves
    <2>3. CASE c = d
        <3>1. /\ DOMAIN queue'[c] = 1 .. Len(queue[c]) - 1
              /\ DOMAIN got'[c] = 1 .. Len(got[c]) + 1
              /\ 1 \in DOMAIN queue[c]
            BY <1>4, <1>7, <2>3, ConsumeMoves, LenProperties
        <3>2. \A i \in DOMAIN queue'[c] : i + 1 \in DOMAIN queue[c] /\ queue'[c][i] = queue[c][i + 1]
            BY <1>4, <1>7, <2>3, <3>1, ConsumeMoves
        <3>3. \A i \in DOMAIN got'[c] : \/ i \in DOMAIN got[c] /\ got'[c][i] = got[c][i]
                                        \/ i = Len(got[c]) + 1 /\ got'[c][i] = queue[c][1]
            BY <1>4, <1>7, <2>3, <3>1, ConsumeMoves
        <3>4. ASSUME NEW i \in DOMAIN queue'[c], NEW j \in DOMAIN queue'[c], i < j
              PROVE  queue'[c][i].id < queue'[c][j].id
            <4>1. i + 1 < j + 1 /\ i + 1 \in DOMAIN queue[c] /\ j + 1 \in DOMAIN queue[c]
                BY <1>4, <3>1, <3>2, <3>4
            <4>2. QED BY <1>3, <3>2, <4>1
        <3>5. ASSUME NEW i \in DOMAIN got'[c], NEW j \in DOMAIN got'[c], i < j
              PROVE  got'[c][i].id < got'[c][j].id
            <4>1. i \in DOMAIN got[c] /\ got'[c][i] = got[c][i]
                BY <1>4, <3>1, <3>3, <3>5
            <4>2. QED BY <1>3, <3>1, <3>3, <3>5, <4>1
        <3>6. ASSUME NEW i \in DOMAIN got'[c], NEW j \in DOMAIN queue'[c]
              PROVE  got'[c][i].id < queue'[c][j].id
            <4>1. j + 1 \in DOMAIN queue[c] /\ queue'[c][j] = queue[c][j + 1] /\ 1 < j + 1
                BY <1>4, <3>1, <3>2
            <4>2. QED BY <1>3, <3>1, <3>3, <4>1
        <3>7. \A i \in DOMAIN got'[c] : got'[c][i].id <= published
            BY <1>3, <3>1, <3>3
        <3>8. \A j \in DOMAIN queue'[c] : queue'[c][j].id <= published
            BY <1>3, <3>2
        <3>9. QED BY <2>1, <3>4, <3>5, <3>6, <3>7, <3>8
    <2>4. QED BY <2>2, <2>3
<1>8. ASSUME NEW t \in Topic, PublishLossy(t) \/ PublishLossless(t) \/ PublishRaises(t)
      PROVE  Ordered(got'[c], queue'[c], published')
    <2>1. PICK R \in SUBSET Consumer : Deliver(t, R)
        BY <1>8, PublishDelivers
    <2>2. published' = published + 1 /\ got' = got /\ NewEvent(t).id = published + 1
        BY <2>1 DEF Deliver, NewEvent
    <2>3. CASE c \notin R
        <3>1. queue'[c] = queue[c]
            BY <2>1, <2>3, NotReached
        <3>2. QED BY <1>2, <1>3, <1>5, <2>2, <3>1
    <2>4. CASE c \in R
        <3>1. PICK k \in {0, 1} : \* the number of events evicted
                 \A i \in DOMAIN queue'[c] :
                    \/ i + k \in DOMAIN queue[c] /\ queue'[c][i] = queue[c][i + k]
                    \/ i = Len(queue'[c]) /\ queue'[c][i] = NewEvent(t)
            <4>1. CASE Full(c)
                <5>1. DOMAIN queue'[c] = 1 .. Len(queue[c])
                    BY <2>1, <2>4, <4>1, ReachedWhenFull, LenProperties
                <5>2. Len(queue'[c]) = Len(queue[c])
                    BY <2>1, <2>4, <4>1, ReachedWhenFull
                <5>3. \A i \in 1 .. Len(queue[c]) - 1 :
                        i + 1 \in DOMAIN queue[c] /\ queue'[c][i] = queue[c][i + 1]
                    BY <1>4, <2>1, <2>4, <4>1, ReachedWhenFull
                <5>4. queue'[c][Len(queue[c])] = NewEvent(t)
                    BY <2>1, <2>4, <4>1, ReachedWhenFull
                <5>5. \A i \in 1 .. Len(queue[c]) : i \in 1 .. Len(queue[c]) - 1 \/ i = Len(queue[c])
                    BY <1>4
                <5>6. QED BY <5>1, <5>2, <5>3, <5>4, <5>5
            <4>2. CASE ~Full(c)
                <5>1. DOMAIN queue'[c] = 1 .. Len(queue[c]) + 1
                    BY <2>1, <2>4, <4>2, ReachedWithRoom, LenProperties
                <5>2. /\ \A i \in DOMAIN queue[c] : queue'[c][i] = queue[c][i]
                      /\ Len(queue'[c]) = Len(queue[c]) + 1
                      /\ queue'[c][Len(queue[c]) + 1] = NewEvent(t)
                    BY <2>1, <2>4, <4>2, ReachedWithRoom
                <5>3. \A i \in DOMAIN queue[c] : i + 0 = i
                    BY <1>4
                <5>4. QED BY <1>4, <5>1, <5>2, <5>3
            <4>3. QED BY <4>1, <4>2
        <3>2. Len(queue'[c]) \in Nat /\ DOMAIN queue'[c] = 1 .. Len(queue'[c])
            BY DEF TypeOK
        <3>3. ASSUME NEW i \in DOMAIN queue'[c], NEW j \in DOMAIN queue'[c], i < j
              PROVE  queue'[c][i].id < queue'[c][j].id
            <4>1. i + k \in DOMAIN queue[c] /\ queue'[c][i] = queue[c][i + k]
                BY <3>1, <3>2, <3>3
            <4>2. CASE j + k \in DOMAIN queue[c] /\ queue'[c][j] = queue[c][j + k]
                <5>1. i + k < j + k
                    BY <3>2, <3>3
                <5>2. QED BY <1>3, <4>1, <4>2, <5>1
            <4>3. CASE queue'[c][j] = NewEvent(t)
                <5>1. queue[c][i + k].id <= published /\ queue[c][i + k].id \in Nat
                    BY <1>3, <1>5, <4>1
                <5>2. QED BY <1>2, <2>2, <4>1, <4>3, <5>1
            <4>4. QED BY <3>1, <4>2, <4>3
        <3>4. ASSUME NEW j \in DOMAIN queue'[c]
              PROVE  /\ queue'[c][j].id <= published + 1
                     /\ \A i \in DOMAIN got[c] : got[c][i].id < queue'[c][j].id
            <4>1. CASE j + k \in DOMAIN queue[c] /\ queue'[c][j] = queue[c][j + k]
                <5>1. queue[c][j + k].id <= published /\ queue[c][j + k].id \in Nat
                    BY <1>3, <1>5, <4>1
                <5>2. QED BY <1>2, <1>3, <4>1, <5>1
            <4>2. CASE queue'[c][j] = NewEvent(t)
                BY <1>2, <1>3, <1>5, <2>2, <4>2
            <4>3. QED BY <3>1, <4>1, <4>2
        <3>5. \A i \in DOMAIN got[c] : got[c][i].id <= published + 1
            BY <1>2, <1>3, <1>5
        <3>6. QED BY <1>3, <2>2, <3>3, <3>4, <3>5
    <2>5. QED BY <2>3, <2>4
<1> HIDE DEF Ordered
<1>9. QED BY <1>6, <1>7, <1>8 DEF Next, vars, Subscribe

\* A queue of lossless topics only keeps everything: no call that reaches it evicts.
LEMMA LosslessStep ==
    TypeOK /\ SubsInv /\ LosslessQueueKeepsAll /\ [Next]_vars => LosslessQueueKeepsAll'
<1> SUFFICES ASSUME TypeOK, SubsInv, LosslessQueueKeepsAll, [Next]_vars,
                    NEW c \in Consumer, PureLossless(c)
             PROVE  evicted'[c] = {} /\ accepted'[c] = Len(got'[c]) + Len(queue'[c])
    BY DEF LosslessQueueKeepsAll, PureLossless
<1>1. evicted[c] = {} /\ accepted[c] = Len(got[c]) + Len(queue[c])
    BY DEF LosslessQueueKeepsAll
<1>0. Len(got[c]) \in Nat /\ Len(queue[c]) \in Nat
    BY DEF TypeOK
<1>2. CASE queue' = queue /\ got' = got /\ accepted' = accepted /\ evicted' = evicted
    BY <1>1, <1>2
<1>3. ASSUME NEW d \in Consumer, Consume(d)
      PROVE  evicted'[c] = {} /\ accepted'[c] = Len(got'[c]) + Len(queue'[c])
    <2>1. accepted' = accepted /\ evicted' = evicted
        BY <1>3 DEF Consume
    <2>2. CASE c = d
        <3>1. Len(queue'[c]) = Len(queue[c]) - 1 /\ Len(got'[c]) = Len(got[c]) + 1
            BY <1>3, <2>2, ConsumeMoves
        <3>2. \A m, n \in Nat : (m + 1) + (n - 1) = m + n
            OBVIOUS
        <3>3. Len(got'[c]) + Len(queue'[c]) = Len(got[c]) + Len(queue[c])
            BY <1>0, <3>1, <3>2, Zenon
        <3>4. QED BY <1>1, <2>1, <3>3
    <2>3. CASE c # d
        <3>1. queue'[c] = queue[c] /\ got'[c] = got[c]
            BY <1>3, <2>3, ConsumeMoves
        <3>2. QED BY <1>1, <2>1, <3>1
    <2>4. QED BY <2>2, <2>3
<1>4. ASSUME NEW t \in Topic, PublishLossy(t) \/ PublishLossless(t) \/ PublishRaises(t)
      PROVE  evicted'[c] = {} /\ accepted'[c] = Len(got'[c]) + Len(queue'[c])
    <2>1. PICK R \in SUBSET Consumer :
             /\ Deliver(t, R)
             /\ \A d \in R : t \in Interest[d]
             /\ t \in Lossless => \A d \in R : ~Full(d)
        BY <1>4, PublishDelivers
    <2>2. got' = got
        BY <2>1 DEF Deliver
    <2>3. CASE c \in R
        <3>1. ~Full(c)
            BY <2>1, <2>3 DEF PureLossless
        <3>2. /\ Len(queue'[c]) = Len(queue[c]) + 1
              /\ accepted'[c] = accepted[c] + 1
              /\ evicted'[c] = evicted[c]
            BY <2>1, <2>3, <3>1, ReachedWithRoom
        <3>3. \A m, n \in Nat : (m + n) + 1 = m + (n + 1)
            OBVIOUS
        <3>4. accepted[c] + 1 = Len(got[c]) + (Len(queue[c]) + 1)
            BY <1>0, <1>1, <3>3, Zenon
        <3>5. QED BY <1>1, <2>2, <3>2, <3>4
    <2>4. CASE c \notin R
        <3>1. queue'[c] = queue[c] /\ accepted'[c] = accepted[c] + 0 /\ evicted'[c] = evicted[c]
            BY <2>1, <2>4, NotReached
        <3>2. \A m, n \in Nat : (m + n) + 0 = m + n
            OBVIOUS
        <3>3. accepted[c] + 0 = Len(got[c]) + Len(queue[c])
            BY <1>0, <1>1, <3>2, Zenon
        <3>4. QED BY <1>1, <2>2, <3>1, <3>3
    <2>5. QED BY <2>3, <2>4
<1>5. QED BY <1>2, <1>3, <1>4 DEF Next, vars, Subscribe
\* What a consumer was offered: the events of its history and those evicted.
OfferedIn(g, q, lost) == Range(g) \cup Range(q) \cup lost

\* What a task has taken, what waits for it and what it lost, together.
LEMMA HistoryRange ==
    ASSUME NEW g \in Seq(Event), NEW q \in Seq(Event), NEW lost
    PROVE  Range(g \o q) \cup lost = OfferedIn(g, q, lost)
    BY RangeConcatenation DEF OfferedIn

\* A publish() call offers its event to the consumers it reaches, and to no other.
LEMMA OfferedByPublish ==
    ASSUME TypeOK, NEW t \in Topic, NEW R \in SUBSET Consumer, Deliver(t, R), NEW c \in Consumer
    PROVE  OfferedIn(got'[c], queue'[c], evicted'[c])
               = OfferedIn(got[c], queue[c], evicted[c]) \cup (IF c \in R THEN {NewEvent(t)} ELSE {})
<1>1. got' = got
    BY DEF Deliver
<1>2. /\ queue[c] \in Seq(Event) /\ Len(queue[c]) \in Nat
      /\ DOMAIN queue[c] = 1 .. Len(queue[c])
    BY DEF TypeOK
<1>3. CASE c \notin R
    BY <1>1, <1>3, NotReached DEF OfferedIn
<1>4. CASE c \in R /\ ~Full(c)
    <2>1. DOMAIN queue'[c] = DOMAIN queue[c] \cup {Len(queue[c]) + 1}
        BY <1>2, <1>4, ReachedWithRoom, LenProperties
    <2>2. Range(queue'[c]) = Range(queue[c]) \cup {NewEvent(t)}
        BY <1>2, <1>4, <2>1, ReachedWithRoom DEF Range
    <2>3. QED BY <1>1, <1>4, <2>2, ReachedWithRoom DEF OfferedIn
<1>5. CASE c \in R /\ Full(c)
    <2>1. DOMAIN queue'[c] = DOMAIN queue[c] /\ Len(queue[c]) \in DOMAIN queue[c]
        BY <1>2, <1>5, ReachedWhenFull, LenProperties
    <2>2. \A i \in DOMAIN queue[c] : i = 1 \/ (i - 1 \in 1 .. Len(queue[c]) - 1 /\ i - 1 + 1 = i)
        BY <1>2
    <2>3. Range(queue[c]) \subseteq Range(queue'[c]) \cup {queue[c][1]}
        <3>1. ASSUME NEW i \in DOMAIN queue[c], i # 1 PROVE queue[c][i] \in Range(queue'[c])
            <4>1. i - 1 \in 1 .. Len(queue[c]) - 1 /\ i - 1 + 1 = i /\ i - 1 \in DOMAIN queue'[c]
                BY <1>2, <2>1, <2>2, <3>1
            <4>2. queue'[c][i - 1] = queue[c][i]
                BY <1>5, <4>1, ReachedWhenFull
            <4>3. QED BY <4>1, <4>2 DEF Range
        <3>2. QED BY <3>1 DEF Range
    <2>4. Range(queue'[c]) \subseteq Range(queue[c]) \cup {NewEvent(t)}
        <3>1. ASSUME NEW i \in DOMAIN queue'[c]
              PROVE  queue'[c][i] \in Range(queue[c]) \cup {NewEvent(t)}
            <4>1. CASE i = Len(queue[c])
                BY <1>5, <4>1, ReachedWhenFull
            <4>2. CASE i # Len(queue[c])
                <5>1. i \in 1 .. Len(queue[c]) - 1 /\ i + 1 \in DOMAIN queue[c]
                    BY <1>2, <2>1, <4>2
                <5>2. queue'[c][i] = queue[c][i + 1]
                    BY <1>5, <5>1, ReachedWhenFull
                <5>3. QED BY <5>1, <5>2 DEF Range
            <4>3. QED BY <4>1, <4>2
        <3>2. QED BY <3>1 DEF Range
    <2>5. NewEvent(t) \in Range(queue'[c]) /\ queue[c][1] \in Range(queue[c])
        <3>1. queue'[c][Len(queue[c])] = NewEvent(t) /\ 1 \in DOMAIN queue[c]
            BY <1>2, <1>5, ReachedWhenFull
        <3>2. QED BY <2>1, <3>1 DEF Range
    <2>6. evicted'[c] = evicted[c] \cup {queue[c][1]}
        BY <1>5, ReachedWhenFull
    <2>7. QED BY <1>1, <1>5, <2>3, <2>4, <2>5, <2>6 DEF OfferedIn
<1>6. QED BY <1>3, <1>4, <1>5

\* The elements of a sequence are its head and those of its tail.
LEMMA RangeHeadTail ==
    ASSUME NEW S, NEW q \in Seq(S), q # <<>>
    PROVE  Range(q) = {Head(q)} \cup Range(Tail(q))
<1>1. Len(q) \in Nat \ {0} /\ DOMAIN q = 1 .. Len(q) /\ Head(q) = q[1]
    BY EmptySeq
<1>2. /\ DOMAIN Tail(q) = 1 .. Len(q) - 1
      /\ \A i \in 1 .. Len(q) - 1 : Tail(q)[i] = q[i + 1]
    BY HeadTailProperties, LenProperties
<1>3. Range(Tail(q)) \subseteq Range(q) /\ Head(q) \in Range(q)
    <2>1. \A i \in 1 .. Len(q) - 1 : i + 1 \in DOMAIN q
        BY <1>1
    <2>2. QED BY <1>1, <1>2, <2>1 DEF Range
<1>4. ASSUME NEW i \in DOMAIN q, i # 1 PROVE q[i] \in Range(Tail(q))
    <2>1. i - 1 \in 1 .. Len(q) - 1 /\ (i - 1) + 1 = i
        BY <1>1, <1>4
    <2>2. QED BY <1>2, <2>1 DEF Range
<1>5. Range(q) \subseteq {Head(q)} \cup Range(Tail(q))
    BY <1>1, <1>4 DEF Range
<1>6. QED BY <1>3, <1>5

\* Appending adds one element.
LEMMA RangeAppend ==
    ASSUME NEW S, NEW q \in Seq(S), NEW e \in S
    PROVE  Range(Append(q, e)) = Range(q) \cup {e}
<1>1. Len(q) \in Nat /\ DOMAIN q = 1 .. Len(q)
    BY LenProperties
<1>2. DOMAIN Append(q, e) = DOMAIN q \cup {Len(q) + 1}
    BY <1>1, AppendProperties, LenProperties
<1>3. QED BY <1>1, <1>2, AppendProperties DEF Range

\* Taking an event changes nothing in what was offered.
LEMMA OfferedByConsume ==
    ASSUME TypeOK, NEW d \in Consumer, Consume(d), NEW c \in Consumer
    PROVE  OfferedIn(got'[c], queue'[c], evicted'[c]) = OfferedIn(got[c], queue[c], evicted[c])
<1>1. evicted' = evicted
    BY DEF Consume
<1>2. CASE c # d
    BY <1>1, <1>2, ConsumeMoves
<1>3. CASE c = d
    <2>1. queue[c] \in Seq(Event) /\ queue[c] # <<>> /\ got[c] \in Seq(Event)
        BY <1>3 DEF TypeOK, Consume
    <2>2. got'[c] = Append(got[c], Head(queue[c])) /\ queue'[c] = Tail(queue[c])
        BY <1>3 DEF TypeOK, Consume
    <2>3. Head(queue[c]) \in Event /\ Tail(queue[c]) \in Seq(Event)
        BY <2>1, HeadTailProperties
    <2>4. Range(queue[c]) = {Head(queue[c])} \cup Range(Tail(queue[c]))
        BY <2>1, RangeHeadTail
    <2>5. Range(got'[c]) = Range(got[c]) \cup {Head(queue[c])}
        BY <2>1, <2>2, <2>3, RangeAppend
    <2>6. QED BY <1>1, <1>3, <2>2, <2>4, <2>5 DEF OfferedIn
<1>4. QED BY <1>2, <1>3

\* The event logger is offered an event by every call that reaches anybody.
LEMMA OfferedStep ==
    TypeOK /\ TypeOK' /\ SubsInv /\ LoggerOfferedEverything /\ [Next]_vars
        => LoggerOfferedEverything'
<1> SUFFICES ASSUME TypeOK, TypeOK', SubsInv, LoggerOfferedEverything, [Next]_vars
             PROVE  LoggerOfferedEverything'
    OBVIOUS
<1> DEFINE OfferedBefore(c) == OfferedIn(got[c], queue[c], evicted[c])
           OfferedAfter(c) == OfferedIn(got'[c], queue'[c], evicted'[c])
<1>1. \A c \in Consumer : Offered(c) = OfferedBefore(c)
    BY HistoryRange DEF Offered, History, TypeOK
<1>2. \A c \in Consumer : Offered(c)' = OfferedAfter(c)
    BY HistoryRange DEF Offered, History, TypeOK
<1>3. \A c \in Consumer : OfferedBefore(c) \subseteq OfferedBefore(Logger)
    BY <1>1, BusAssumption DEF LoggerOfferedEverything, BusAssumption
<1>4. Logger \in Consumer
    BY BusAssumption DEF BusAssumption
<1>5. CASE queue' = queue /\ got' = got /\ evicted' = evicted
    <2>1. \A c \in Consumer : OfferedAfter(c) = OfferedBefore(c)
        BY <1>5
    <2> HIDE DEF OfferedBefore, OfferedAfter
    <2>2. QED BY <1>2, <1>3, <1>4, <2>1 DEF LoggerOfferedEverything
<1>6. ASSUME NEW d \in Consumer, Consume(d) PROVE LoggerOfferedEverything'
    <2>1. \A c \in Consumer : OfferedAfter(c) = OfferedBefore(c)
        BY <1>6, OfferedByConsume
    <2>2. QED BY <1>2, <1>3, <1>4, <2>1 DEF LoggerOfferedEverything
<1>7. ASSUME NEW t \in Topic, PublishLossy(t) \/ PublishLossless(t) \/ PublishRaises(t)
      PROVE  LoggerOfferedEverything'
    <2>1. PICK R \in SUBSET Consumer : Deliver(t, R) /\ (R # {} => Logger \in R)
        BY <1>7, PublishDelivers
    <2>2. \A c \in Consumer : OfferedAfter(c) = OfferedBefore(c) \cup (IF c \in R THEN {NewEvent(t)} ELSE {})
        BY <2>1, OfferedByPublish
    <2> HIDE DEF OfferedBefore, OfferedAfter
    <2>3. \A c \in Consumer : OfferedAfter(c) \subseteq OfferedAfter(Logger)
        BY <1>3, <1>4, <2>1, <2>2
    <2>4. QED BY <1>2, <1>4, <2>3 DEF LoggerOfferedEverything
<1>8. QED BY <1>5, <1>6, <1>7 DEF Next, vars, Subscribe

\* Every publish() call loses, and counts, one event per full queue it reaches.
LEMMA DropsStep ==
    TypeOK /\ SubsInv /\ DropsAccountForLosses /\ [Next]_vars => DropsAccountForLosses'
<1> DEFINE Lost == [c \in Consumer |-> accepted[c] - Len(got[c]) - Len(queue[c])]
<1> SUFFICES ASSUME TypeOK, SubsInv, DropsAccountForLosses, [Next]_vars
             PROVE  DropsAccountForLosses'
    OBVIOUS
<1>1. DropsAccountForLosses <=> SumFunctionOnSet(drops, Topic) = SumFunctionOnSet(Lost, Consumer)
    BY DEF DropsAccountForLosses, SumFunction, TypeOK
<1>2. DropsAccountForLosses' <=> SumFunctionOnSet(drops', Topic) = SumFunctionOnSet(Lost', Consumer)
    <2>1. DOMAIN drops' = Topic
        BY TypeStep DEF TypeOK
    <2>2. QED BY <2>1 DEF DropsAccountForLosses, SumFunction
<1>3. \A c \in Consumer : /\ accepted[c] \in Nat /\ Len(got[c]) \in Nat /\ Len(queue[c]) \in Nat
                          /\ Lost[c] = accepted[c] - Len(got[c]) - Len(queue[c])
                          /\ Lost'[c] = accepted'[c] - Len(got'[c]) - Len(queue'[c])
    BY DEF TypeOK
<1>4. IsFiniteSet(Consumer) /\ IsFiniteSet(Topic)
    BY BusAssumption DEF BusAssumption
<1>5. CASE drops' = drops /\ \A c \in Consumer : Lost'[c] = Lost[c]
    <2> HIDE DEF Lost
    <2>1. SumFunctionOnSet(Lost', Consumer) = SumFunctionOnSet(Lost, Consumer)
        BY <1>4, <1>5, SumsAgree
    <2>2. QED BY <1>1, <1>2, <1>5, <2>1
<1>6. CASE drops' = drops /\ queue' = queue /\ got' = got /\ accepted' = accepted
    BY <1>5, <1>6
<1>7. ASSUME NEW d \in Consumer, Consume(d) PROVE DropsAccountForLosses'
    <2>1. drops' = drops /\ accepted' = accepted
        BY <1>7 DEF Consume
    <2>2. ASSUME NEW c \in Consumer PROVE Lost'[c] = Lost[c]
        <3>1. CASE c # d
            <4>1. queue'[c] = queue[c] /\ got'[c] = got[c]
                BY <1>7, <3>1, ConsumeMoves
            <4>2. QED BY <1>3, <2>1, <4>1
        <3>2. CASE c = d
            <4> DEFINE a == accepted[c]
                       g == Len(got[c])
                       q == Len(queue[c])
            <4>1. Len(queue'[c]) = q - 1 /\ Len(got'[c]) = g + 1 /\ accepted'[c] = a
                BY <1>7, <2>1, <3>2, ConsumeMoves
            <4>2. a \in Nat /\ g \in Nat /\ q \in Nat /\ Lost[c] = a - g - q
                BY <1>3
            <4>3. Lost'[c] = accepted'[c] - Len(got'[c]) - Len(queue'[c])
                BY <1>3
            <4> HIDE DEF a, g, q, Lost
            <4>4. QED BY <4>1, <4>2, <4>3
        <3>3. QED BY <3>1, <3>2
    <2> HIDE DEF Lost
    <2>3. QED BY <1>5, <2>1, <2>2
<1>8. ASSUME NEW t \in Topic, PublishLossy(t) \/ PublishLossless(t) \/ PublishRaises(t)
      PROVE  DropsAccountForLosses'
    <2>1. PICK R \in SUBSET Consumer :
             /\ Deliver(t, R)
             /\ drops' = [drops EXCEPT ![t] = @ + Cardinality({c \in R : Full(c)})]
        BY <1>8, PublishDelivers
    <2> DEFINE W == {c \in R : Full(c)}
    <2>2. got' = got
        BY <2>1 DEF Deliver
    <2>3. ASSUME NEW c \in Consumer PROVE Lost'[c] = Lost[c] + (IF c \in W THEN 1 ELSE 0)
        <3>1. \A a, g, q \in Nat : /\ (a + 1) - g - q = (a - g - q) + 1
                                   /\ (a + 1) - g - (q + 1) = (a - g - q) + 0
                                   /\ (a + 0) - g - q = (a - g - q) + 0
            OBVIOUS
        <3> DEFINE a == accepted[c]
                   g == Len(got[c])
                   q == Len(queue[c])
        <3>2. a \in Nat /\ g \in Nat /\ q \in Nat /\ Lost[c] = a - g - q
            BY <1>3
        <3>3. Lost'[c] = accepted'[c] - g - Len(queue'[c])
            BY <1>3, <2>2
        <3> HIDE DEF a, g, q, Lost
        <3>4. CASE c \in R /\ Full(c)
            <4>1. accepted'[c] = a + 1 /\ Len(queue'[c]) = q
                BY <2>1, <3>4, ReachedWhenFull DEF a, q
            <4>2. QED BY <3>1, <3>2, <3>3, <3>4, <4>1
        <3>5. CASE c \in R /\ ~Full(c)
            <4>1. accepted'[c] = a + 1 /\ Len(queue'[c]) = q + 1
                BY <2>1, <3>5, ReachedWithRoom DEF a, q
            <4>2. QED BY <3>1, <3>2, <3>3, <3>5, <4>1
        <3>6. CASE c \notin R
            <4>1. accepted'[c] = a + 0 /\ Len(queue'[c]) = q
                BY <2>1, <3>6, NotReached DEF a, q
            <4>2. QED BY <3>1, <3>2, <3>3, <3>6, <4>1
        <3>7. QED BY <3>4, <3>5, <3>6
    <2>4. \A c \in Consumer : Lost[c] \in Int
        BY <1>3
    <2>5. drops \in [Topic -> Nat] /\ Cardinality(W) \in Nat
        BY FullIsFinite DEF TypeOK
    <2>6. /\ \A u \in Topic : drops[u] \in Int
          /\ drops'[t] = drops[t] + Cardinality(W)
          /\ \A u \in Topic \ {t} : drops'[u] = drops[u]
        BY <2>1, <2>5
    <2>7. W \in SUBSET Consumer /\ Cardinality(W) \in Int
        BY <2>5
    <2> HIDE DEF Lost, W
    <2>8. SumFunctionOnSet(drops', Topic) = SumFunctionOnSet(drops, Topic) + Cardinality(W)
        BY <1>4, <2>6, <2>7, SumAddsAtOne
    <2>9. SumFunctionOnSet(Lost', Consumer) = SumFunctionOnSet(Lost, Consumer) + Cardinality(W)
        BY <1>4, <2>3, <2>4, <2>7, SumAddsOnes
    <2>10. QED BY <1>1, <1>2, <2>8, <2>9
<1> HIDE DEF Lost
<1>9. QED BY <1>6, <1>7, <1>8 DEF Next, vars, Subscribe

----------------------------------------------------------------------------

\* The inductive invariant of the bus: the shape of the queues, who subscribes to what
\* in which order, and the order of the events in each queue (bus.py, publish).
THEOREM Inductive == Spec => []IInv
<1>1. Init => IInv
    <2> SUFFICES ASSUME Init PROVE IInv
        OBVIOUS
    <2>1. \A c \in Consumer : got[c] = <<>> /\ queue[c] = <<>> /\ evicted[c] = {} /\ accepted[c] = 0
        BY DEF Init
    <2>2. TypeOK
        BY BoundPositive DEF Init, TypeOK, QueueBounded
    <2>3. SubsInv
        BY DEF Init, SubsInv, Subscribed
    <2>4. OrderInv
        BY <2>1 DEF OrderInv, Increasing
    <2>5. LosslessQueueKeepsAll
        <3>1. 0 = Len(<<>>) + Len(<<>>)
            OBVIOUS
        <3>2. \A c \in Consumer : accepted[c] = Len(got[c]) + Len(queue[c])
            <4> SUFFICES ASSUME NEW c \in Consumer PROVE accepted[c] = Len(got[c]) + Len(queue[c])
                OBVIOUS
            <4>1. got[c] = <<>> /\ queue[c] = <<>> /\ accepted[c] = 0
                BY <2>1
            <4>2. QED BY <3>1, <4>1, Zenon
        <3>3. QED BY <2>1, <3>2 DEF LosslessQueueKeepsAll
    <2>6. LoggerOfferedEverything
        <3>1. Range(<<>> \o <<>>) = {}
            BY DEF Range
        <3>2. \A c \in Consumer : Offered(c) = {}
            BY <2>1, <3>1, Zenon DEF Offered, History
        <3>3. QED BY <3>2 DEF LoggerOfferedEverything
    <2>7. DropsAccountForLosses
        <3> DEFINE Lost == [c \in Consumer |-> accepted[c] - Len(got[c]) - Len(queue[c])]
        <3>1. \A c \in Consumer : Lost[c] = 0
            BY <2>1
        <3>2. \A t \in Topic : drops[t] = 0
            BY DEF Init
        <3>3. DOMAIN drops = Topic /\ DOMAIN Lost = Consumer
            BY DEF Init
        <3> HIDE DEF Lost
        <3>4. SumFunctionOnSet(drops, Topic) = 0 /\ SumFunctionOnSet(Lost, Consumer) = 0
            BY <3>1, <3>2, BusAssumption, SumOfZeros DEF BusAssumption
        <3>5. SumFunction(drops) = SumFunction(Lost)
            BY <3>3, <3>4 DEF SumFunction
        <3>6. QED BY <3>5 DEF DropsAccountForLosses, Lost
    <2>8. QED BY <2>2, <2>3, <2>4, <2>5, <2>6, <2>7 DEF IInv, LosslessKept
<1>2. IInv /\ [Next]_vars => IInv'
    BY TypeStep, SubsStep, OrderStep, LosslessStep, OfferedStep, DropsStep DEF IInv, LosslessKept
<1>3. QED BY <1>1, <1>2, PTL DEF Spec

\* No queue ever exceeds its bound (bus.py:3-4).
THEOREM TypeCorrect == Spec => []TypeOK
<1>1. IInv => TypeOK
    BY DEF IInv
<1>2. QED BY <1>1, Inductive, PTL

\* A consumer of lossless topics only loses nothing, and the event logger is offered
\* every event that any consumer has, also when publish() raises half way (bus.py:40-52,
\* engine.py:81).
THEOREM LosslessIsKept == Spec => []LosslessKept
<1>1. IInv => LosslessKept
    BY DEF IInv
<1>2. QED BY <1>1, Inductive, PTL

\* The two halves of a history in order make a history in order.
LEMMA OrderedHistory == TypeOK /\ OrderInv => PublishOrder
<1> SUFFICES ASSUME TypeOK, OrderInv, NEW c \in Consumer,
                    NEW i \in DOMAIN History(c), NEW j \in DOMAIN History(c), i < j
             PROVE  History(c)[i].id < History(c)[j].id
    BY DEF PublishOrder
<1> DEFINE g == got[c]
           q == queue[c]
<1>1. g \in Seq(Event) /\ q \in Seq(Event)
    BY DEF TypeOK
<1>2. /\ \A k, l \in DOMAIN g : k < l => g[k].id < g[l].id
      /\ \A k, l \in DOMAIN q : k < l => q[k].id < q[l].id
      /\ \A k \in DOMAIN g, l \in DOMAIN q : g[k].id < q[l].id
    BY DEF OrderInv, Increasing
<1> HIDE DEF g, q
<1>3. /\ Len(g) \in Nat /\ DOMAIN g = 1 .. Len(g)
      /\ Len(q) \in Nat /\ DOMAIN q = 1 .. Len(q)
    BY <1>1
<1>4. /\ DOMAIN History(c) = 1 .. Len(g) + Len(q)
      /\ \A k \in 1 .. Len(g) + Len(q) : History(c)[k] = IF k <= Len(g) THEN g[k] ELSE q[k - Len(g)]
    <2>1. History(c) = g \o q
        BY DEF History, g, q
    <2>2. /\ g \o q \in Seq(Event)
          /\ Len(g \o q) = Len(g) + Len(q)
          /\ \A k \in 1 .. Len(g) + Len(q) : (g \o q)[k] = IF k <= Len(g) THEN g[k] ELSE q[k - Len(g)]
        BY <1>1, ConcatProperties
    <2>3. DOMAIN (g \o q) = 1 .. Len(g \o q)
        BY <2>2, LenProperties
    <2>4. QED BY <2>1, <2>2, <2>3
<1>5. CASE j <= Len(g)
    <2>1. i \in DOMAIN g /\ j \in DOMAIN g /\ History(c)[i] = g[i] /\ History(c)[j] = g[j]
        BY <1>3, <1>4, <1>5
    <2>2. QED BY <1>2, <2>1
<1>6. CASE i <= Len(g) /\ ~(j <= Len(g))
    <2>1. /\ i \in DOMAIN g /\ j - Len(g) \in DOMAIN q
          /\ History(c)[i] = g[i] /\ History(c)[j] = q[j - Len(g)]
        BY <1>3, <1>4, <1>6
    <2>2. QED BY <1>2, <2>1
<1>7. CASE ~(i <= Len(g)) /\ ~(j <= Len(g))
    <2>1. /\ i - Len(g) \in DOMAIN q /\ j - Len(g) \in DOMAIN q /\ i - Len(g) < j - Len(g)
          /\ History(c)[i] = q[i - Len(g)] /\ History(c)[j] = q[j - Len(g)]
        BY <1>3, <1>4, <1>7
    <2>2. QED BY <1>2, <2>1
<1>8. QED BY <1>3, <1>4, <1>5, <1>6, <1>7

\* Whatever is evicted, a consumer sees what it sees in publish order, and the counters
\* account for every lost event once (bus.py:45-52).
THEOREM LossesAreAccounted == Spec => []LossesAccounted
<1>1. IInv => LossesAccounted
    BY OrderedHistory DEF IInv, LossesAccounted
<1>2. QED BY <1>1, Inductive, PTL

----------------------------------------------------------------------------
(***************************************************************************)
(* The invariant of the scanner, in four parts that hold step by step.     *)
(***************************************************************************)

\* What waits in the queue.
Waits ==
    [topic : {"book"}, of : Token \cup {Unnamed}] \cup [topic : {"whale"}, of : Followed]
    \cup [topic : {"news"}, of : Articles]

QueueInv == scanQueue \in Seq(Waits) /\ Len(scanQueue) <= QueueSize

\* The debounce intervals, the rows and the events in them.
SignalsInv ==
    /\ left \in [Key -> Nat] /\ \A k \in Key : left[k] <= Debounce[k[1]]
    /\ logged \subseteq Key /\ heard \subseteq Key
    /\ faults \in 0 .. MaxFaults
    /\ WindowsAccounted

\* A market of an index that is not too old was open when it was loaded, or later.
IndexInv ==
    /\ tradable \subseteq Market /\ index \subseteq Market /\ newsIndex \subseteq Market
    /\ age \in 0 .. IndexRefresh + 1
    /\ newsAge \in 0 .. NewsRefresh + 1
    /\ closedFor \in [Market -> 0 .. Longest]
    /\ \A m \in tradable : closedFor[m] = 0
    /\ \A m \in index : age <= IndexRefresh => closedFor[m] <= age
    /\ \A m \in newsIndex : newsAge <= NewsRefresh => closedFor[m] <= newsAge

MarketsInv ==
    /\ book \in [Tracked -> Quotes \cup {NoQuote}]
    /\ groups \in [Group -> SUBSET Market]
    /\ served \subseteq Market
    /\ moves \in 0 .. MaxMoves
    /\ closes \in 0 .. MaxCloses

ScanInv == QueueInv /\ SignalsInv /\ IndexInv /\ MarketsInv

\* The invariant says of each variable what TypeOK says.
LEMMA InvariantTypes == ScanInv => ScanTypeOK
<1> SUFFICES ASSUME ScanInv PROVE ScanTypeOK
    OBVIOUS
<1>1. ASSUME NEW i \in 1 .. Len(scanQueue)
      PROVE  scanQueue[i].topic = "news" \/ scanQueue[i].of \in Token \cup {Unnamed}
    <2>1. scanQueue[i] \in Waits
        BY DEF ScanInv, QueueInv
    <2>2. Followed \subseteq Token
        BY ScanAssumption
    <2>3. QED BY <2>1, <2>2 DEF Waits
<1>2. Len(scanQueue) <= QueueSize
    BY DEF ScanInv, QueueInv
<1>3. QED BY <1>1, <1>2 DEF ScanInv, SignalsInv, IndexInv, MarketsInv, ScanTypeOK

----------------------------------------------------------------------------
(***************************************************************************)
(* The keys of signals.                                                    *)
(***************************************************************************)

\* There are finitely many markets.
LEMMA MarketsFinite == \A ms \in SUBSET Market : IsFiniteSet(ms) /\ Cardinality(ms) \in Nat
<1>1. Len(Ids) \in Nat /\ Ids \in [1 .. Len(Ids) -> Market]
    BY ScanAssumption
<1>2. \A m \in Market : \E i \in 1 .. Len(Ids) : Ids[i] = m
    BY <1>1, ScanAssumption DEF ToSet
<1>3. Ids \in Surjection(1 .. Len(Ids), Market)
    BY <1>1, <1>2 DEF Surjection
<1>4. IsFiniteSet(1 .. Len(Ids))
    BY <1>1, FS_Interval
<1>5. IsFiniteSet(Market)
    BY <1>3, <1>4, FS_Surjection
<1>6. QED BY <1>5, FS_Subset, FS_CardinalityType

\* The debounce intervals of keys are set.
LEMMA KeyKinds == \A k \in Key : Debounce[k[1]] \in Nat /\ Debounce[k[1]] > 0
<1>1. \A k \in Key : k[1] \in {"complement", "buy_all", "sell_all", "news", "whale"}
    BY DEF Key
<1>2. QED BY <1>1, ScanAssumption

\* A signal or none.
LEMMA OneOrNone == ASSUME NEW S, NEW k \in S, NEW holds PROVE One(holds, k) \in Seq(S)
<1>1. <<k>> \in Seq(S) /\ <<>> \in Seq(S)
    OBVIOUS
<1>2. QED BY <1>1 DEF One

\* What a book event may lead to is of its market or its group.
LEMMA ArbitrageKeys ==
    ASSUME NEW m \in Market
    PROVE  /\ Arbitrage(m) \in Seq(Key)
           /\ \A n \in Market : <<"complement", n>> \in Keys(Arbitrage(m)) => n = m
           /\ \A n \in Market : <<"news", n>> \notin Keys(Arbitrage(m))
<1> DEFINE g == GroupOf[m]
           K == {<<"complement", m>>, <<"buy_all", g>>, <<"sell_all", g>>}
           Some == IF g = NoGroup THEN {<<"complement", m>>} ELSE K
<1>1. Some \subseteq Key
    BY ScanAssumption DEF Key
<1>2. One(Complement(m), <<"complement", m>>) \in Seq(Some)
    BY OneOrNone
<1> HIDE DEF K
<1>3. CASE g = NoGroup
    <2>1. Arbitrage(m) \in Seq(Some)
        BY <1>2, <1>3 DEF Arbitrage
    <2>2. \A i \in 1 .. Len(Arbitrage(m)) : Arbitrage(m)[i] = <<"complement", m>>
        BY <1>3, <2>1, ElementOfSeq
    <2>3. Keys(Arbitrage(m)) \subseteq {<<"complement", m>>}
        BY <2>2 DEF Keys
    <2>4. QED BY <1>1, <2>1, <2>3, SeqMonotonic
<1>4. CASE g # NoGroup
    <2>1. One(BuyAll(g), <<"buy_all", g>>) \in Seq(K) /\ One(SellAll(g), <<"sell_all", g>>) \in Seq(K)
        BY OneOrNone DEF K
    <2>2. Arbitrage(m) \in Seq(K)
        BY <1>2, <1>4, <2>1 DEF Arbitrage
    <2>3. \A i \in 1 .. Len(Arbitrage(m)) : Arbitrage(m)[i] \in K
        BY <2>2, ElementOfSeq
    <2>4. Keys(Arbitrage(m)) \subseteq K
        BY <2>3 DEF Keys
    <2>5. QED BY <1>1, <1>4, <2>2, <2>4, SeqMonotonic DEF K
<1>5. QED BY <1>3, <1>4

\* The markets of an article, in whatever order, are of the set they are taken from.
LEMMA NewsKeys ==
    ASSUME NEW ms \in SUBSET Market, NEW a, NEW about \in InOrder(a, ms)
    PROVE  LET sigs == [i \in 1 .. Len(about) |-> <<"news", about[i]>>]
           IN  /\ sigs \in Seq(Key)
               /\ \A n \in Market : <<"complement", n>> \notin Keys(sigs)
               /\ \A n \in Market : <<"news", n>> \in Keys(sigs) => n \in ms
<1> DEFINE sigs == [i \in 1 .. Len(about) |-> <<"news", about[i]>>]
<1>1. Cardinality(ms) \in Nat
    BY MarketsFinite
<1>2. about \in [1 .. Cardinality(ms) -> ms]
    BY DEF InOrder, SetToSeqs
<1>3. about \in Seq(ms) /\ Len(about) \in Nat
    BY <1>1, <1>2
<1>4. \A i \in 1 .. Len(about) : about[i] \in ms /\ <<"news", about[i]>> \in Key
    BY <1>3, ElementOfSeq DEF Key
<1>5. sigs \in Seq(Key) /\ Len(sigs) = Len(about)
    BY <1>3, <1>4
<1>6. \A i \in 1 .. Len(sigs) : sigs[i] = <<"news", about[i]>> /\ about[i] \in ms
    BY <1>4, <1>5
<1> HIDE DEF sigs
<1>7. \A k \in Keys(sigs) : \E m \in ms : k = <<"news", m>>
    BY <1>6 DEF Keys
<1>8. /\ \A n \in Market : <<"complement", n>> \notin Keys(sigs)
      /\ \A n \in Market : <<"news", n>> \in Keys(sigs) => n \in ms
    BY <1>7
<1>9. QED BY <1>5, <1>8 DEF sigs

\* What a transfer may lead to is of its token.
LEMMA WhaleKeys ==
    ASSUME NEW t \in Followed, NEW holds
    PROVE  /\ One(holds, <<"whale", t>>) \in Seq(Key)
           /\ \A n \in Market : <<"complement", n>> \notin Keys(One(holds, <<"whale", t>>))
           /\ \A n \in Market : <<"news", n>> \notin Keys(One(holds, <<"whale", t>>))
<1> DEFINE sigs == One(holds, <<"whale", t>>)
<1>1. sigs \in Seq({<<"whale", t>>}) /\ {<<"whale", t>>} \subseteq Key
    BY DEF One, Key
<1>2. \A i \in 1 .. Len(sigs) : sigs[i] = <<"whale", t>>
    BY <1>1, ElementOfSeq
<1>3. Keys(sigs) \subseteq {<<"whale", t>>}
    BY <1>2 DEF Keys
<1>4. sigs \in Seq(Key)
    BY <1>1, SeqMonotonic
<1>5. QED BY <1>3, <1>4

----------------------------------------------------------------------------
(***************************************************************************)
(* Rows and events.                                                        *)
(***************************************************************************)

\* A debounce that is started is of a key that is written and published, unless a fault
\* occurs; a row comes before its event.
LEMMA PersistKeeps ==
    ASSUME SignalsInv, NEW ready \in Seq(Key), NEW atOnce \in BOOLEAN, Persist(ready, atOnce)
    PROVE  /\ SignalsInv'
           /\ logged' \subseteq logged \cup Keys(ready)
<1>1. Keys(ready) \subseteq Key
    BY ElementOfSeq DEF Keys
<1>2. ASSUME NEW keys \in SUBSET Key, Start(keys)
      PROVE  /\ left' \in [Key -> Nat] /\ \A k \in Key : left'[k] <= Debounce[k[1]]
             /\ \A k \in Key : left'[k] > 0 => k \in keys \/ left[k] > 0
    BY <1>2, KeyKinds DEF Start, SignalsInv
<1>3. MaxFaults \in Nat
    BY ScanAssumption
<1>4. CASE /\ Start(Keys(ready))
           /\ Record(Keys(ready), Keys(ready))
           /\ UNCHANGED faults
    BY <1>1, <1>2, <1>3, <1>4 DEF Record, SignalsInv, WindowsAccounted
<1>5. CASE /\ faults < MaxFaults
           /\ faults' = faults + 1
           /\ \E i \in 1 .. Len(ready), written \in BOOLEAN :
                  LET before == Keys(SubSeq(ready, 1, i - 1))
                  IN  /\ Start(IF atOnce THEN Keys(ready) ELSE before \cup {ready[i]})
                      /\ Record(IF written THEN before \cup {ready[i]} ELSE before, before)
    <2>1. PICK i \in 1 .. Len(ready), written \in BOOLEAN :
              LET before == Keys(SubSeq(ready, 1, i - 1))
              IN  /\ Start(IF atOnce THEN Keys(ready) ELSE before \cup {ready[i]})
                  /\ Record(IF written THEN before \cup {ready[i]} ELSE before, before)
        BY <1>5
    <2> DEFINE before == Keys(SubSeq(ready, 1, i - 1))
               rows == IF written THEN before \cup {ready[i]} ELSE before
               keys == IF atOnce THEN Keys(ready) ELSE before \cup {ready[i]}
    <2>2. ready[i] \in Keys(ready)
        BY DEF Keys
    <2>3. before \subseteq Keys(ready)
        <3> DEFINE part == SubSeq(ready, 1, i - 1)
        <3>1. Len(ready) \in Nat /\ i \in Int /\ 1 <= i /\ i <= Len(ready)
            OBVIOUS
        <3>2. \A j \in 1 .. i - 1 : ready[j] \in Key
            BY <3>1, ElementOfSeq
        <3>3. /\ Len(part) = IF 1 <= i - 1 THEN i - 1 - 1 + 1 ELSE 0
              /\ \A j \in 1 .. i - 1 - 1 + 1 : part[j] = ready[1 + j - 1]
            BY <3>1, <3>2, SubSeqProperties
        <3> HIDE DEF part
        <3>4. ASSUME NEW j \in 1 .. Len(part) PROVE part[j] \in Keys(ready)
            <4>1. j \in 1 .. Len(ready) /\ part[j] = ready[j]
                BY <3>1, <3>3
            <4>2. QED BY <4>1 DEF Keys
        <3>5. QED BY <3>4 DEF part, Keys
    <2> HIDE DEF before
    <2>4. Start(keys) /\ Record(rows, before)
        BY <2>1 DEF before
    <2>5. keys \subseteq Key /\ rows \subseteq Keys(ready) /\ before \subseteq rows
        BY <1>1, <2>2, <2>3
    <2> HIDE DEF keys, rows
    <2>6. logged' \subseteq logged \cup Keys(ready) /\ logged' \subseteq Key
        BY <1>1, <2>4, <2>5 DEF Record, SignalsInv
    <2>7. heard' \subseteq logged' /\ heard' \subseteq Key
        BY <2>4, <2>5, <2>6 DEF Record, SignalsInv, WindowsAccounted
    <2>8. faults' \in 0 .. MaxFaults /\ faults' # 0
        BY <1>3, <1>5 DEF SignalsInv
    <2>9. left' \in [Key -> Nat] /\ \A k \in Key : left'[k] <= Debounce[k[1]]
        BY <1>2, <2>4, <2>5
    <2>10. QED BY <2>6, <2>7, <2>8, <2>9 DEF SignalsInv, WindowsAccounted
<1>6. QED BY <1>4, <1>5 DEF Persist

\* The signals of a step come from markets of an index that is not too old.
Sourced ==
    /\ \A m \in Market : <<"complement", m>> \in logged' \ logged => m \in index' /\ Refresh
    /\ \A m \in Market : <<"news", m>> \in logged' \ logged => m \in newsIndex' /\ NewsRefreshed

\* What a book event leads to.
LEMMA HandleBookKeeps ==
    QueueInv /\ SignalsInv /\ IndexInv /\ HandleBook => SignalsInv' /\ Sourced
<1> SUFFICES ASSUME QueueInv, SignalsInv, IndexInv, HandleBook PROVE SignalsInv' /\ Sourced
    OBVIOUS
<1> DEFINE ms == OfToken(Head(scanQueue).of) \cap index'
<1>1. ms \subseteq Market /\ ms \subseteq index' /\ Refresh
    BY DEF OfToken, HandleBook
<1>2. CASE ms = {}
    <2>1. UNCHANGED <<signals, faults>>
        BY <1>2 DEF HandleBook
    <2>2. QED BY <2>1 DEF signals, SignalsInv, WindowsAccounted, Sourced
<1>3. CASE ms # {}
    <2>1. PICK m \in ms : Persist(Arbitrage(m), FALSE)
        BY <1>3 DEF HandleBook
    <2> HIDE DEF ms
    <2>2. m \in Market /\ m \in index'
        BY <1>1, <2>1
    <2>3. /\ Arbitrage(m) \in Seq(Key)
          /\ \A n \in Market : <<"complement", n>> \in Keys(Arbitrage(m)) => n = m
          /\ \A n \in Market : <<"news", n>> \notin Keys(Arbitrage(m))
        BY <2>2, ArbitrageKeys
    <2>4. SignalsInv' /\ logged' \subseteq logged \cup Keys(Arbitrage(m))
        BY <2>1, <2>3, PersistKeeps
    <2>5. Sourced
        BY <1>1, <2>2, <2>3, <2>4 DEF Sourced
    <2>6. QED BY <2>4, <2>5
<1>4. QED BY <1>2, <1>3

\* What an article leads to.
LEMMA HandleNewsKeeps ==
    QueueInv /\ SignalsInv /\ IndexInv /\ HandleNews => SignalsInv' /\ Sourced
<1> SUFFICES ASSUME QueueInv, SignalsInv, IndexInv, HandleNews PROVE SignalsInv' /\ Sourced
    OBVIOUS
<1> DEFINE a == Head(scanQueue).of
           new == {m \in MatchHeadline(a, newsIndex') : Mentioned(a, m) /\ Ready(<<"news", m>>)}
<1>1. NewsRefreshed /\ \E about \in InOrder(a, new) :
                           Persist([i \in 1 .. Len(about) |-> <<"news", about[i]>>], TRUE)
    BY DEF HandleNews
<1>2. newsIndex' \subseteq Market
    BY <1>1 DEF NewsRefreshed, IndexInv
<1>3. new \subseteq newsIndex' /\ new \in SUBSET Market
    BY <1>2 DEF MatchHeadline
<1> HIDE DEF new, a
<1>4. PICK about \in InOrder(a, new) :
          Persist([i \in 1 .. Len(about) |-> <<"news", about[i]>>], TRUE)
    BY <1>1
<1> DEFINE sigs == [i \in 1 .. Len(about) |-> <<"news", about[i]>>]
<1>5. /\ sigs \in Seq(Key)
      /\ \A n \in Market : <<"complement", n>> \notin Keys(sigs)
      /\ \A n \in Market : <<"news", n>> \in Keys(sigs) => n \in new
    BY <1>3, NewsKeys
<1> HIDE DEF sigs
<1>6. Persist(sigs, TRUE)
    BY <1>4 DEF sigs
<1>7. SignalsInv' /\ logged' \subseteq logged \cup Keys(sigs)
    BY <1>5, <1>6, PersistKeeps
<1>8. Sourced
    BY <1>1, <1>3, <1>5, <1>7 DEF Sourced
<1>9. QED BY <1>7, <1>8

\* What a transfer leads to.
LEMMA HandleWhaleKeeps ==
    QueueInv /\ SignalsInv /\ HandleWhale => SignalsInv' /\ Sourced
<1> SUFFICES ASSUME QueueInv, SignalsInv, HandleWhale PROVE SignalsInv' /\ Sourced
    OBVIOUS
<1> DEFINE t == Head(scanQueue).of
           holds == HasMid(t) /\ Mid2(t) \in 1 .. 199
           sigs == One(holds, <<"whale", t>>)
<1>1. scanQueue # <<>> /\ Head(scanQueue).topic = "whale" /\ Persist(sigs, TRUE)
    BY DEF HandleWhale, Comes
<1>2. Head(scanQueue) \in Waits
    BY <1>1, HeadTailProperties DEF QueueInv
<1>3. t \in Followed
    BY <1>1, <1>2 DEF Waits
<1> HIDE DEF t, holds
<1>4. /\ sigs \in Seq(Key)
      /\ \A n \in Market : <<"complement", n>> \notin Keys(sigs)
      /\ \A n \in Market : <<"news", n>> \notin Keys(sigs)
    BY <1>3, WhaleKeys
<1> HIDE DEF sigs
<1>5. SignalsInv' /\ logged' \subseteq logged \cup Keys(sigs)
    BY <1>1, <1>4, PersistKeeps
<1>6. QED BY <1>4, <1>5 DEF Sourced

\* Time ends debounce intervals, and with them what is remembered of them.
LEMMA TickKeeps == SignalsInv /\ Tick => SignalsInv' /\ logged' \subseteq logged
<1> SUFFICES ASSUME SignalsInv, Tick PROVE SignalsInv' /\ logged' \subseteq logged
    OBVIOUS
<1>1. /\ left' = [k \in Key |-> Sooner(left[k])]
      /\ logged' = {k \in logged : left'[k] > 0}
      /\ heard' = {k \in heard : left'[k] > 0}
      /\ faults' = faults
    BY DEF Tick, budget
<1>2. ASSUME NEW k \in Key
      PROVE  /\ left'[k] \in Nat /\ left'[k] <= Debounce[k[1]]
             /\ left'[k] > 0 => left[k] > 0
    BY <1>1, KeyKinds DEF Sooner, SignalsInv
<1>3. left' \in [Key -> Nat]
    BY <1>1, <1>2
<1>4. QED BY <1>1, <1>2, <1>3 DEF SignalsInv, WindowsAccounted

\* Every step keeps rows, events and intervals, and only the scanner writes rows.
LEMMA SignalsHold ==
    QueueInv /\ SignalsInv /\ IndexInv /\ [ScanNext]_scanVars => SignalsInv' /\ Sourced
<1> SUFFICES ASSUME QueueInv, SignalsInv, IndexInv, [ScanNext]_scanVars PROVE SignalsInv' /\ Sourced
    OBVIOUS
<1>1. ASSUME UNCHANGED <<signals, faults>> PROVE SignalsInv' /\ Sourced
    BY <1>1 DEF signals, SignalsInv, WindowsAccounted, Sourced
<1>2. CASE HandleBook
    BY <1>2, HandleBookKeeps
<1>3. CASE HandleNews
    BY <1>3, HandleNewsKeeps
<1>4. CASE HandleWhale
    BY <1>4, HandleWhaleKeeps
<1>5. CASE Tick
    BY <1>5, TickKeeps DEF Sourced
<1>6. ASSUME NEW t \in Tracked, GoStale(t) PROVE SignalsInv' /\ Sourced
    BY <1>1, <1>6 DEF GoStale
<1>7. ASSUME NEW t \in Tracked, NEW q, NEW asset, Update(t, q, asset) PROVE SignalsInv' /\ Sourced
    BY <1>1, <1>7 DEF Update
<1>8. ASSUME NEW a, Article(a) PROVE SignalsInv' /\ Sourced
    BY <1>1, <1>8 DEF Article, budget
<1>9. ASSUME NEW t, Transfer(t) PROVE SignalsInv' /\ Sourced
    BY <1>1, <1>9 DEF Transfer, budget
<1>10. ASSUME NEW m, Close(m) PROVE SignalsInv' /\ Sourced
    BY <1>1, <1>10 DEF Close
<1>11. ASSUME NEW g, Regroup(g) PROVE SignalsInv' /\ Sourced
    BY <1>1, <1>11 DEF Regroup
<1>12. CASE Idle \/ UNCHANGED scanVars
    BY <1>1, <1>12 DEF Idle, scanVars, budget, signals
<1>13. QED BY <1>2, <1>3, <1>4, <1>5, <1>6, <1>7, <1>8, <1>9, <1>10, <1>11, <1>12 DEF ScanNext, Scanner

----------------------------------------------------------------------------
(***************************************************************************)
(* The queue, the indexes and the rest.                                    *)
(***************************************************************************)

\* A full queue makes room for one more.
LEMMA EnqueueKeeps == ASSUME QueueInv, NEW e \in Waits, Enqueue(e) PROVE QueueInv'
<1> DEFINE rest == IF Len(scanQueue) >= QueueSize THEN Tail(scanQueue) ELSE scanQueue
<1>1. QueueSize \in Nat /\ QueueSize > 0 /\ Len(scanQueue) \in Nat
    BY ScanAssumption DEF QueueInv
<1>2. rest \in Seq(Waits) /\ Len(rest) < QueueSize
    <2>1. CASE Len(scanQueue) >= QueueSize
        <3>1. scanQueue # <<>>
            BY <1>1, <2>1
        <3>2. Tail(scanQueue) \in Seq(Waits) /\ Len(Tail(scanQueue)) = Len(scanQueue) - 1
            BY <3>1, HeadTailProperties DEF QueueInv
        <3>3. QED BY <1>1, <2>1, <3>2 DEF QueueInv
    <2>2. CASE ~(Len(scanQueue) >= QueueSize)
        BY <1>1, <2>2 DEF QueueInv
    <2>3. QED BY <2>1, <2>2
<1>3. scanQueue' = Append(rest, e)
    BY DEF Enqueue
<1> HIDE DEF rest
<1>4. scanQueue' \in Seq(Waits) /\ Len(scanQueue') = Len(rest) + 1
    BY <1>2, <1>3, AppendProperties
<1>5. QED BY <1>1, <1>2, <1>4 DEF QueueInv

\* Every step keeps the queue within its size.
LEMMA QueueHolds == QueueInv /\ [ScanNext]_scanVars => QueueInv'
<1> SUFFICES ASSUME QueueInv, [ScanNext]_scanVars PROVE QueueInv'
    OBVIOUS
<1>1. ASSUME UNCHANGED scanQueue PROVE QueueInv'
    BY <1>1 DEF QueueInv
<1>2. CASE HandleBook \/ HandleNews \/ HandleWhale
    <2>1. scanQueue # <<>> /\ scanQueue' = Tail(scanQueue)
        BY <1>2 DEF HandleBook, HandleNews, HandleWhale, Comes, Taken
    <2>2. scanQueue' \in Seq(Waits) /\ Len(scanQueue') = Len(scanQueue) - 1 /\ Len(scanQueue) \in Nat
        BY <2>1, HeadTailProperties DEF QueueInv
    <2>3. QED BY <2>2, ScanAssumption DEF QueueInv
<1>3. ASSUME NEW t \in Tracked, NEW q \in Quotes, NEW asset \in {t, Unnamed}, Update(t, q, asset)
      PROVE  QueueInv'
    <2>1. [topic |-> "book", of |-> asset] \in Waits
        BY ScanAssumption DEF Waits
    <2>2. QED BY <1>3, <2>1, EnqueueKeeps DEF Update
<1>4. ASSUME NEW a \in Articles, Article(a) PROVE QueueInv'
    <2>1. [topic |-> "news", of |-> a] \in Waits
        BY DEF Waits
    <2>2. QED BY <1>4, <2>1, EnqueueKeeps DEF Article
<1>5. ASSUME NEW t \in Followed, Transfer(t) PROVE QueueInv'
    <2>1. [topic |-> "whale", of |-> t] \in Waits
        BY DEF Waits
    <2>2. QED BY <1>5, <2>1, EnqueueKeeps DEF Transfer
<1>6. CASE \/ \E t \in Tracked : GoStale(t)
           \/ \E m \in Market : Close(m)
           \/ \E g \in Group : Regroup(g)
           \/ Tick \/ Idle \/ UNCHANGED scanVars
    BY <1>1, <1>6 DEF GoStale, Close, Regroup, Tick, Idle, scanVars
<1>7. QED BY <1>2, <1>3, <1>4, <1>5, <1>6 DEF ScanNext, Scanner

\* An index is loaded from the markets that are open, or it is as old as before.
LEMMA RefreshKeeps ==
    ASSUME IndexInv, Refresh
    PROVE  /\ index' \subseteq Market
           /\ age' \in 0 .. IndexRefresh /\ \A m \in index' : closedFor[m] <= age'
<1>1. IndexRefresh \in Nat
    BY ScanAssumption
<1>2. CASE age > IndexRefresh
    BY <1>1, <1>2 DEF Refresh, Index, IndexInv
<1>3. CASE ~(age > IndexRefresh)
    BY <1>1, <1>3 DEF Refresh, Index, IndexInv
<1>4. QED BY <1>2, <1>3

\* The same for the index of the news scanner.
LEMMA NewsRefreshKeeps ==
    ASSUME IndexInv, NewsRefreshed
    PROVE  /\ newsIndex' \subseteq Market
           /\ newsAge' \in 0 .. NewsRefresh /\ \A m \in newsIndex' : closedFor[m] <= newsAge'
<1>1. NewsRefresh \in Nat
    BY ScanAssumption
<1>2. CASE newsIndex = {} \/ newsAge > NewsRefresh
    BY <1>1, <1>2 DEF NewsRefreshed, IndexInv
<1>3. CASE ~(newsIndex = {} \/ newsAge > NewsRefresh)
    BY <1>1, <1>3 DEF NewsRefreshed, IndexInv
<1>4. QED BY <1>2, <1>3

\* Every step keeps what is said of the indexes.
LEMMA IndexesHold == IndexInv /\ [ScanNext]_scanVars => IndexInv'
<1> SUFFICES ASSUME IndexInv, [ScanNext]_scanVars PROVE IndexInv'
    OBVIOUS
<1>1. IndexRefresh \in Nat /\ NewsRefresh \in Nat /\ Longest \in Nat
      /\ IndexRefresh + 1 <= Longest /\ NewsRefresh + 1 <= Longest
    BY ScanAssumption DEF Longest
<1>2. ASSUME UNCHANGED <<tradable, indexes, closedFor>> PROVE IndexInv'
    BY <1>2 DEF indexes, IndexInv
<1>3. ASSUME Refresh, UNCHANGED <<tradable, newsIndex, newsAge, closedFor>> PROVE IndexInv'
    BY <1>1, <1>3, RefreshKeeps DEF IndexInv
<1>4. CASE HandleBook \/ HandleWhale \/ Idle
    BY <1>3, <1>4 DEF HandleBook, HandleWhale, Idle
<1>5. CASE HandleNews
    <2>1. Refresh /\ NewsRefreshed /\ UNCHANGED <<tradable, closedFor>>
        BY <1>5 DEF HandleNews
    <2>2. QED BY <1>1, <2>1, RefreshKeeps, NewsRefreshKeeps DEF IndexInv
<1>6. CASE Tick
    <2>1. /\ age' = Later(age, IndexRefresh + 1)
          /\ newsAge' = Later(newsAge, NewsRefresh + 1)
          /\ closedFor' = [m \in Market |-> IF m \in tradable THEN 0 ELSE Later(closedFor[m], Longest)]
          /\ UNCHANGED <<tradable, index, newsIndex>>
        BY <1>6 DEF Tick
    <2>2. ASSUME NEW m \in Market
          PROVE  /\ closedFor'[m] \in 0 .. Longest
                 /\ m \in tradable => closedFor'[m] = 0
                 /\ closedFor'[m] <= closedFor[m] + 1
        BY <1>1, <2>1 DEF Later, IndexInv
    <2>3. age' \in 0 .. IndexRefresh + 1 /\ newsAge' \in 0 .. NewsRefresh + 1
        BY <1>1, <2>1 DEF Later, IndexInv
    <2>4. closedFor' \in [Market -> 0 .. Longest]
        BY <2>1, <2>2
    <2>5. ASSUME NEW m \in index, age' <= IndexRefresh PROVE closedFor'[m] <= age'
        <3>1. m \in Market /\ age \in Nat /\ closedFor[m] \in Nat
            BY <1>1 DEF IndexInv
        <3>2. age' = age + 1 /\ age <= IndexRefresh
            BY <1>1, <2>1, <2>5, <3>1 DEF Later
        <3>3. closedFor[m] <= age
            BY <3>2 DEF IndexInv
        <3>4. closedFor'[m] <= closedFor[m] + 1 /\ closedFor'[m] \in Nat
            BY <1>1, <2>2, <3>1
        <3>5. QED BY <3>1, <3>2, <3>3, <3>4
    <2>6. ASSUME NEW m \in newsIndex, newsAge' <= NewsRefresh PROVE closedFor'[m] <= newsAge'
        <3>1. m \in Market /\ newsAge \in Nat /\ closedFor[m] \in Nat
            BY <1>1 DEF IndexInv
        <3>2. newsAge' = newsAge + 1 /\ newsAge <= NewsRefresh
            BY <1>1, <2>1, <2>6, <3>1 DEF Later
        <3>3. closedFor[m] <= newsAge
            BY <3>2 DEF IndexInv
        <3>4. closedFor'[m] <= closedFor[m] + 1 /\ closedFor'[m] \in Nat
            BY <1>1, <2>2, <3>1
        <3>5. QED BY <3>1, <3>2, <3>3, <3>4
    <2>7. QED BY <2>1, <2>2, <2>3, <2>4, <2>5, <2>6 DEF IndexInv
<1>7. ASSUME NEW m \in Market, Close(m) PROVE IndexInv'
    BY <1>7 DEF Close, indexes, IndexInv
<1>8. ASSUME NEW t \in Tracked, GoStale(t) PROVE IndexInv'
    BY <1>2, <1>8 DEF GoStale
<1>9. ASSUME NEW t \in Tracked, NEW q, NEW asset, Update(t, q, asset) PROVE IndexInv'
    BY <1>2, <1>9 DEF Update
<1>10. CASE \/ \E a \in Articles : Article(a)
            \/ \E t \in Followed : Transfer(t)
            \/ \E g \in Group : Regroup(g)
    BY <1>2, <1>10 DEF Article, Transfer, Regroup
<1>11. CASE UNCHANGED scanVars
    BY <1>2, <1>11 DEF scanVars, indexes
<1>12. QED BY <1>4, <1>5, <1>6, <1>7, <1>8, <1>9, <1>10, <1>11 DEF ScanNext, Scanner

\* Every step keeps the shape of the books, the groups and the bounds.
LEMMA MarketsHold == IndexInv /\ MarketsInv /\ [ScanNext]_scanVars => MarketsInv'
<1> SUFFICES ASSUME IndexInv, MarketsInv, [ScanNext]_scanVars PROVE MarketsInv'
    OBVIOUS
<1>1. MaxMoves \in Nat /\ MaxCloses \in Nat
    BY ScanAssumption
<1>2. ASSUME UNCHANGED <<book, groups, served, moves, closes>> PROVE MarketsInv'
    BY <1>2 DEF MarketsInv
<1>3. ASSUME NEW t \in Tracked, GoStale(t) PROVE MarketsInv'
    BY <1>1, <1>3 DEF GoStale, MarketsInv
<1>4. ASSUME NEW t \in Tracked, NEW q \in Quotes, NEW asset, Update(t, q, asset) PROVE MarketsInv'
    BY <1>1, <1>4 DEF Update, MarketsInv
<1>5. ASSUME NEW m, Close(m) PROVE MarketsInv'
    BY <1>1, <1>5 DEF Close, MarketsInv
<1>6. ASSUME NEW g \in Group, Regroup(g) PROVE MarketsInv'
    BY <1>1, <1>6 DEF Regroup, Partition, Legs, MarketsInv
<1>7. CASE Tick
    BY <1>7 DEF Tick, budget, MarketsInv
<1>8. CASE HandleBook
    BY <1>8 DEF HandleBook, OfToken, MarketsInv
<1>9. CASE \/ \E a \in Articles : Article(a)
           \/ \E t \in Followed : Transfer(t)
           \/ HandleNews \/ HandleWhale \/ Idle \/ UNCHANGED scanVars
    BY <1>2, <1>9 DEF Article, Transfer, HandleNews, HandleWhale, Idle, scanVars, budget
<1>10. QED BY <1>3, <1>4, <1>5, <1>6, <1>7, <1>8, <1>9 DEF ScanNext, Scanner

----------------------------------------------------------------------------

\* All that is said of the scanner holds at the start.
LEMMA InitHolds == ScanInit => ScanInv
<1> SUFFICES ASSUME ScanInit PROVE ScanInv
    OBVIOUS
<1>1. IndexRefresh \in Nat /\ NewsRefresh \in Nat /\ Longest \in Nat
      /\ QueueSize \in Nat /\ {MaxMoves, MaxCloses, MaxFaults} \subseteq Nat
    BY ScanAssumption DEF Longest
<1>2. QueueInv
    BY <1>1 DEF ScanInit, QueueInv
<1>3. SignalsInv
    <2>1. left = [k \in Key |-> 0] /\ logged = {} /\ heard = {} /\ faults = 0
        BY DEF ScanInit
    <2>2. QED BY <1>1, <2>1, KeyKinds DEF SignalsInv, WindowsAccounted
<1>4. IndexInv
    BY <1>1 DEF ScanInit, IndexInv
<1>5. MarketsInv
    BY <1>1 DEF ScanInit, MarketsInv, Partition, Legs
<1>6. QED BY <1>2, <1>3, <1>4, <1>5 DEF ScanInv

\* Whatever books, news and transfers come, however busy the queue and whatever writes
\* fail (scan_task.py, the loop of scan_task), the invariant of the scanner holds.
THEOREM ScanInductive == ScanSpec => []ScanInv
<1>1. ScanInit => ScanInv
    BY InitHolds
<1>2. ScanInv /\ [ScanNext]_scanVars => ScanInv'
    BY QueueHolds, SignalsHold, IndexesHold, MarketsHold DEF ScanInv
<1>3. QED BY <1>1, <1>2, PTL DEF ScanSpec

\* The queue of the scanner stays within its size, its indexes within the markets, and no
\* debounce is longer than its interval.
THEOREM ScanTypeCorrect == ScanSpec => []ScanTypeOK
<1>1. ScanInv => ScanTypeOK
    BY InvariantTypes
<1>2. QED BY <1>1, ScanInductive, PTL

\* An event of a signal has its row, and without a fault a debounce interval that was
\* started has both (_persist_arb, _persist_research).
THEOREM WindowsAreAccounted == ScanSpec => []WindowsAccounted
<1>1. ScanInv => WindowsAccounted
    BY DEF ScanInv, SignalsInv
<1>2. QED BY <1>1, ScanInductive, PTL

\* A market that closed has no new signal once the index that still holds it is older
\* than its refresh interval, however long the queue never runs empty (last_index).
THEOREM ClosedMarketsAreQuiet == ScanSpec => ClosedMarketsQuiet
<1>1. ASSUME ScanInv, [ScanNext]_scanVars
      PROVE  [\A m \in Market :
                  /\ <<"complement", m>> \in logged' \ logged => closedFor[m] <= IndexRefresh
                  /\ <<"news", m>> \in logged' \ logged => closedFor[m] <= NewsRefresh]_scanVars
    <2>1. Sourced /\ IndexInv
        BY <1>1, SignalsHold DEF ScanInv
    <2>2. IndexRefresh \in Nat /\ NewsRefresh \in Nat /\ \A m \in Market : closedFor[m] \in Nat
        <3>1. \A m \in Market : closedFor[m] \in 0 .. Longest
            BY <2>1 DEF IndexInv
        <3>2. QED BY <3>1, ScanAssumption
    <2>3. ASSUME NEW m \in Market, <<"complement", m>> \in logged' \ logged
          PROVE  closedFor[m] <= IndexRefresh
        <3>1. m \in index' /\ Refresh
            BY <2>1, <2>3 DEF Sourced
        <3>2. age' \in 0 .. IndexRefresh /\ closedFor[m] <= age'
            BY <2>1, <3>1, RefreshKeeps
        <3>3. QED BY <2>2, <3>2
    <2>4. ASSUME NEW m \in Market, <<"news", m>> \in logged' \ logged
          PROVE  closedFor[m] <= NewsRefresh
        <3>1. m \in newsIndex' /\ NewsRefreshed
            BY <2>1, <2>4 DEF Sourced
        <3>2. newsAge' \in 0 .. NewsRefresh /\ closedFor[m] <= newsAge'
            BY <2>1, <3>1, NewsRefreshKeeps
        <3>3. QED BY <2>2, <3>2
    <2>5. QED BY <2>3, <2>4
<1>2. QED BY <1>1, ScanInductive, PTL DEF ScanSpec, ClosedMarketsQuiet
============================================================================
