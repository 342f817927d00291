-------------------------------- MODULE Bus --------------------------------
(***************************************************************************)
(* The in-process publish/subscribe bus of the engine (pm/core/bus.py).    *)
(*                                                                         *)
(* Every consumer owns one bounded queue, fed by all the topics it         *)
(* subscribed to.  publish() is a plain function: it runs to completion    *)
(* before any other task of the event loop, so one call is one step here.  *)
(* It offers the event to the subscribers of its topic in the order in     *)
(* which they subscribed.  When a queue is full, an event of a lossy topic *)
(* evicts the oldest item of that queue, whatever its topic; an event of a *)
(* lossless topic makes publish() raise, which leaves the remaining        *)
(* subscribers without the event.                                          *)
(*                                                                         *)
(* The payload of an event is abstracted to its topic and to the number of *)
(* the publish() call that made it.                                        *)
(***************************************************************************)
EXTENDS Naturals, Sequences, FiniteSets, Functions

CONSTANTS
    Consumer,         \* the tasks that subscribe: logger, scan, execution
    Logger,           \* the event logger, the first task the engine starts
    Topic,            \* the topics of events.py
    Lossless,         \* LOSSLESS_TOPICS: signal, execution, system
    Interest,         \* Interest[c]: the topics consumer c subscribes to
    MaxSize,          \* queue bound of a consumer with no lossless topic
    LosslessMaxSize,  \* queue bound of a consumer with a lossless topic
    MaxEvents         \* bound of the model: number of publish() calls

ASSUME BusAssumption ==
    /\ IsFiniteSet(Consumer)
    /\ IsFiniteSet(Topic)
    /\ Logger \in Consumer
    /\ Interest[Logger] = Topic   \* subscribe(*ALL_TOPICS), event_logger.py:33
    /\ Lossless \subseteq Topic
    /\ Interest \in [Consumer -> SUBSET Topic]
    /\ MaxSize \in Nat \ {0}
    /\ LosslessMaxSize \in Nat \ {0}
    /\ MaxEvents \in Nat

VARIABLES
    subs,       \* _subs: for each topic, its subscribers in subscription order
    queue,      \* the queue of each consumer
    drops,      \* drops: events dropped, counted per topic of the evicting event
    published,  \* number of publish() calls so far
    got,        \* history: the events each consumer took out of its queue
    accepted,   \* history: number of events ever put into each queue
    evicted     \* history: the events evicted from each queue

vars == <<subs, queue, drops, published, got, accepted, evicted>>

Event == [topic : Topic, id : Nat]

Subscribed(c) == \E t \in Topic : \E i \in DOMAIN subs[t] : subs[t][i] = c

\* subscribe(): one size for the whole queue, decided by all its topics.
Bound(c) == IF Interest[c] \cap Lossless # {} THEN LosslessMaxSize ELSE MaxSize

\* A bug for TypeOK to find: the bound is off by one.
FullOffByOne(c) == Len(queue[c]) > Bound(c)

\* put_nowait() raises QueueFull.
Full(c) == Len(queue[c]) >= Bound(c)

\* The first n subscribers of topic t.
Subscribers(t, n) == {subs[t][i] : i \in 1 .. n}

\* Position of the first subscriber of t whose queue is full; 0 if there is none.
FirstFull(t) ==
    LET blocked == {i \in DOMAIN subs[t] : Full(subs[t][i])}
    IN  IF blocked = {} THEN 0 ELSE CHOOSE i \in blocked : \A j \in blocked : i <= j

----------------------------------------------------------------------------

Init ==
    /\ subs = [t \in Topic |-> <<>>]
    /\ queue = [c \in Consumer |-> <<>>]
    /\ drops = [t \in Topic |-> 0]
    /\ published = 0
    /\ got = [c \in Consumer |-> <<>>]
    /\ accepted = [c \in Consumer |-> 0]
    /\ evicted = [c \in Consumer |-> {}]

\* A task starts and subscribes, once. The engine starts the event logger first.
Subscribe(c) ==
    /\ ~Subscribed(c)
    /\ c = Logger \/ Subscribed(Logger)
    /\ subs' = [t \in Topic |-> IF t \in Interest[c] THEN Append(subs[t], c) ELSE subs[t]]
    /\ UNCHANGED <<queue, drops, published, got, accepted, evicted>>

\* A bug for PublishOrder to find: the new event takes the place of the oldest one.
PutNewestLost(e, R) ==
    [c \in Consumer |->
        IF c \notin R THEN queue[c]
        ELSE IF Full(c) THEN <<e>> \o Tail(queue[c]) ELSE Append(queue[c], e)]

\* The queues after event e was put into the queues of the consumers in R:
\* a full queue first loses its oldest item.
Put(e, R) ==
    [c \in Consumer |->
        IF c \notin R THEN queue[c]
        ELSE Append(IF Full(c) THEN Tail(queue[c]) ELSE queue[c], e)]

\* The bookkeeping shared by every publish() call that reaches the queues of R.
Deliver(t, R) ==
    LET e == [topic |-> t, id |-> published + 1]
    IN  /\ queue' = Put(e, R)
        /\ accepted' = [c \in Consumer |-> accepted[c] + (IF c \in R THEN 1 ELSE 0)]
        /\ evicted' = [c \in Consumer |->
                          evicted[c] \cup (IF c \in R /\ Full(c) THEN {Head(queue[c])} ELSE {})]
        /\ published' = published + 1
        /\ UNCHANGED <<subs, got>>

\* publish() of a lossy event: every subscriber gets it, full queues evict.
PublishLossy(t) ==
    /\ published < MaxEvents
    /\ t \notin Lossless
    /\ LET R == Subscribers(t, Len(subs[t]))
       IN  /\ Deliver(t, R)
           /\ drops' = [drops EXCEPT ![t] = @ + Cardinality({c \in R : Full(c)})]

\* A bug for LosslessQueueKeepsAll to find: lossless events evict like the others.
PublishLosslessEvicting(t) ==
    /\ published < MaxEvents
    /\ t \in Lossless
    /\ Deliver(t, Subscribers(t, Len(subs[t])))
    /\ UNCHANGED drops

\* publish() of a lossless event when every subscriber has room.
PublishLossless(t) ==
    /\ published < MaxEvents
    /\ t \in Lossless
    /\ FirstFull(t) = 0
    /\ Deliver(t, Subscribers(t, Len(subs[t])))
    /\ UNCHANGED drops

\* publish() of a lossless event that meets a full queue: RuntimeError. The
\* subscribers before the full one already have the event, the others do not.
PublishRaises(t) ==
    /\ published < MaxEvents
    /\ t \in Lossless
    /\ FirstFull(t) # 0
    /\ Deliver(t, Subscribers(t, FirstFull(t) - 1))
    /\ UNCHANGED drops

\* A consumer's queue.get().
Consume(c) ==
    /\ queue[c] # <<>>
    /\ got' = [got EXCEPT ![c] = Append(@, Head(queue[c]))]
    /\ queue' = [queue EXCEPT ![c] = Tail(@)]
    /\ UNCHANGED <<subs, drops, published, accepted, evicted>>

Next ==
    \/ \E c \in Consumer : Subscribe(c) \/ Consume(c)
    \/ \E t \in Topic : PublishLossy(t) \/ PublishLossless(t) \/ PublishRaises(t)

Spec == Init /\ [][Next]_vars

----------------------------------------------------------------------------

\* The shape of every variable, and the memory bound the bus exists for
\* (bus.py:3-4): no queue ever exceeds the size chosen when it was created.
QueueBounded == \A c \in Consumer : Len(queue[c]) <= Bound(c)

TypeOK ==
    /\ subs \in [Topic -> Seq(Consumer)]
    /\ queue \in [Consumer -> Seq(Event)]
    /\ drops \in [Topic -> Nat]
    /\ published \in Nat
    /\ got \in [Consumer -> Seq(Event)]
    /\ accepted \in [Consumer -> Nat]
    /\ evicted \in [Consumer -> SUBSET Event]
    /\ QueueBounded

\* A consumer of lossless topics only (the execution task) sees a reliable FIFO
\* channel: nothing that was put into its queue is lost, ever.
PureLossless(c) == Interest[c] \subseteq Lossless

LosslessQueueKeepsAll ==
    \A c \in Consumer : PureLossless(c) =>
        /\ evicted[c] = {}
        /\ accepted[c] = Len(got[c]) + Len(queue[c])

\* Whatever is evicted, each consumer sees the events it does see in publish order.
History(c) == got[c] \o queue[c]

PublishOrder ==
    \A c \in Consumer : \A i, j \in DOMAIN History(c) :
        i < j => History(c)[i].id < History(c)[j].id

\* The drop counters account for every lost event exactly once, under the topic of
\* the event that evicted it (which need not be the topic of the lost event).
DropsAccountForLosses ==
    SumFunction(drops)
        = SumFunction([c \in Consumer |-> accepted[c] - Len(got[c]) - Len(queue[c])])

\* The event logger is offered every event before any other consumer (engine.py:81,
\* "event_logger first"), also when publish() raises half way: no consumer ever
\* holds an event that was not put into the logger's queue.
Offered(c) == Range(History(c)) \cup evicted[c]

LoggerOfferedEverything == \A c \in Consumer : Offered(c) \subseteq Offered(Logger)

\* What a queue promises a consumer of lossless topics, and the logger what it has of
\* the events of all others (bus.py, publish; engine.py:81).
LosslessKept == LosslessQueueKeepsAll /\ LoggerOfferedEverything

\* What eviction leaves intact: the order of the events, and a count of the lost ones
\* (bus.py:45-52).
LossesAccounted == PublishOrder /\ DropsAccountForLosses

\* What bus.py:6-7 says: "never drop signals or system events". The code keeps
\* it only for a consumer that subscribed to nothing else.
NoLosslessEviction == \A c \in Consumer : \A e \in evicted[c] : e.topic \notin Lossless
============================================================================
