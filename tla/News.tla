-------------------------------- MODULE News --------------------------------
(***************************************************************************)
(* The RSS poller (pm/news/rss.py): one task polls the configured feeds    *)
(* one after the other and publishes the articles it has not seen.  What   *)
(* it has seen is kept in memory, per feed, and halved when it grows too   *)
(* long.                                                                   *)
(*                                                                         *)
(* The feeds are external: a feed lists some of its articles, which may    *)
(* change at any time, and answers a request with the list, with a page    *)
(* that cannot be parsed, or not at all.                                   *)
(*                                                                         *)
(* Abstractions.  An article is its guid in its feed.  Time is counted in  *)
(* units no shorter than the timeout of a request and the sleeps between   *)
(* two passes; a request takes one unit or none.  news_article is a lossy  *)
(* topic, so publishing never raises (see Bus).                            *)
(***************************************************************************)
EXTENDS Integers, Sequences, FiniteSets

CONSTANTS
    Feeds,        \* the names of the feeds, in the order of the file
    Article,      \* the articles with a title
    FeedOf,       \* the feed of an article
    PollS,        \* poll_s of a feed, in units of time
    Raisers,      \* the feeds that may make _poll_one() raise
    Window,       \* the most articles a feed lists at a time
    MaxSeen,      \* the size a bucket may have
    Kept,         \* what is left of one that is larger
    MaxEdits,     \* bound of the model: changes of what a feed lists
    MaxRestarts   \* bound of the model: restarts of the engine

Feed == {Feeds[i] : i \in 1 .. Len(Feeds)}
NoFeed == "no feed"

\* What a feed lists must fit into a bucket that was just halved.
ASSUME NewsAssumption ==
    /\ Feeds \in Seq(Feed) /\ NoFeed \notin Feed
    /\ \A i, j \in 1 .. Len(Feeds) : Feeds[i] = Feeds[j] => i = j
    /\ IsFiniteSet(Article) /\ FeedOf \in [Article -> Feed]
    /\ PollS \in [Feed -> Nat]
    /\ Raisers \subseteq Feed
    /\ {Window, MaxSeen, Kept, MaxEdits, MaxRestarts} \subseteq Nat
    /\ Kept > 0 /\ Kept + Window <= MaxSeen

VARIABLES
    listed,     \* the articles the feeds list
    seen,       \* the buckets, all feeds together
    wait,       \* per feed: the time until next_poll
    todo,       \* the feeds of this pass that were due when it began
    at,         \* the feed a request is under way to
    elapsed,    \* the time since the pass began
    sleeping,   \* between two passes
    published,  \* history: per article, the events
    forgotten,  \* history: per article, how often it left its bucket
    swallows,   \* history: per feed, first polls of this run that were not published
    edits, restarts

poller == <<wait, todo, at, elapsed, sleeping>>
history == <<published, forgotten, swallows>>
budget == <<edits, restarts>>
vars == <<listed, seen, wait, todo, at, elapsed, sleeping, published, forgotten,
          swallows, edits, restarts>>

Of(f) == {a \in Article : FeedOf[a] = f}
Bucket(f) == seen \cap Of(f)

TypeOK ==
    /\ listed \subseteq Article
    /\ seen \subseteq Article
    /\ \A f \in Feed : Cardinality(Bucket(f)) <= MaxSeen
    /\ wait \in [Feed -> Nat] /\ \A f \in Feed : wait[f] <= PollS[f]
    /\ todo \subseteq Feed
    /\ at \in {NoFeed} \cup Feed
    /\ elapsed \in 0 .. Len(Feeds)
    /\ sleeping \in BOOLEAN
    /\ sleeping => at = NoFeed /\ todo = {}
    /\ published \in [Article -> Nat]
    /\ forgotten \in [Article -> Nat]
    /\ swallows \in [Feed -> Nat]
    /\ edits \in 0 .. MaxEdits
    /\ restarts \in 0 .. MaxRestarts

Init ==
    /\ listed \in SUBSET Article
    /\ \A f \in Feed : Cardinality(listed \cap Of(f)) <= Window
    /\ seen = {}
    /\ wait = [f \in Feed |-> 0]
    /\ todo = {}
    /\ at = NoFeed
    /\ elapsed = 0
    /\ sleeping = TRUE
    /\ published = [a \in Article |-> 0]
    /\ forgotten = [a \in Article |-> 0]
    /\ swallows = [f \in Feed |-> 0]
    /\ edits = 0
    /\ restarts = 0

-----------------------------------------------------------------------------
(* The feeds.                                                              *)

Edit(f, items) ==
    /\ edits < MaxEdits
    /\ edits' = edits + 1
    /\ Cardinality(items) <= Window
    /\ listed' = (listed \ Of(f)) \cup items
    /\ UNCHANGED <<seen, poller, history, restarts>>

-----------------------------------------------------------------------------
(* The poller.                                                             *)

Minus(n, d) == IF n > d THEN n - d ELSE 0

\* Time passes: the feeds come closer to their next poll.
Passing(d) == [f \in Feed |-> Minus(wait[f], d)]

\* A pass reads the clock once: only what is due now is polled.
StartPass ==
    /\ sleeping
    /\ LET left == Passing(1)
       IN  /\ wait' = left
           /\ todo' = {f \in Feed : left[f] = 0}
    /\ sleeping' = FALSE
    /\ elapsed' = 0
    /\ UNCHANGED <<listed, seen, at, history, budget>>

Before(f, g) ==
    \E i, j \in 1 .. Len(Feeds) : i < j /\ Feeds[i] = f /\ Feeds[j] = g

\* A bug for ArticlesReach to find: the next poll is set when the feed has answered.
RequestUnscheduled(f) ==
    /\ at = NoFeed
    /\ f \in todo /\ ~\E g \in todo : Before(g, f)
    /\ todo' = todo \ {f}
    /\ at' = f
    /\ UNCHANGED <<listed, seen, wait, elapsed, sleeping, history, budget>>

\* The next feed in the order of the file is rescheduled, from the time the pass
\* began, and asked.
Request(f) ==
    /\ at = NoFeed
    /\ f \in todo /\ ~\E g \in todo : Before(g, f)
    /\ todo' = todo \ {f}
    /\ at' = f
    /\ wait' = [wait EXCEPT ![f] = Minus(PollS[f], elapsed)]
    /\ UNCHANGED <<listed, seen, elapsed, sleeping, history, budget>>

\* The request ends, after one unit of time or none.
Return ==
    \E d \in {0, 1} :
        /\ at' = NoFeed
        /\ elapsed' = elapsed + d
        /\ wait' = Passing(d)

\* Not 200, a timeout or a client error: _poll_one() returns.
Quiet ==
    /\ at # NoFeed
    /\ Return
    /\ UNCHANGED <<listed, seen, todo, sleeping, history, budget>>

\* Any other exception (the page cannot be decoded, say) ends the pass.
Raise ==
    /\ at \in Raisers
    /\ Return
    /\ todo' = {}
    /\ sleeping' = TRUE
    /\ UNCHANGED <<listed, seen, history, budget>>

\* A bug for TypeOK to find: the bucket is never halved.
Halvings(bucket) == {bucket}

\* The bucket after a poll: one that is too long loses all but any Kept of its members.
Buckets(bucket) ==
    IF Cardinality(bucket) > MaxSeen
    THEN {kept \in SUBSET bucket : Cardinality(kept) = Kept}
    ELSE {bucket}

\* A bug for RepeatsExplained to find: the bucket is not looked up.
PollUnchecked(f, items) ==
    \E kept \in Buckets(Bucket(f) \cup items) :
        LET first == Bucket(f) = {}
        IN  /\ seen' = (seen \ Of(f)) \cup kept
            /\ published' = [a \in Article |->
                                published[a] + IF a \in items /\ ~first THEN 1 ELSE 0]
            /\ forgotten' = [a \in Article |->
                                forgotten[a] + IF a \in (Bucket(f) \cup items) \ kept
                                               THEN 1 ELSE 0]
            /\ swallows' = [swallows EXCEPT ![f] = @ + IF first /\ items # {} THEN 1 ELSE 0]

\* The items of a page: all are remembered, and published unless the bucket was empty.
Poll(f, items) ==
    \E kept \in Buckets(Bucket(f) \cup items) :
        LET first == Bucket(f) = {}
            new == items \ Bucket(f)
        IN  /\ seen' = (seen \ Of(f)) \cup kept
            /\ published' = [a \in Article |->
                                published[a] + IF a \in new /\ ~first THEN 1 ELSE 0]
            /\ forgotten' = [a \in Article |->
                                forgotten[a] + IF a \in (Bucket(f) \cup items) \ kept
                                               THEN 1 ELSE 0]
            /\ swallows' = [swallows EXCEPT ![f] = @ + IF first /\ new # {} THEN 1 ELSE 0]

\* A page arrives; one that cannot be parsed has no items.
Page(f, items) ==
    /\ at = f
    /\ Return
    /\ Poll(f, items)
    /\ UNCHANGED <<listed, todo, sleeping, budget>>

Answer(f) == Page(f, listed \cap Of(f))
Garbled(f) == Page(f, {})

EndPass ==
    /\ ~sleeping
    /\ at = NoFeed
    /\ todo = {}
    /\ sleeping' = TRUE
    /\ UNCHANGED <<listed, seen, wait, todo, at, elapsed, history, budget>>

\* The engine is restarted: the poller has seen nothing, and every feed is due.
Restart ==
    /\ restarts < MaxRestarts
    /\ restarts' = restarts + 1
    /\ seen' = {}
    /\ wait' = [f \in Feed |-> 0]
    /\ todo' = {}
    /\ at' = NoFeed
    /\ elapsed' = 0
    /\ sleeping' = TRUE
    /\ forgotten' = [a \in Article |-> forgotten[a] + IF a \in seen THEN 1 ELSE 0]
    /\ swallows' = [f \in Feed |-> 0]
    /\ UNCHANGED <<listed, published, edits>>

Poller ==
    \/ StartPass \/ EndPass \/ Quiet \/ Raise
    \/ \E f \in Feed : Request(f) \/ Answer(f) \/ Garbled(f)

Next ==
    \/ \E f \in Feed : \E items \in SUBSET Of(f) : Edit(f, items)
    \/ Poller
    \/ Restart

Spec == Init /\ [][Next]_vars

\* The loop never ends, and a request ends by its timeout.
FairSpec == Spec /\ WF_vars(Poller)

-----------------------------------------------------------------------------
(* Properties.                                                             *)

\* An article is published at most once, and once more for each time it was forgotten:
\* by a halved bucket or by a restart (_poll_one, bucket).
RepeatsExplained == \A a \in Article : published[a] <= 1 + forgotten[a]

\* In one run a feed has its articles swallowed at most once: neither polls without
\* items nor a halved bucket make it new again (_poll_one, first_run).
SwallowedOnce == \A f \in Feed : swallows[f] <= 1

\* Each article goes out once, but for what was forgotten, and is kept back by the first
\* poll of a run only (rss.py, _poll_one).
PublishedOnce == RepeatsExplained /\ SwallowedOnce

\* As often as the feeds before f raise, one pass in a few gets past them: each is asked
\* once at most, and each raise followed by one sleep, before any of them is due again.
Sheltered(f) ==
    LET ahead == {g \in Feed : Before(g, f)}
    IN  \A g \in ahead :
            Cardinality(ahead) + Cardinality(ahead \cap Raisers) < PollS[g]

\* An article that stays listed is seen in the end if its own feed, asked again and
\* again, answers again and again, and the feeds before it are not asked too often for
\* how many of them raise: since a feed is rescheduled before it is asked, one that
\* raises every time does not starve those behind it, but only as long as the passes
\* it cuts short take less time than its poll_s (rss_poller_task, next_poll).
ArticlesReach ==
    \A a \in Article : Sheltered(FeedOf[a]) =>
        (SF_vars(Answer(FeedOf[a])) => ([](a \in listed) ~> (a \in seen)))

\* The docstring of the module: "restart re-emits the most-recent window once".
RestartReEmits ==
    [][\A a \in Article :
           (restarts > 0 /\ Bucket(FeedOf[a]) = {} /\ a \in seen' \ seen)
               => published'[a] > published[a]]_vars

=============================================================================
