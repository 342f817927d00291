-------------------------- MODULE NewsLabelsProofs --------------------------
(***************************************************************************)
(* Theorems about what comes and goes with time: the articles of the news  *)
(* poller, and the rows of signal_log with their outcomes.                 *)
(*                                                                         *)
(* The poller: each article goes out once (PublishedOnce).  What makes it  *)
(* so: an article that is not in its bucket has gone out no more often     *)
(* than it was forgotten, and a feed whose first poll was kept back has a  *)
(* bucket that is never empty again in this run.  The clock of a pass is   *)
(* bounded by the feeds it has asked.                                      *)
(*                                                                         *)
(* The rows: a live row is labelled after a bounded number of passes       *)
(* (GoodPassesUsed), and rows and outcomes are about the time they bear    *)
(* (RowsTimely).  What makes it so: each pass that could have labelled a   *)
(* row labels one before it (PassesInv), a pass that searches is no older  *)
(* than one search for each market it has come past (SearchInv), and the   *)
(* debounce table knows the rows of this run of the engine (RowsInv).      *)
(***************************************************************************)
EXTENDS News, Labels, SumProofs, SequenceTheorems

One(b) == IF b THEN 1 ELSE 0

\* A pass takes a unit of time at most for each feed it has asked and no longer asks.
Paced == elapsed + Cardinality(todo) + One(at # NoFeed) <= Len(Feeds)

\* What went out more often than it was forgotten is remembered.
Remembered == \A a \in Article : published[a] <= forgotten[a] + One(a \in seen)

\* A feed that had a first poll kept back has a bucket that is not empty.
KeptBack == \A f \in Feed : swallows[f] \in {0, 1} /\ (swallows[f] = 1 => Bucket(f) # {})

IInv == TypeOK /\ Paced /\ Remembered /\ KeptBack

----------------------------------------------------------------------------
(***************************************************************************)
(* Feeds and buckets.                                                      *)
(***************************************************************************)

\* The feeds are finitely many, no more than their file has lines.
LEMMA FeedCount ==
    /\ Len(Feeds) \in Nat /\ IsFiniteSet(Feed)
    /\ \A F \in SUBSET Feed :
          IsFiniteSet(F) /\ Cardinality(F) \in Nat /\ Cardinality(F) <= Len(Feeds)
<1> DEFINE n == Len(Feeds)
<1>1. n \in Nat /\ Feeds \in [1 .. n -> Feed]
    BY NewsAssumption
<1>2. IsFiniteSet(1 .. n) /\ Cardinality(1 .. n) = n
    <2>1. 1 \in Int /\ n \in Int
        BY <1>1
    <2> HIDE DEF n
    <2>2. IsFiniteSet(1 .. n) /\ Cardinality(1 .. n) = IF 1 > n THEN 0 ELSE n - 1 + 1
        BY <2>1, FS_Interval
    <2>3. QED BY <1>1, <2>2
<1>3. Feeds \in Surjection(1 .. n, Feed)
    BY <1>1 DEF Surjection, Feed
<1> HIDE DEF n
<1>4. IsFiniteSet(Feed) /\ Cardinality(Feed) <= n
    BY <1>2, <1>3, FS_Surjection
<1>5. ASSUME NEW F \in SUBSET Feed
      PROVE  IsFiniteSet(F) /\ Cardinality(F) \in Nat /\ Cardinality(F) <= n
    <2>1. IsFiniteSet(F) /\ Cardinality(F) <= Cardinality(Feed)
        BY <1>4, FS_Subset
    <2>2. Cardinality(F) \in Nat /\ Cardinality(Feed) \in Nat
        BY <1>4, <2>1, FS_CardinalityType
    <2>3. QED BY <1>1, <1>4, <2>1, <2>2
<1>6. QED BY <1>1, <1>4, <1>5 DEF n

\* A bucket after a poll: some of what it had and got, not too much, and not nothing.
LEMMA BucketAfterPoll ==
    ASSUME NEW B \in SUBSET Article, NEW kept \in Buckets(B)
    PROVE  kept \subseteq B /\ Cardinality(kept) <= MaxSeen /\ (B # {} => kept # {})
<1>1. IsFiniteSet(B) /\ Cardinality(B) \in Nat
    <2>1. IsFiniteSet(B)
        BY NewsAssumption, FS_Subset
    <2>2. QED BY <2>1, FS_CardinalityType
<1>2. Kept \in Nat /\ Window \in Nat /\ MaxSeen \in Nat /\ Kept > 0 /\ Kept + Window <= MaxSeen
    BY NewsAssumption
<1>3. CASE Cardinality(B) > MaxSeen
    <2>1. kept \subseteq B /\ Cardinality(kept) = Kept
        BY <1>3 DEF Buckets
    <2>2. kept # {}
        BY <1>2, <2>1, FS_EmptySet
    <2>3. QED BY <1>2, <2>1, <2>2
<1>4. CASE ~(Cardinality(B) > MaxSeen)
    BY <1>1, <1>2, <1>4 DEF Buckets
<1>5. QED BY <1>3, <1>4

\* The time to the next poll of the feeds goes down.
LEMMA TimePasses ==
    ASSUME wait \in [Feed -> Nat], \A f \in Feed : wait[f] <= PollS[f], NEW d \in {0, 1}
    PROVE  Passing(d) \in [Feed -> Nat] /\ \A f \in Feed : Passing(d)[f] <= PollS[f]
BY NewsAssumption DEF Passing, Minus

----------------------------------------------------------------------------
(***************************************************************************)
(* The clock of a pass.                                                    *)
(***************************************************************************)

\* The part of TypeOK about the schedule of the poller, and the rest of it.
ScheduleOK ==
    /\ wait \in [Feed -> Nat] /\ \A f \in Feed : wait[f] <= PollS[f]
    /\ todo \subseteq Feed
    /\ at \in {NoFeed} \cup Feed
    /\ elapsed \in 0 .. Len(Feeds)
    /\ sleeping \in BOOLEAN
    /\ sleeping => at = NoFeed /\ todo = {}

ArticlesOK ==
    /\ listed \subseteq Article
    /\ seen \subseteq Article
    /\ \A f \in Feed : Cardinality(Bucket(f)) <= MaxSeen
    /\ published \in [Article -> Nat]
    /\ forgotten \in [Article -> Nat]
    /\ swallows \in [Feed -> Nat]
    /\ edits \in 0 .. MaxEdits
    /\ restarts \in 0 .. MaxRestarts

\* The type invariant, in its two parts.
LEMMA TypeParts == (TypeOK <=> ScheduleOK /\ ArticlesOK) /\ (TypeOK' <=> ScheduleOK' /\ ArticlesOK')
BY DEF TypeOK, ScheduleOK, ArticlesOK

Schedule == ScheduleOK /\ Paced
Articles == ArticlesOK /\ Remembered /\ KeptBack

\* The invariant, in two halves.
LEMMA InvariantParts == (IInv <=> Schedule /\ Articles) /\ (IInv' <=> (Schedule /\ Articles)')
BY TypeParts DEF IInv, Schedule, Articles

\* Both hold at the start.
LEMMA InitHolds == Init => Schedule /\ Articles
<1> SUFFICES ASSUME Init PROVE Schedule /\ Articles
    OBVIOUS
<1>1. Len(Feeds) \in Nat /\ Cardinality({}) = 0
    BY FeedCount, FS_EmptySet
<1>2. Schedule
    BY <1>1, NewsAssumption DEF Init, Schedule, ScheduleOK, Paced, One
<1>3. \A f \in Feed : Bucket(f) = {}
    BY DEF Init, Bucket
<1>4. ArticlesOK
    <2>1. MaxSeen \in Nat /\ MaxEdits \in Nat /\ MaxRestarts \in Nat
        BY NewsAssumption
    <2>2. \A f \in Feed : Cardinality(Bucket(f)) <= MaxSeen
        BY <1>1, <1>3, <2>1
    <2>3. edits \in 0 .. MaxEdits /\ restarts \in 0 .. MaxRestarts
        BY <2>1 DEF Init
    <2>4. /\ published \in [Article -> Nat] /\ forgotten \in [Article -> Nat]
          /\ swallows \in [Feed -> Nat]
        BY DEF Init
    <2>5. QED BY <2>2, <2>3, <2>4 DEF Init, ArticlesOK
<1>5. Remembered
    BY DEF Init, Remembered, One
<1>6. KeptBack
    BY DEF Init, KeptBack
<1>7. QED BY <1>2, <1>4, <1>5, <1>6 DEF Articles

\* A pass begins with all its feeds to ask and no time gone.
LEMMA StartPassPaced == Schedule /\ StartPass => Schedule'
<1> SUFFICES ASSUME Schedule, StartPass PROVE Schedule'
    OBVIOUS
<1> DEFINE due == {f \in Feed : Passing(1)[f] = 0}
<1>1. /\ wait' = Passing(1) /\ todo' = due /\ sleeping' = FALSE /\ elapsed' = 0
      /\ at = NoFeed /\ at' = at
    BY DEF StartPass, Schedule, ScheduleOK
<1>2. Passing(1) \in [Feed -> Nat] /\ \A f \in Feed : Passing(1)[f] <= PollS[f]
    BY TimePasses DEF Schedule, ScheduleOK
<1>3. Len(Feeds) \in Nat /\ Cardinality(due) \in Nat /\ Cardinality(due) <= Len(Feeds)
    BY FeedCount
<1> HIDE DEF due
<1>4. due \subseteq Feed
    BY DEF due
<1>5. Paced'
    BY <1>1, <1>3 DEF Paced, One
<1>6. ScheduleOK'
    <2>1. elapsed' \in 0 .. Len(Feeds)
        BY <1>1, <1>3
    <2>2. sleeping' \in BOOLEAN /\ ~sleeping' /\ at' \in {NoFeed} \cup Feed
        BY <1>1
    <2>3. wait' \in [Feed -> Nat] /\ todo' \subseteq Feed /\ \A f \in Feed : wait'[f] <= PollS[f]
        BY <1>1, <1>2, <1>4
    <2>4. QED BY <2>1, <2>2, <2>3 DEF ScheduleOK
<1>7. QED BY <1>5, <1>6 DEF Schedule

\* The feed that is asked is taken off the list, and scheduled for later.
LEMMA RequestPaced == ASSUME Schedule, NEW f \in Feed, Request(f) PROVE Schedule'
<1>1. /\ at = NoFeed /\ f \in todo /\ todo' = todo \ {f} /\ at' = f
      /\ wait' = [wait EXCEPT ![f] = Minus(PollS[f], elapsed)]
      /\ elapsed' = elapsed /\ sleeping' = sleeping
    BY DEF Request
<1>2. /\ IsFiniteSet(todo) /\ Cardinality(todo) \in Nat /\ todo \subseteq Feed
      /\ Len(Feeds) \in Nat /\ elapsed \in 0 .. Len(Feeds)
    BY FeedCount DEF Schedule, ScheduleOK
<1>3. Cardinality(todo') = Cardinality(todo) - 1
    BY <1>1, <1>2, FS_RemoveElement
<1>4. Paced'
    BY <1>1, <1>2, <1>3, NewsAssumption DEF Schedule, Paced, One
<1>5. wait' \in [Feed -> Nat] /\ \A g \in Feed : wait'[g] <= PollS[g]
    <2>1. PollS[f] \in Nat
        BY NewsAssumption
    <2>2. Minus(PollS[f], elapsed) \in Nat /\ Minus(PollS[f], elapsed) <= PollS[f]
        BY <1>2, <2>1 DEF Minus
    <2>3. QED BY <1>1, <2>2 DEF Schedule, ScheduleOK
<1>6. ScheduleOK'
    BY <1>1, <1>2, <1>5 DEF Schedule, ScheduleOK
<1>7. QED BY <1>4, <1>6 DEF Schedule

\* A request ends, and with it perhaps the pass.
LEMMA ReturnPaced ==
    ASSUME Schedule, at # NoFeed, Return,
           \/ todo' = todo /\ sleeping' = sleeping
           \/ todo' = {} /\ sleeping' = TRUE
    PROVE  Schedule'
<1>1. PICK d \in {0, 1} : at' = NoFeed /\ elapsed' = elapsed + d /\ wait' = Passing(d)
    BY DEF Return
<1>2. Passing(d) \in [Feed -> Nat] /\ \A f \in Feed : Passing(d)[f] <= PollS[f]
    BY TimePasses DEF Schedule, ScheduleOK
<1>3. /\ Cardinality(todo) \in Nat /\ Cardinality({}) = 0
      /\ Len(Feeds) \in Nat /\ elapsed \in 0 .. Len(Feeds)
    BY FeedCount, FS_EmptySet DEF Schedule, ScheduleOK
<1>4. elapsed + Cardinality(todo) + 1 <= Len(Feeds)
    BY DEF Schedule, Paced, One
<1>5. todo' \subseteq Feed /\ (Cardinality(todo') = Cardinality(todo) \/ Cardinality(todo') = 0)
    BY <1>3 DEF Schedule, ScheduleOK
<1>6. elapsed' \in 0 .. Len(Feeds) /\ Paced'
    BY <1>1, <1>3, <1>4, <1>5 DEF Paced, One
<1>7. sleeping' \in BOOLEAN /\ (sleeping' => todo' = {})
    <2>1. sleeping \in BOOLEAN /\ (sleeping => todo = {})
        BY DEF Schedule, ScheduleOK
    <2>2. CASE todo' = todo /\ sleeping' = sleeping
        BY <2>1, <2>2
    <2>3. CASE todo' = {} /\ sleeping' = TRUE
        BY <2>3
    <2>4. QED BY <2>2, <2>3
<1>8. ScheduleOK'
    BY <1>1, <1>2, <1>5, <1>6, <1>7 DEF ScheduleOK
<1>9. QED BY <1>6, <1>8 DEF Schedule

\* Every step keeps what is said of the schedule of the feeds.
LEMMA ScheduleHolds == Schedule /\ [Next]_vars => Schedule'
<1> SUFFICES ASSUME Schedule, [Next]_vars PROVE Schedule'
    OBVIOUS
<1>1. CASE StartPass
    BY <1>1, StartPassPaced
<1>2. CASE EndPass
    BY <1>2 DEF EndPass, Schedule, ScheduleOK, Paced
<1>3. CASE Quiet
    BY <1>3, ReturnPaced DEF Quiet
<1>4. CASE Raise
    BY <1>4, ReturnPaced, NewsAssumption DEF Raise
<1>5. ASSUME NEW f \in Feed, Request(f) PROVE Schedule'
    BY <1>5, RequestPaced
<1>6. ASSUME NEW f \in Feed, NEW items, Page(f, items) PROVE Schedule'
    <2>1. at # NoFeed
        BY <1>6, NewsAssumption DEF Page
    <2>2. QED BY <1>6, <2>1, ReturnPaced DEF Page
<1>7. CASE Restart
    <2>1. Cardinality({}) = 0 /\ Len(Feeds) \in Nat
        BY FeedCount, FS_EmptySet
    <2>2. QED BY <1>7, <2>1, NewsAssumption DEF Restart, Schedule, ScheduleOK, Paced, One
<1>8. CASE (\E f \in Feed : \E items \in SUBSET Of(f) : Edit(f, items)) \/ UNCHANGED vars
    <2>1. UNCHANGED poller
        BY <1>8 DEF Edit, vars, poller
    <2>2. QED BY <2>1 DEF poller, Schedule, ScheduleOK, Paced
<1>9. QED BY <1>1, <1>2, <1>3, <1>4, <1>5, <1>6, <1>7, <1>8 DEF Next, Poller, Answer, Garbled

----------------------------------------------------------------------------
(***************************************************************************)
(* The buckets and what was published.                                     *)
(***************************************************************************)

\* A poll remembers all it got but what the halving forgets, and publishes only what it did
\* not remember.
LEMMA PollKeeps ==
    ASSUME Articles, NEW f \in Feed, NEW items \in SUBSET Of(f), Poll(f, items),
           UNCHANGED <<listed, edits, restarts>>
    PROVE  Articles'
<1> DEFINE B == Bucket(f) \cup items
           first == Bucket(f) = {}
           new == items \ Bucket(f)
<1>1. PICK kept \in Buckets(B) :
        /\ seen' = (seen \ Of(f)) \cup kept
        /\ published' = [a \in Article |-> published[a] + IF a \in new /\ ~first THEN 1 ELSE 0]
        /\ forgotten' = [a \in Article |-> forgotten[a] + IF a \in B \ kept THEN 1 ELSE 0]
        /\ swallows' = [swallows EXCEPT ![f] = @ + IF first /\ new # {} THEN 1 ELSE 0]
    BY DEF Poll
<1>2. /\ seen \subseteq Article /\ published \in [Article -> Nat]
      /\ forgotten \in [Article -> Nat] /\ swallows \in [Feed -> Nat]
    BY DEF Articles, ArticlesOK
<1>3. B \subseteq Article /\ B \subseteq Of(f)
    BY <1>2 DEF Bucket, Of
<1>4. kept \subseteq B /\ Cardinality(kept) <= MaxSeen /\ (B # {} => kept # {})
    BY <1>1, <1>3, BucketAfterPoll
<1>5. /\ Bucket(f)' = kept
      /\ \A g \in Feed : g # f => Bucket(g)' = Bucket(g)
    BY <1>1, <1>3, <1>4 DEF Bucket, Of
<1>6. ArticlesOK'
    <2>1. seen' \subseteq Article
        BY <1>1, <1>2, <1>3, <1>4
    <2>2. \A g \in Feed : Cardinality(Bucket(g)') <= MaxSeen
        BY <1>4, <1>5 DEF Articles, ArticlesOK
    <2>3. published' \in [Article -> Nat] /\ forgotten' \in [Article -> Nat]
        BY <1>1, <1>2
    <2>4. swallows' \in [Feed -> Nat]
        BY <1>1, <1>2
    <2>5. QED BY <2>1, <2>2, <2>3, <2>4 DEF Articles, ArticlesOK
<1>7. ASSUME NEW a \in Article PROVE published'[a] <= forgotten'[a] + One(a \in seen')
    <2>1. /\ published[a] \in Nat /\ forgotten[a] \in Nat
          /\ published[a] <= forgotten[a] + One(a \in seen)
        BY <1>2 DEF Articles, Remembered
    <2>2. /\ published'[a] = published[a] + IF a \in new /\ ~first THEN 1 ELSE 0
          /\ forgotten'[a] = forgotten[a] + IF a \in B \ kept THEN 1 ELSE 0
        BY <1>1
    <2>3. CASE a \notin Of(f)
        <3>1. a \notin B /\ a \notin new /\ (a \in seen' <=> a \in seen)
            BY <1>1, <1>3, <1>4, <2>3
        <3>2. QED BY <2>1, <2>2, <3>1 DEF One
    <2>4. CASE a \in Of(f) /\ a \in seen
        <3>1. a \in B /\ a \notin new /\ (a \in seen' <=> a \in kept)
            BY <1>1, <2>4 DEF Bucket
        <3>2. QED BY <2>1, <2>2, <2>4, <3>1 DEF One
    <2>5. CASE a \in Of(f) /\ a \notin seen
        <3>1. (a \in B <=> a \in new) /\ (a \in seen' <=> a \in kept)
            BY <1>1, <2>5 DEF Bucket
        <3>2. published[a] <= forgotten[a]
            BY <2>1, <2>5 DEF One
        <3>3. CASE a \in new
            BY <2>1, <2>2, <3>1, <3>2, <3>3 DEF One
        <3>4. CASE a \notin new
            BY <2>1, <2>2, <3>1, <3>2, <3>4 DEF One
        <3>5. QED BY <3>3, <3>4
    <2>6. QED BY <2>3, <2>4, <2>5
<1>8. ASSUME NEW g \in Feed
      PROVE  swallows'[g] \in {0, 1} /\ (swallows'[g] = 1 => Bucket(g)' # {})
    <2>1. swallows[g] \in {0, 1} /\ (swallows[g] = 1 => Bucket(g) # {})
        BY DEF Articles, KeptBack
    <2>2. CASE g # f
        BY <1>1, <1>2, <1>5, <2>1, <2>2
    <2>3. CASE g = f
        <3>1. swallows'[f] = swallows[f] + IF first /\ new # {} THEN 1 ELSE 0
            BY <1>1, <1>2
        <3>2. CASE first
            <4>1. swallows[f] = 0 /\ (new # {} => kept # {})
                BY <1>4, <2>1, <2>3, <3>2
            <4>2. QED BY <1>5, <2>3, <3>1, <4>1
        <3>3. CASE ~first
            BY <1>4, <1>5, <2>1, <2>3, <3>1, <3>3
        <3>4. QED BY <3>2, <3>3
    <2>4. QED BY <2>2, <2>3
<1>9. QED BY <1>6, <1>7, <1>8 DEF Articles, Remembered, KeptBack

\* A restart forgets all buckets, and the next first polls may be kept back again.
LEMMA RestartKeeps == Articles /\ Restart => Articles'
<1> SUFFICES ASSUME Articles, Restart PROVE Articles'
    OBVIOUS
<1>1. /\ seen' = {} /\ published' = published /\ listed' = listed /\ edits' = edits
      /\ forgotten' = [a \in Article |-> forgotten[a] + IF a \in seen THEN 1 ELSE 0]
      /\ swallows' = [f \in Feed |-> 0]
      /\ restarts < MaxRestarts /\ restarts' = restarts + 1
    BY DEF Restart
<1>2. /\ published \in [Article -> Nat] /\ forgotten \in [Article -> Nat]
      /\ restarts \in 0 .. MaxRestarts /\ MaxSeen \in Nat /\ MaxRestarts \in Nat
    BY NewsAssumption DEF Articles, ArticlesOK
<1>3. \A f \in Feed : Bucket(f)' = {} /\ Cardinality(Bucket(f)') <= MaxSeen
    <2>1. Cardinality({}) = 0
        BY FS_EmptySet
    <2>2. QED BY <1>1, <1>2, <2>1 DEF Bucket
<1>4. ArticlesOK'
    <2>1. forgotten' \in [Article -> Nat] /\ swallows' \in [Feed -> Nat]
        BY <1>1, <1>2
    <2>2. restarts' \in 0 .. MaxRestarts
        BY <1>1, <1>2
    <2>3. QED BY <1>1, <1>3, <2>1, <2>2 DEF Articles, ArticlesOK
<1>5. ASSUME NEW a \in Article PROVE published'[a] <= forgotten'[a] + One(a \in seen')
    <2>1. published[a] <= forgotten[a] + One(a \in seen)
        BY DEF Articles, Remembered
    <2>2. QED BY <1>1, <1>2, <2>1 DEF One
<1>6. KeptBack'
    BY <1>1 DEF KeptBack
<1>7. QED BY <1>4, <1>5, <1>6 DEF Articles, Remembered

\* Every step keeps what is said of the articles.
LEMMA ArticlesHold == Articles /\ [Next]_vars => Articles'
<1> SUFFICES ASSUME Articles, [Next]_vars PROVE Articles'
    OBVIOUS
<1>1. ASSUME UNCHANGED <<seen, history, restarts>>,
             \/ UNCHANGED <<listed, edits>>
             \/ \E f \in Feed : \E items \in SUBSET Of(f) : Edit(f, items)
      PROVE  Articles'
    <2>1. listed' \subseteq Article /\ edits' \in 0 .. MaxEdits
        BY <1>1, NewsAssumption DEF Articles, ArticlesOK, Edit, Of
    <2>2. \A f \in Feed : Bucket(f)' = Bucket(f)
        BY <1>1 DEF Bucket
    <2>3. QED BY <1>1, <2>1, <2>2 DEF Articles, ArticlesOK, Remembered, KeptBack, history
<1>2. CASE StartPass \/ EndPass \/ Quiet \/ Raise
    BY <1>1, <1>2 DEF StartPass, EndPass, Quiet, Raise, budget
<1>3. ASSUME NEW f \in Feed, Request(f) PROVE Articles'
    BY <1>1, <1>3 DEF Request, budget
<1>4. ASSUME NEW f \in Feed, Answer(f) \/ Garbled(f) PROVE Articles'
    <2>1. PICK items \in SUBSET Of(f) : Page(f, items)
        BY <1>4 DEF Answer, Garbled
    <2>2. QED BY <2>1, PollKeeps DEF Page, budget
<1>5. CASE \E f \in Feed : \E items \in SUBSET Of(f) : Edit(f, items)
    BY <1>1, <1>5 DEF Edit
<1>6. CASE Restart
    BY <1>6, RestartKeeps
<1>7. CASE UNCHANGED vars
    BY <1>1, <1>7 DEF vars, history
<1>8. QED BY <1>2, <1>3, <1>4, <1>5, <1>6, <1>7 DEF Next, Poller

\* Whatever the feeds list and answer, and however often the engine is restarted, the
\* invariant holds.
THEOREM Inductive == Spec => []IInv
<1>1. Init => Schedule /\ Articles
    BY InitHolds
<1>2. Schedule /\ Articles /\ [Next]_vars => (Schedule /\ Articles)'
    BY ScheduleHolds, ArticlesHold
<1>3. Schedule /\ Articles => IInv
    BY InvariantParts
<1>4. QED BY <1>1, <1>2, <1>3, PTL DEF Spec

\* The buckets stay within their limit, a feed is never scheduled later than its interval,
\* and the clock of a pass stays within the number of feeds (rss.py, rss_poller_task).
THEOREM TypeCorrect == Spec => []TypeOK
<1>1. IInv => TypeOK
    BY DEF IInv
<1>2. QED BY <1>1, Inductive, PTL

\* For any feeds, intervals and limits and any number of edits and restarts: an article goes
\* out once, and once more for each time its bucket forgot it, and the articles of a feed are
\* kept back once in a run at most (rss.py, _poll_one).
THEOREM ArticlesGoOutOnce == Spec => []PublishedOnce
<1>1. IInv => RepeatsExplained
    <2> SUFFICES ASSUME IInv, NEW a \in Article PROVE published[a] <= 1 + forgotten[a]
        BY DEF RepeatsExplained
    <2>1. published[a] \in Nat /\ forgotten[a] \in Nat
        BY DEF IInv, TypeOK
    <2>2. published[a] <= forgotten[a] + One(a \in seen)
        BY DEF IInv, Remembered
    <2>3. QED BY <2>1, <2>2 DEF One
<1>2. IInv => SwallowedOnce
    BY DEF IInv, KeptBack, SwallowedOnce
<1>3. QED BY <1>1, <1>2, Inductive, PTL DEF PublishedOnce

-----------------------------------------------------------------------------
(***************************************************************************)
(* The rows of signal_log: the inductive invariant.                        *)
(***************************************************************************)

IsSequence(s) == \E S : s \in Seq(S)
Field == {"ts", "legs", "outcome", "market", "answer"}

\* The clocks, the books and the markets table.
ClockInv ==
    /\ now \in 0 .. MaxTime
    /\ mid \in [Token -> Prices \cup {0}]
    /\ tradable \subseteq Market
    /\ labelIn \in 0 .. (IF LabelPoll > MaxBackoff THEN LabelPoll ELSE MaxBackoff)
    /\ backoff \in Backoff .. MaxBackoff
    /\ search \in BOOLEAN
    /\ scanIn \in 0 .. (IF CalibrationPoll > Retry THEN CalibrationPoll ELSE Retry)
    /\ last \in [Market -> {Never} \cup 0 .. now]
    /\ closedAt \in [Market -> {Never} \cup 0 .. now]
    /\ \A m \in tradable : closedAt[m] = Never

\* A market that a pass is still to look at, or was open when the pass began.
OpenAtStart(m) == closedAt[m] = Never \/ closedAt[m] >= passNow

\* A pass of the calibration scanner is no older than its searches.
SearchInv ==
    /\ passNow \in 0 .. now
    /\ upcoming \subseteq Market
    /\ held = Nothing => upcoming = {}
    /\ held # Nothing =>
           /\ search
           /\ held \in [market : Market, price : Prices, waited : 0 .. SearchTime]
           /\ held.price \in shown
           /\ EndsAt[held.market] - passNow >= MinTtm
           /\ OpenAtStart(held.market)
           /\ \A m \in upcoming : OpenAtStart(m)
           /\ Cardinality(upcoming) < Len(Markets)
           /\ now - passNow
                  <= SearchTime * (Len(Markets) - Cardinality(upcoming) - 1) + held.waited

\* The rows come in the order of their times, and the debounce table knows the rows of
\* this run of the engine.
RowsInv ==
    /\ IsSequence(log)
    /\ good \in Seq(Nat) /\ Len(good) = Len(log)
    /\ earlier \in 0 .. Len(log)
    /\ \A i \in 1 .. Len(log) :
           /\ DOMAIN log[i] = Field
           /\ log[i].ts \in 0 .. now
           /\ Len(log[i].legs) \in Nat \ {0}
           /\ IsCalibration(log[i]) =>
                  LET m == log[i].market
                  IN  /\ m \in Market
                      /\ i > earlier => last[m] # Never /\ log[i].ts <= last[m] + PassTime
    /\ \A i \in 1 .. Len(log) - 1 : log[i].ts <= log[i + 1].ts

\* The rows before a row that have their outcome.
Labelled(i) == {j \in 1 .. i - 1 : log[j].outcome # NoOutcome}

\* Each pass that could have labelled a row labelled one before it.
PassesInv ==
    \A i \in 1 .. Len(log) : log[i].outcome = NoOutcome => good[i] <= Cardinality(Labelled(i))

LabelsInv == ClockInv /\ SearchInv /\ RowsInv /\ PassesInv

----------------------------------------------------------------------------

\* There are as many markets as rows of the markets table.
LEMMA MarketsCounted ==
    /\ IsFiniteSet(Market) /\ Cardinality(Market) <= Len(Markets)
    /\ Cardinality(Market) \in Nat /\ Len(Markets) \in Nat
<1>1. Len(Markets) \in Nat /\ Markets \in [1 .. Len(Markets) -> Market]
    BY LabelsAssumption
<1>2. \A m \in Market : \E i \in 1 .. Len(Markets) : Markets[i] = m
    BY <1>1 DEF Market, ToSet
<1>3. Markets \in Surjection(1 .. Len(Markets), Market)
    BY <1>1, <1>2 DEF Surjection
<1>4. IsFiniteSet(1 .. Len(Markets)) /\ Cardinality(1 .. Len(Markets)) = Len(Markets)
    BY <1>1, FS_Interval
<1>5. QED BY <1>1, <1>3, <1>4, FS_Surjection, FS_CardinalityType

\* No market comes before itself.
LEMMA EarlierIsStrict == \A m : ~ Earlier(m, m)
<1>1. Len(Markets) \in Nat /\ DOMAIN Markets = 1 .. Len(Markets)
    BY LabelsAssumption
<1>2. \A i, j \in 1 .. Len(Markets) : Markets[i] = Markets[j] => i = j
    BY <1>1, LabelsAssumption DEF IsInjective
<1>3. SUFFICES ASSUME NEW m, Earlier(m, m) PROVE FALSE
    OBVIOUS
<1>4. PICK i, j \in 1 .. Len(Markets) : i < j /\ Markets[i] = m /\ Markets[j] = m
    BY <1>3 DEF Earlier
<1>5. QED BY <1>1, <1>2, <1>4

\* The searches of a pass take no longer than one for each market.
LEMMA PassTimeIsNat == PassTime \in Nat
BY MarketsCounted, LabelsAssumption DEF PassTime

LEMMA PassIsBounded ==
    ASSUME ClockInv, SearchInv, held # Nothing
    PROVE  now - passNow \in 0 .. PassTime
<1>1. /\ held.waited \in 0 .. SearchTime
      /\ now - passNow <= SearchTime * (Len(Markets) - Cardinality(upcoming) - 1) + held.waited
      /\ passNow \in 0 .. now /\ now \in Nat
      /\ Cardinality(upcoming) < Len(Markets)
    BY LabelsAssumption DEF SearchInv, ClockInv
<1>2. Cardinality(upcoming) \in Nat /\ Len(Markets) \in Nat /\ SearchTime \in Nat
    BY MarketsCounted, FS_Subset, FS_CardinalityType, LabelsAssumption DEF SearchInv
<1>3. \A n, c, t \in Nat : c < n => t * (n - c - 1) + t <= t * n
    <2>1. SUFFICES ASSUME NEW n \in Nat, NEW c \in Nat, NEW t \in Nat, c < n
                   PROVE  t * (n - c - 1) + t <= t * n
        OBVIOUS
    <2>2. t * (n - c - 1) + t = t * n - t * c /\ t * c >= 0
        OBVIOUS
    <2>3. t * n \in Int /\ t * c \in Int
        OBVIOUS
    <2>4. QED BY <2>2, <2>3
<1>4. SearchTime * (Len(Markets) - Cardinality(upcoming) - 1) + SearchTime
          <= SearchTime * Len(Markets)
    BY <1>1, <1>2, <1>3
<1>5. /\ SearchTime * (Len(Markets) - Cardinality(upcoming) - 1) \in Int
      /\ SearchTime * Len(Markets) \in Int
    BY <1>2
<1>6. QED BY <1>1, <1>2, <1>4, <1>5 DEF PassTime

\* The next market is one that could be searched for, and those to come are others.
LEMMA ContinueKeeps ==
    ASSUME ClockInv, NEW ms \in SUBSET Market, NEW start, Continue(ms, start)
    PROVE  \/ held' = Nothing /\ upcoming' = {} /\ scanIn' = CalibrationPoll
           \/ \E m \in ms :
                  /\ Candidate(m, start)
                  /\ held' = [market |-> m, price |-> mid[TokenYes[m]], waited |-> 0]
                  /\ mid[TokenYes[m]] \in Prices
                  /\ shown' = {mid[TokenYes[m]]}
                  /\ upcoming' \subseteq ms
                  /\ Cardinality(upcoming') < Cardinality(ms)
                  /\ UNCHANGED scanIn
<1>1. ASSUME NEW m \in ms,
             Candidate(m, start),
             held' = [market |-> m, price |-> mid[TokenYes[m]], waited |-> 0],
             upcoming' = {n \in ms : Earlier(m, n)},
             shown' = {mid[TokenYes[m]]},
             UNCHANGED scanIn
      PROVE  /\ mid[TokenYes[m]] \in Prices /\ upcoming' \subseteq ms
             /\ Cardinality(upcoming') < Cardinality(ms)
    <2>1. mid[TokenYes[m]] \in Prices
        BY <1>1, LabelsAssumption DEF Candidate, ClockInv
    <2>2. IsFiniteSet(ms)
        BY MarketsCounted, FS_Subset
    <2>3. upcoming' \subseteq ms \ {m}
        BY <1>1, EarlierIsStrict
    <2>4. IsFiniteSet(ms \ {m}) /\ Cardinality(ms \ {m}) = Cardinality(ms) - 1
        BY <2>2, FS_RemoveElement
    <2>5. Cardinality(upcoming') <= Cardinality(ms \ {m}) /\ Cardinality(upcoming') \in Nat
        BY <2>3, <2>4, FS_Subset, FS_CardinalityType
    <2>6. Cardinality(ms) \in Nat
        BY <2>2, FS_CardinalityType
    <2>7. QED BY <2>1, <2>3, <2>4, <2>5, <2>6
<1>2. QED BY <1>1 DEF Continue

----------------------------------------------------------------------------
(***************************************************************************)
(* New rows.                                                               *)
(***************************************************************************)

\* What is known of the market of a new row: when the pass that wrote it began.
TimelyOf(m, start) ==
    /\ m \in Market
    /\ start \in 0 .. now /\ now - start <= PassTime
    /\ EndsAt[m] - start >= MinTtm
    /\ closedAt[m] = Never \/ closedAt[m] >= start
    /\ last[m] = Never \/ start - last[m] >= Debounce
    /\ last'[m] = start

\* A new row has the time of the step; if it is of the calibration scanner, it is timely.
Fresh(row) ==
    /\ DOMAIN row = Field
    /\ row.ts = now
    /\ Len(row.legs) \in Nat \ {0}
    /\ row.outcome = NoOutcome
    /\ IsCalibration(row) =>
           /\ \E start : TimelyOf(row.market, start)
           /\ row.legs[1].price \in shown \cup {mid[TokenYes[row.market]]}

\* A step adds some rows, of different markets.
Adds ==
    /\ \E rows :
           /\ IsSequence(rows)
           /\ Write(rows)
           /\ \A k \in 1 .. Len(rows) : Fresh(rows[k])
           /\ \A k, l \in 1 .. Len(rows) :
                  IsCalibration(rows[k]) /\ rows[k].market = rows[l].market => k = l
    /\ \A m \in Market : last[m] # Never => last'[m] # Never /\ last'[m] >= last[m]
    /\ now' = now

\* What joins the log is behind what is there.
LEMMA WriteAppends ==
    ASSUME IsSequence(log), good \in Seq(Nat), Len(good) = Len(log),
           NEW rows, IsSequence(rows), Write(rows)
    PROVE  /\ Len(log) \in Nat /\ Len(rows) \in Nat
           /\ IsSequence(log')
           /\ good' \in Seq(Nat)
           /\ Len(log') = Len(log) + Len(rows) /\ Len(good') = Len(log')
           /\ \A i \in 1 .. Len(log) : log'[i] = log[i] /\ good'[i] = good[i]
           /\ \A i \in 1 .. Len(rows) : log'[Len(log) + i] = rows[i] /\ good'[Len(log) + i] = 0
<1>1. PICK S : log \in Seq(S)
    BY DEF IsSequence
<1>2. PICK T : rows \in Seq(T)
    BY DEF IsSequence
<1>3. log \in Seq(S \cup T) /\ rows \in Seq(S \cup T)
    BY <1>1, <1>2, SeqMonotonic
<1>4. Len(log) \in Nat /\ Len(rows) \in Nat
    BY <1>3
<1> DEFINE zeros == [i \in 1 .. Len(rows) |-> 0]
<1>5. zeros \in Seq(Nat) /\ Len(zeros) = Len(rows) /\ \A i \in 1 .. Len(rows) : zeros[i] = 0
    BY <1>4
<1> HIDE DEF zeros
<1>6. log' = log \o rows /\ good' = good \o zeros
    BY DEF Write, zeros
<1>7. log' \in Seq(S \cup T) /\ Len(log') = Len(log) + Len(rows)
    BY <1>3, <1>6
<1>8. good' \in Seq(Nat) /\ Len(good') = Len(good) + Len(rows)
    <2>1. good \o zeros \in Seq(Nat) /\ Len(good \o zeros) = Len(good) + Len(zeros)
        BY <1>5, ConcatProperties
    <2>2. QED BY <1>5, <1>6, <2>1
<1>9. \A i \in 1 .. Len(log) : log'[i] = log[i] /\ good'[i] = good[i]
    BY <1>3, <1>4, <1>5, <1>6
<1>10. \A i \in 1 .. Len(rows) : log'[Len(log) + i] = rows[i]
    BY <1>3, <1>4, <1>6
<1>11. \A i \in 1 .. Len(rows) : good'[Len(log) + i] = 0
    BY <1>4, <1>5, <1>6
<1>12. QED BY <1>4, <1>7, <1>8, <1>9, <1>10, <1>11 DEF IsSequence

\* Only the labeler changes a row, and only its outcome; only the scanners add rows.
Marks == \E rows \in SUBSET {i \in Selected : Live(i)} :
    /\ Label(rows)
    /\ now' = now /\ last' = last /\ Len(good') = Len(good)
    /\ \/ good' = good
       \/ /\ rows = {i \in Selected : Live(i)}
          /\ good' = [i \in 1 .. Len(log) |->
                         IF CouldLabel(i) THEN good[i] + 1 ELSE good[i]]

Keeps == UNCHANGED <<log, good, last>> /\ now' \in {now, now + 1}

\* A restart forgets the debounce table and leaves the rows as they are.
Forgets == UNCHANGED <<log, good>> /\ now' \in now .. MaxTime /\ earlier' = Len(log)

LEMMA CalibrationRowFields ==
    ASSUME NEW m, NEW price, NEW answer
    PROVE  LET row == CalibrationRow(m, price, answer)
           IN  /\ DOMAIN row = Field
               /\ row.ts = now /\ row.outcome = NoOutcome /\ row.market = m
               /\ Len(row.legs) = 1 /\ row.legs[1].price = price
<1> DEFINE leg == [token |-> TokenYes[m], price |-> price,
                   side |-> IF Blend(m, answer) > price THEN "BUY" ELSE "SELL"]
<1>1. leg.price = price
    OBVIOUS
<1>2. CalibrationRow(m, price, answer) = Row(<<leg>>, m, answer)
    BY DEF CalibrationRow
<1> HIDE DEF leg
<1>3. QED BY <1>1, <1>2 DEF Row, Field

\* One new row.
LEMMA OneRowAdds ==
    ASSUME NEW row, Fresh(row), Write(<<row>>), now' = now,
           \A m \in Market : last[m] # Never => last'[m] # Never /\ last'[m] >= last[m]
    PROVE  Adds
<1> DEFINE rows == <<row>>
<1>1. IsSequence(rows) /\ Len(rows) = 1 /\ rows[1] = row
    <2>1. <<row>> \in Seq({row})
        OBVIOUS
    <2>2. QED BY <2>1 DEF IsSequence
<1>2. Write(rows)
    OBVIOUS
<1> HIDE DEF rows
<1>3. \A k \in 1 .. Len(rows) : k = 1 /\ Fresh(rows[k])
    BY <1>1
<1>4. QED BY <1>1, <1>2, <1>3 DEF Adds

\* A row of another scanner.
LEMMA OtherAdds ==
    ASSUME ClockInv, SearchInv, RowsInv, NEW legs \in OtherLegs, OtherSignal(legs)
    PROVE  Adds
<1> DEFINE row == Row(legs, NoMarket, NoAnswer)
<1>1. Len(legs) \in Nat \ {0}
    <2>1. PICK S : legs \in Seq(S) \ {<<>>}
        BY LabelsAssumption
    <2>2. QED BY <2>1
<1>2. /\ DOMAIN row = Field /\ row.ts = now /\ row.legs = legs /\ row.outcome = NoOutcome
      /\ ~ IsCalibration(row)
    BY DEF Row, IsCalibration, Field
<1>3. Write(<<row>>) /\ last' = last /\ now' = now
    BY DEF OtherSignal, scanner
<1> HIDE DEF row
<1>4. Fresh(row)
    BY <1>1, <1>2 DEF Fresh
<1>5. \A m \in Market : last[m] # Never => last'[m] # Never /\ last'[m] >= last[m]
    BY <1>3 DEF ClockInv, Never
<1>6. QED BY <1>3, <1>4, <1>5, OneRowAdds

\* Without the search: a row for each of some markets.
LEMMA ScanAtOnceAdds ==
    ASSUME ClockInv, SearchInv, RowsInv, ScanAtOnce
    PROVE  Adds
<1> DEFINE price(m) == mid[TokenYes[m]]
           ms == {m \in tradable : /\ Candidate(m, now) /\ Ready(m, now)
                                   /\ Diverges(m, price(m), NoAnswer)}
           Rows(s) == [i \in 1 .. Len(s) |-> CalibrationRow(s[i], price(s[i]), NoAnswer)]
<1>1. \E spent \in SUBSET ms : \E some \in SUBSET spent :
          Spend(spent, now) /\ \E s \in InOrder(some) : Write(Rows(s))
    <2>1. CASE Spend(ms, now) /\ \E s \in InOrder(ms) : Write(Rows(s))
        BY <2>1
    <2>2. CASE \E m \in ms, written \in BOOLEAN :
                   LET before == {n \in ms : Earlier(n, m)}
                   IN  /\ Spend(before \cup {m}, now)
                       /\ \E s \in InOrder(IF written THEN before \cup {m} ELSE before) :
                              Write(Rows(s))
        <3>1. PICK m \in ms, written \in BOOLEAN :
                   LET before == {n \in ms : Earlier(n, m)}
                   IN  /\ Spend(before \cup {m}, now)
                       /\ \E s \in InOrder(IF written THEN before \cup {m} ELSE before) :
                              Write(Rows(s))
            BY <2>2
        <3> DEFINE before == {n \in ms : Earlier(n, m)}
                   some == IF written THEN before \cup {m} ELSE before
        <3>2. before \cup {m} \in SUBSET ms /\ some \in SUBSET (before \cup {m})
            OBVIOUS
        <3>3. Spend(before \cup {m}, now) /\ \E s \in InOrder(some) : Write(Rows(s))
            BY <3>1
        <3> HIDE DEF before, some, ms
        <3>4. QED BY <3>2, <3>3
    <2>3. QED BY <2>1, <2>2 DEF ScanAtOnce
<1>2. PICK spent \in SUBSET ms : \E some \in SUBSET spent :
          Spend(spent, now) /\ \E s \in InOrder(some) : Write(Rows(s))
    BY <1>1
<1>3. PICK some \in SUBSET spent : Spend(spent, now) /\ \E s \in InOrder(some) : Write(Rows(s))
    BY <1>2
<1>4. PICK s \in InOrder(some) : Spend(spent, now) /\ Write(Rows(s))
    BY <1>3
<1>5. /\ ms \subseteq Market
      /\ \A m \in ms : /\ EndsAt[m] - now >= MinTtm /\ price(m) # 0
                       /\ last[m] = Never \/ now - last[m] >= Debounce
                       /\ closedAt[m] = Never
    BY DEF ClockInv, Candidate, Ready
<1> HIDE DEF ms
<1>6. /\ now' = now /\ now \in Nat
      /\ last' = [m \in Market |-> IF m \in spent THEN now ELSE last[m]]
      /\ last \in [Market -> {Never} \cup 0 .. now] /\ Debounce \in Nat
    BY <1>4, LabelsAssumption DEF ScanAtOnce, Rest, Spend, ClockInv
<1>7. \A m \in Market : m \in spent => last[m] = Never \/ now - last[m] >= Debounce
    BY <1>5
<1>8. ASSUME NEW m \in Market
      PROVE  last[m] # Never => last'[m] # Never /\ last'[m] >= last[m]
    <2>1. last[m] \in {Never} \cup 0 .. now /\ last'[m] \in {now, last[m]}
        BY <1>6
    <2>2. QED BY <1>6, <2>1 DEF Never
<1>9. /\ s \in Seq(some) /\ Len(s) \in Nat
      /\ \A i \in 1 .. Len(s) : s[i] \in some
      /\ \A i, j \in 1 .. Len(s) : i # j => s[i] # s[j]
    <2>1. Cardinality(some) \in Nat
        BY <1>4, <1>5, MarketsCounted, FS_Subset, FS_CardinalityType
    <2>2. /\ s \in [1 .. Cardinality(some) -> some]
          /\ \A i, j \in 1 .. Cardinality(some) : i # j => s[i] # s[j]
        BY <1>4 DEF InOrder, SetToSeqs
    <2>3. s \in Seq(some) /\ Len(s) = Cardinality(some)
        BY <2>1, <2>2
    <2>4. QED BY <2>1, <2>2, <2>3
<1>10. IsSequence(Rows(s)) /\ Len(Rows(s)) = Len(s)
      /\ \A i \in 1 .. Len(s) : Rows(s)[i] = CalibrationRow(s[i], price(s[i]), NoAnswer)
    <2> DEFINE S == {CalibrationRow(s[i], price(s[i]), NoAnswer) : i \in 1 .. Len(s)}
    <2>1. Rows(s) \in Seq(S) /\ Len(Rows(s)) = Len(s)
        BY <1>9
    <2>2. \A i \in 1 .. Len(s) : Rows(s)[i] = CalibrationRow(s[i], price(s[i]), NoAnswer)
        OBVIOUS
    <2> HIDE DEF Rows, S
    <2>3. IsSequence(Rows(s))
        BY <2>1 DEF IsSequence
    <2>4. QED BY <2>1, <2>2, <2>3
<1> HIDE DEF Rows
<1>11. ASSUME NEW i \in 1 .. Len(s)
      PROVE  /\ Fresh(Rows(s)[i])
             /\ IsCalibration(Rows(s)[i]) /\ Rows(s)[i].market = s[i]
    <2> DEFINE m == s[i]
    <2>1. m \in some /\ m \in spent /\ m \in ms /\ m \in Market
        BY <1>4, <1>5, <1>9
    <2>2. /\ DOMAIN Rows(s)[i] = Field
          /\ Rows(s)[i].ts = now /\ Rows(s)[i].outcome = NoOutcome /\ Rows(s)[i].market = m
          /\ Len(Rows(s)[i].legs) = 1 /\ Rows(s)[i].legs[1].price = price(m)
        BY <1>10, CalibrationRowFields
    <2> HIDE DEF m
    <2>3. TimelyOf(m, now)
        BY <1>5, <1>6, <2>1, PassTimeIsNat DEF TimelyOf
    <2>4. IsCalibration(Rows(s)[i])
        BY <2>1, <2>2, LabelsAssumption DEF IsCalibration
    <2>5. Fresh(Rows(s)[i])
        BY <2>2, <2>3 DEF Fresh
    <2>6. QED BY <2>2, <2>4, <2>5 DEF m
<1>12. QED BY <1>4, <1>6, <1>8, <1>9, <1>10, <1>11 DEF Adds

\* The answer of a search: a row for the market that is held.
LEMMA AnswerAdds ==
    ASSUME ClockInv, SearchInv, RowsInv, NEW a, SearchAnswers(a)
    PROVE  Adds \/ Keeps
<1> DEFINE m == held.market
           row == CalibrationRow(m, held.price, a)
<1>1. /\ now' = now /\ held # Nothing /\ now \in Nat
      /\ \/ Keeps
         \/ /\ Ready(m, passNow) /\ Spend({m}, passNow)
            /\ Write(<<row>>) \/ UNCHANGED <<log, good>>
    <2>1. now' = now /\ held # Nothing
        BY DEF SearchAnswers, Rest
    <2>2. now \in Nat
        BY LabelsAssumption DEF ClockInv
    <2>3. \/ UNCHANGED <<last, log, good>>
          \/ /\ Ready(m, passNow) /\ Spend({m}, passNow)
             /\ Write(<<row>>) \/ UNCHANGED <<log, good>>
        BY DEF SearchAnswers
    <2>4. UNCHANGED <<last, log, good>> => Keeps
        BY <2>1 DEF Keeps
    <2>5. QED BY <2>1, <2>2, <2>3, <2>4
<1>2. CASE Ready(m, passNow) /\ Spend({m}, passNow) /\ (Write(<<row>>) \/ UNCHANGED <<log, good>>)
    <2>1. /\ m \in Market /\ held.price \in shown /\ EndsAt[m] - passNow >= MinTtm
          /\ closedAt[m] = Never \/ closedAt[m] >= passNow
          /\ passNow \in 0 .. now
        BY <1>1 DEF SearchInv, OpenAtStart
    <2>2. last[m] = Never \/ passNow - last[m] >= Debounce
        BY <1>2 DEF Ready
    <2>3. DOMAIN row = Field /\ row.ts = now /\ row.outcome = NoOutcome /\ row.market = m
          /\ Len(row.legs) = 1 /\ row.legs[1].price = held.price
        BY CalibrationRowFields
    <2> HIDE DEF m, row
    <2>4. /\ last' = [k \in Market |-> IF k \in {m} THEN passNow ELSE last[k]]
          /\ last \in [Market -> {Never} \cup 0 .. now] /\ Debounce \in Nat
        BY <1>2, LabelsAssumption DEF Spend, ClockInv
    <2>5. ASSUME NEW k \in Market
          PROVE  last[k] # Never => last'[k] # Never /\ last'[k] >= last[k]
        <3>1. CASE k = m
            <4>1. last'[k] = passNow /\ last[k] \in {Never} \cup 0 .. now
                BY <2>4, <3>1
            <4>2. QED BY <1>1, <2>1, <2>2, <2>4, <3>1, <4>1 DEF Never
        <3>2. CASE k # m
            BY <2>4, <3>2 DEF Never
        <3>3. QED BY <3>1, <3>2
    <2>6. TimelyOf(m, passNow)
        BY <1>1, <2>1, <2>2, <2>4, PassIsBounded, PassTimeIsNat DEF TimelyOf
    <2>7. Fresh(row)
        BY <2>1, <2>3, <2>6 DEF Fresh
    <2>9. CASE Write(<<row>>)
        BY <1>1, <2>5, <2>7, <2>9, OneRowAdds
    <2>10. CASE UNCHANGED <<log, good>>
        <3>1. IsSequence(<<>>) /\ Len(<<>>) = 0 /\ \A k \in 1 .. 0 : FALSE
            <4>1. <<>> \in Seq({})
                OBVIOUS
            <4>2. QED BY <4>1 DEF IsSequence
        <3>2. log \o <<>> = log /\ good \o <<>> = good
            BY ConcatEmptySeq DEF RowsInv, IsSequence
        <3>3. [i \in 1 .. Len(<<>>) |-> 0] = <<>>
            OBVIOUS
        <3>4. Write(<<>>)
            BY <2>10, <3>2, <3>3 DEF Write
        <3>5. QED BY <1>1, <2>5, <3>1, <3>4 DEF Adds
    <2>11. QED BY <1>2, <2>9, <2>10
<1>3. QED BY <1>1, <1>2

LEMMA LabelPassMarks == ASSUME RowsInv, LabelPass PROVE Marks
<1>1. Len(log) \in Nat /\ Len(good) = Len(log)
    BY DEF RowsInv, IsSequence
<1>2. /\ Label({i \in Selected : Live(i)})
      /\ now' = now /\ last' = last
      /\ good' = [i \in 1 .. Len(log) |->
                     IF CouldLabel(i) THEN good[i] + 1 ELSE good[i]]
    BY DEF LabelPass, scanner
<1>3. Len(good') = Len(good)
    <2>1. DOMAIN good' = 1 .. Len(log)
        BY <1>2
    <2>2. QED BY <1>1, <2>1
<1>4. QED BY <1>2, <1>3 DEF Marks

LEMMA LabelPassFailsMarks == ASSUME LabelPassFails PROVE Marks
<1>1. PICK i \in {j \in Selected : Live(j)} : Label({j \in Selected : Live(j) /\ j < i})
    BY DEF LabelPassFails
<1>2. good' = good /\ now' = now /\ last' = last
    BY DEF LabelPassFails, scanner
<1>3. QED BY <1>1, <1>2 DEF Marks

\* What each step does to the log.
LEMMA StepKinds ==
    ASSUME ClockInv, SearchInv, RowsInv, [LabelsNext]_labelsVars
    PROVE  (earlier' = earlier /\ (Adds \/ Marks \/ Keeps)) \/ Forgets
<1>1. ASSUME NEW t \in Token, NEW p \in Prices \cup {0}, Move(t, p)
      PROVE  earlier' = earlier /\ Keeps
    BY <1>1 DEF Move, Keeps, labeler, scanner
<1>2. ASSUME NEW m \in Market, Close(m) PROVE earlier' = earlier /\ Keeps
    BY <1>2 DEF Close, Keeps, labeler, scanner
<1>3. CASE Tick
    BY <1>3 DEF Tick, Keeps
<1>4. CASE StartSearching
    BY <1>4 DEF StartSearching, Rest, Keeps
<1>5. CASE SearchRaises
    BY <1>5 DEF SearchRaises, Rest, Keeps
<1>6. CASE UNCHANGED labelsVars
    BY <1>6 DEF labelsVars, Keeps
<1>7. CASE EngineRestarts
    BY <1>7 DEF EngineRestarts, Forgets
<1>8. CASE LabelPass \/ LabelPassFails
    BY <1>8, LabelPassMarks, LabelPassFailsMarks DEF LabelPass, LabelPassFails
<1>9. ASSUME NEW legs \in OtherLegs, OtherSignal(legs) PROVE earlier' = earlier /\ Adds
    BY <1>9, OtherAdds DEF OtherSignal
<1>10. CASE ScanAtOnce
    <2>1. earlier' = earlier
        BY <1>10 DEF ScanAtOnce, Rest
    <2>2. QED BY <1>10, <2>1, ScanAtOnceAdds
<1>11. ASSUME NEW a, SearchAnswers(a) PROVE earlier' = earlier /\ (Adds \/ Keeps)
    <2>1. earlier' = earlier
        BY <1>11 DEF SearchAnswers, Rest
    <2>2. QED BY <1>11, <2>1, AnswerAdds
<1>12. QED BY <1>1, <1>2, <1>3, <1>4, <1>5, <1>6, <1>7, <1>8, <1>9, <1>10, <1>11 DEF LabelsNext

----------------------------------------------------------------------------
(***************************************************************************)
(* The clocks and the searches.                                            *)
(***************************************************************************)

\* The debounce is spent for markets of the table, with a time that has come.
LEMMA SpendKeeps ==
    ASSUME ClockInv, NEW ms, NEW start \in 0 .. now, Spend(ms, start)
    PROVE  last' \in [Market -> {Never} \cup 0 .. now]
BY DEF Spend, ClockInv

LEMMA ClockStep ==
    ASSUME ClockInv, SearchInv, [LabelsNext]_labelsVars
    PROVE  ClockInv'
<1>0. /\ Backoff \in Nat /\ LabelPoll \in Nat /\ MaxBackoff \in Nat /\ Backoff <= MaxBackoff
      /\ CalibrationPoll \in Nat /\ Retry \in Nat
      /\ now \in Nat /\ MaxTime \in Nat
    BY LabelsAssumption DEF ClockInv
<1>1. ASSUME NEW t \in Token, NEW p \in Prices \cup {0}, Move(t, p) PROVE ClockInv'
    <2>1. mid' \in [Token -> Prices \cup {0}]
        BY <1>1 DEF Move, ClockInv
    <2>2. UNCHANGED <<now, tradable, labelIn, backoff, search, scanIn, last, closedAt>>
        BY <1>1 DEF Move, labeler, scanner
    <2>3. QED BY <2>1, <2>2 DEF ClockInv
<1>2. ASSUME NEW m \in Market, Close(m) PROVE ClockInv'
    <2>1. UNCHANGED <<now, mid, labelIn, backoff, search, scanIn, last>>
        BY <1>2 DEF Close, labeler, scanner
    <2>2. tradable' = tradable \ {m} /\ closedAt' = [closedAt EXCEPT ![m] = now]
        BY <1>2 DEF Close
    <2>3. /\ closedAt' \in [Market -> {Never} \cup 0 .. now]
          /\ \A n \in tradable' : closedAt'[n] = Never
        BY <1>0, <2>2 DEF ClockInv
    <2>4. QED BY <2>1, <2>2, <2>3 DEF ClockInv
<1>3. ASSUME NEW legs, OtherSignal(legs) PROVE ClockInv'
    BY <1>3 DEF OtherSignal, scanner, ClockInv
<1>4. CASE Tick
    <2>1. /\ now' = now + 1 /\ now < MaxTime /\ labelIn' = labelIn - 1 /\ labelIn > 0
          /\ scanIn' = scanIn \/ (scanIn' = scanIn - 1 /\ scanIn > 0)
          /\ UNCHANGED <<mid, tradable, closedAt, backoff, search, last>>
        BY <1>4 DEF Tick, outside
    <2>2. labelIn' \in 0 .. (IF LabelPoll > MaxBackoff THEN LabelPoll ELSE MaxBackoff)
        BY <1>0, <2>1 DEF ClockInv
    <2>3. scanIn' \in 0 .. (IF CalibrationPoll > Retry THEN CalibrationPoll ELSE Retry)
        BY <1>0, <2>1 DEF ClockInv
    <2>4. now' \in 0 .. MaxTime /\ 0 .. now \subseteq 0 .. now'
        BY <1>0, <2>1 DEF ClockInv
    <2>5. /\ last' \in [Market -> {Never} \cup 0 .. now']
          /\ closedAt' \in [Market -> {Never} \cup 0 .. now']
        BY <2>1, <2>4 DEF ClockInv
    <2>6. QED BY <2>1, <2>2, <2>3, <2>4, <2>5 DEF ClockInv
<1>5. CASE LabelPass \/ LabelPassFails
    <2>1. UNCHANGED <<now, mid, tradable, closedAt, search, scanIn, last>>
        BY <1>5 DEF LabelPass, LabelPassFails, outside, scanner
    <2>2. /\ labelIn' \in {LabelPoll, backoff}
          /\ backoff' \in {Backoff, 2 * backoff, MaxBackoff}
          /\ backoff' = 2 * backoff => 2 * backoff <= MaxBackoff
        BY <1>0, <1>5 DEF LabelPass, LabelPassFails, ClockInv
    <2>3. QED BY <1>0, <2>1, <2>2 DEF ClockInv
<1>6. ASSUME scanIn' \in {scanIn, CalibrationPoll, Retry},
             last' \in [Market -> {Never} \cup 0 .. now],
             UNCHANGED <<now, mid, tradable, closedAt, labelIn, backoff, search>>
      PROVE  ClockInv'
    <2>1. scanIn' \in 0 .. (IF CalibrationPoll > Retry THEN CalibrationPoll ELSE Retry)
        BY <1>0, <1>6 DEF ClockInv
    <2>2. QED BY <1>6, <2>1 DEF ClockInv
<1>7. last \in [Market -> {Never} \cup 0 .. now] /\ now \in 0 .. now /\ passNow \in 0 .. now
    BY <1>0 DEF ClockInv, SearchInv
<1>8. \A ms, start : Continue(ms, start) => scanIn' \in {scanIn, CalibrationPoll, Retry}
    BY DEF Continue
<1>9. CASE StartSearching
    BY <1>6, <1>7, <1>8, <1>9 DEF StartSearching, Rest
<1>10. CASE ScanAtOnce
    <2>1. \E ms : Spend(ms, now)
        BY <1>10 DEF ScanAtOnce
    <2>2. last' \in [Market -> {Never} \cup 0 .. now]
        BY <1>7, <2>1, SpendKeeps
    <2>3. QED BY <1>6, <1>10, <2>2 DEF ScanAtOnce, Rest
<1>11. ASSUME NEW a, SearchAnswers(a) PROVE ClockInv'
    <2>1. last' = last \/ \E ms : Spend(ms, passNow)
        BY <1>11 DEF SearchAnswers
    <2>2. last' \in [Market -> {Never} \cup 0 .. now]
        BY <1>7, <2>1, SpendKeeps
    <2>3. scanIn' \in {scanIn, CalibrationPoll, Retry}
        BY <1>8, <1>11 DEF SearchAnswers, Abort
    <2>4. UNCHANGED <<now, mid, tradable, closedAt, labelIn, backoff, search>>
        BY <1>11 DEF SearchAnswers, Rest
    <2>5. QED BY <1>6, <2>2, <2>3, <2>4
<1>12. CASE SearchRaises
    BY <1>6, <1>7, <1>12 DEF SearchRaises, Abort, Rest
<1>13. CASE UNCHANGED labelsVars
    BY <1>6, <1>7, <1>13 DEF labelsVars
<1>14. CASE EngineRestarts
    <2>1. /\ now' \in 0 .. MaxTime /\ 0 .. now \subseteq 0 .. now'
          /\ labelIn' = 0 /\ scanIn' = 0 /\ backoff' = Backoff /\ search' \in BOOLEAN
          /\ UNCHANGED <<tradable, closedAt>>
        BY <1>0, <1>14 DEF EngineRestarts
    <2>2. mid' \in [Token -> Prices \cup {0}] /\ last' \in [Market -> {Never} \cup 0 .. now']
        BY <1>14 DEF EngineRestarts
    <2>3. closedAt' \in [Market -> {Never} \cup 0 .. now']
        BY <2>1 DEF ClockInv
    <2>4. /\ labelIn' \in 0 .. (IF LabelPoll > MaxBackoff THEN LabelPoll ELSE MaxBackoff)
          /\ scanIn' \in 0 .. (IF CalibrationPoll > Retry THEN CalibrationPoll ELSE Retry)
          /\ backoff' \in Backoff .. MaxBackoff
        BY <1>0, <2>1
    <2>5. QED BY <2>1, <2>2, <2>3, <2>4 DEF ClockInv
<1>15. QED BY <1>1, <1>2, <1>3, <1>4, <1>5, <1>9, <1>10, <1>11, <1>12, <1>13, <1>14
           DEF LabelsNext

\* The bound of a pass when it goes on to one of fewer markets.
LEMMA LaterSearch ==
    ASSUME NEW t \in Nat, NEW n \in Nat, NEW c \in Nat, NEW d \in Nat, d < c, c < n
    PROVE  t * (n - c - 1) + t <= t * (n - d - 1) /\ t * (n - d - 1) \in Nat
<1>1. PICK k \in Nat : c = d + 1 + k
    <2>1. c - d - 1 \in Nat /\ c = d + 1 + (c - d - 1)
        OBVIOUS
    <2>2. QED BY <2>1
<1>2. PICK l \in Nat : n = c + 1 + l
    <2>1. n - c - 1 \in Nat /\ n = c + 1 + (n - c - 1)
        OBVIOUS
    <2>2. QED BY <2>1
<1>3. n - c - 1 = l /\ n - d - 1 = l + 1 + k
    BY <1>1, <1>2
<1>4. t * (l + 1 + k) = t * l + t + t * k /\ t * l \in Nat /\ t * k \in Nat
    OBVIOUS
<1>5. QED BY <1>3, <1>4

\* What a pass does to its searches: nothing is held, or the next market is one of those
\* that were to come, and the pass took one more search.
LEMMA SearchGoesOn ==
    ASSUME ClockInv, NEW ms \in SUBSET Market, NEW start \in 0 .. now, Continue(ms, start),
           now' = now, passNow' = start, search' = TRUE, closedAt' = closedAt,
           \A m \in ms : closedAt[m] = Never \/ closedAt[m] >= start,
           Cardinality(ms) <= Len(Markets),
           \A d \in Nat : d < Cardinality(ms)
               => now - start <= SearchTime * (Len(Markets) - d - 1)
    PROVE  SearchInv'
<1>1. CASE held' = Nothing /\ upcoming' = {}
    BY <1>1 DEF SearchInv
<1>2. CASE \E m \in ms :
               /\ Candidate(m, start)
               /\ held' = [market |-> m, price |-> mid[TokenYes[m]], waited |-> 0]
               /\ mid[TokenYes[m]] \in Prices
               /\ shown' = {mid[TokenYes[m]]}
               /\ upcoming' \subseteq ms
               /\ Cardinality(upcoming') < Cardinality(ms)
    <2>1. PICK m \in ms :
              /\ Candidate(m, start)
              /\ held' = [market |-> m, price |-> mid[TokenYes[m]], waited |-> 0]
              /\ mid[TokenYes[m]] \in Prices
              /\ shown' = {mid[TokenYes[m]]}
              /\ upcoming' \subseteq ms
              /\ Cardinality(upcoming') < Cardinality(ms)
        BY <1>2
    <2>2. /\ SearchTime \in Nat
          /\ held'.waited = 0 /\ held'.market = m /\ held'.price = mid[TokenYes[m]]
        BY <2>1, LabelsAssumption
    <2>3. held' \in [market : Market, price : Prices, waited : 0 .. SearchTime]
        BY <2>1, <2>2
    <2>4. Cardinality(upcoming') \in Nat /\ Cardinality(ms) \in Nat /\ Len(Markets) \in Nat
        BY <2>1, MarketsCounted, FS_Subset, FS_CardinalityType
    <2>5. /\ now - start <= SearchTime * (Len(Markets) - Cardinality(upcoming') - 1)
          /\ SearchTime * (Len(Markets) - Cardinality(upcoming') - 1) \in Int
        BY <2>1, <2>2, <2>4
    <2>6. now' - passNow'
              <= SearchTime * (Len(Markets) - Cardinality(upcoming') - 1) + held'.waited
        BY <2>2, <2>5
    <2>7. EndsAt[m] - passNow' >= MinTtm /\ OpenAtStart(m)' /\ \A n \in upcoming' : OpenAtStart(n)'
        BY <2>1 DEF Candidate, OpenAtStart
    <2>8. held' # Nothing => held'.price \in shown'
        BY <2>1, <2>2
    <2>9. Cardinality(upcoming') < Len(Markets)
        BY <2>1, <2>4
    <2>10. upcoming' \subseteq Market /\ passNow' \in 0 .. now'
        BY <2>1
    <2>11. held' # Nothing
        <3>1. Nothing.market = NoMarket /\ NoMarket \notin Market
            BY LabelsAssumption DEF Nothing
        <3>2. QED BY <2>2, <3>1
    <2>12. QED BY <2>2, <2>3, <2>6, <2>7, <2>8, <2>9, <2>10, <2>11 DEF SearchInv
<1>3. QED BY <1>1, <1>2, ContinueKeeps

LEMMA SearchStep ==
    ASSUME ClockInv, SearchInv, [LabelsNext]_labelsVars
    PROVE  SearchInv'
<1>0. /\ now \in Nat /\ SearchTime \in Nat /\ passNow \in 0 .. now /\ Len(Markets) \in Nat
      /\ upcoming \subseteq Market /\ Cardinality(upcoming) \in Nat
    <2>1. now \in Nat /\ SearchTime \in Nat /\ passNow \in 0 .. now /\ upcoming \subseteq Market
        BY LabelsAssumption DEF ClockInv, SearchInv
    <2>2. Cardinality(upcoming) \in Nat
        BY <2>1, MarketsCounted, FS_Subset, FS_CardinalityType
    <2>3. QED BY <2>1, <2>2, MarketsCounted
<1>1. ASSUME NEW t \in Token, NEW p \in Prices \cup {0}, Move(t, p) PROVE SearchInv'
    <2>1. UNCHANGED <<now, search, upcoming, passNow, held, closedAt>> /\ shown \subseteq shown'
        BY <1>1 DEF Move, scanner
    <2>2. QED BY <2>1 DEF SearchInv, OpenAtStart
<1>2. ASSUME NEW m \in Market, Close(m) PROVE SearchInv'
    <2>1. UNCHANGED <<now, search, upcoming, passNow, held, shown>>
        BY <1>2 DEF Close, scanner
    <2>2. closedAt' = [closedAt EXCEPT ![m] = now] /\ closedAt \in [Market -> {Never} \cup 0 .. now]
        BY <1>2 DEF Close, ClockInv
    <2>3. ASSUME NEW n \in Market, OpenAtStart(n) PROVE OpenAtStart(n)'
        <3>1. closedAt'[n] \in {now, closedAt[n]}
            BY <2>2
        <3>2. QED BY <1>0, <2>1, <2>3, <3>1 DEF OpenAtStart
    <2>4. held # Nothing => held.market \in Market
        BY DEF SearchInv
    <2>5. QED BY <1>0, <2>1, <2>3, <2>4 DEF SearchInv
<1>3. ASSUME UNCHANGED <<now, search, upcoming, passNow, held, shown, closedAt>> PROVE SearchInv'
    BY <1>3 DEF SearchInv, OpenAtStart
<1>4. CASE Tick
    <2>1. /\ now' = now + 1
          /\ UNCHANGED <<search, upcoming, passNow, shown, closedAt>>
          /\ held = Nothing => held' = held
          /\ held # Nothing => /\ held' = [held EXCEPT !.waited = @ + 1]
                               /\ held.waited < SearchTime
        BY <1>4 DEF Tick, MayWait, outside
    <2>2. CASE held = Nothing
        BY <1>0, <2>1, <2>2 DEF SearchInv
    <2>3. CASE held # Nothing
        <3>1. held \in [market : Market, price : Prices, waited : 0 .. SearchTime]
            BY <2>3 DEF SearchInv
        <3>2. /\ held' \in [market : Market, price : Prices, waited : 0 .. SearchTime]
              /\ held'.market = held.market /\ held'.price = held.price
              /\ held'.waited = held.waited + 1
            BY <1>0, <2>1, <2>3, <3>1
        <3>3. /\ now - passNow
                     <= SearchTime * (Len(Markets) - Cardinality(upcoming) - 1) + held.waited
              /\ SearchTime * (Len(Markets) - Cardinality(upcoming) - 1) \in Int
              /\ held.waited \in Nat
            BY <1>0, <2>3, <3>1 DEF SearchInv
        <3>4. now' - passNow'
                  <= SearchTime * (Len(Markets) - Cardinality(upcoming') - 1) + held'.waited
            <4>1. PICK b \in Int :
                      /\ b = SearchTime * (Len(Markets) - Cardinality(upcoming) - 1)
                      /\ now - passNow <= b + held.waited
                BY <3>3, Zenon
            <4>2. /\ now' = now + 1 /\ passNow' = passNow /\ held'.waited = held.waited + 1
                  /\ upcoming' = upcoming
                BY <2>1, <3>2
            <4>3. now' - passNow' <= b + held'.waited
                BY <1>0, <3>3, <4>1, <4>2
            <4>4. b = SearchTime * (Len(Markets) - Cardinality(upcoming') - 1)
                BY <4>1, <4>2, Zenon
            <4>5. QED BY <4>3, <4>4, Zenon
        <3>5. held' # Nothing
            BY <3>2, LabelsAssumption DEF Nothing
        <3>6. passNow' \in 0 .. now' /\ \A m : OpenAtStart(m) => OpenAtStart(m)'
            BY <1>0, <2>1 DEF OpenAtStart
        <3>7. QED BY <2>1, <2>3, <3>2, <3>4, <3>5, <3>6 DEF SearchInv
    <2>4. QED BY <2>2, <2>3
<1>5. CASE StartSearching
    <2>1. /\ Continue(tradable, now) /\ now' = now /\ passNow' = now /\ search' = TRUE
          /\ closedAt' = closedAt
        BY <1>5 DEF StartSearching, Rest, ClockInv
    <2>2. /\ tradable \in SUBSET Market
          /\ Cardinality(tradable) <= Len(Markets) /\ Cardinality(tradable) \in Nat
        <3>1. tradable \in SUBSET Market
            BY DEF ClockInv
        <3>2. Cardinality(tradable) <= Cardinality(Market) /\ Cardinality(tradable) \in Nat
            BY <3>1, MarketsCounted, FS_Subset, FS_CardinalityType
        <3>3. QED BY <3>1, <3>2, MarketsCounted
    <2>3. ASSUME NEW d \in Nat, d < Cardinality(tradable)
          PROVE  now - now <= SearchTime * (Len(Markets) - d - 1)
        <3>1. Len(Markets) - d - 1 \in Nat /\ now - now = 0
            BY <1>0, <2>2, <2>3
        <3>2. \A u, v \in Nat : 0 <= u * v
            OBVIOUS
        <3>3. QED BY <1>0, <3>1, <3>2
    <2>4. \A m \in tradable : closedAt[m] = Never \/ closedAt[m] >= now
        BY DEF ClockInv
    <2>5. QED BY <1>0, <2>1, <2>2, <2>3, <2>4, SearchGoesOn
<1>6. CASE ScanAtOnce
    <2>1. UNCHANGED <<now, held, upcoming>> /\ held = Nothing /\ passNow' = now
        BY <1>6 DEF ScanAtOnce, Rest, Due
    <2>2. QED BY <1>0, <2>1 DEF SearchInv
<1>7. ASSUME held' = Nothing, upcoming' = {}, UNCHANGED <<now, passNow>> PROVE SearchInv'
    BY <1>0, <1>7 DEF SearchInv
<1>8. ASSUME NEW a, SearchAnswers(a) PROVE SearchInv'
    <2>1. UNCHANGED <<now, passNow, search, closedAt>> /\ held # Nothing
        BY <1>8 DEF SearchAnswers, Rest
    <2>2. CASE Continue(upcoming, passNow)
        <3>1. /\ search = TRUE
              /\ \A m \in upcoming : closedAt[m] = Never \/ closedAt[m] >= passNow
              /\ Cardinality(upcoming) < Len(Markets)
              /\ held.waited \in 0 .. SearchTime
              /\ now - passNow
                     <= SearchTime * (Len(Markets) - Cardinality(upcoming) - 1) + held.waited
            BY <2>1 DEF SearchInv, OpenAtStart
        <3>2. ASSUME NEW d \in Nat, d < Cardinality(upcoming)
              PROVE  now - passNow <= SearchTime * (Len(Markets) - d - 1)
            <4>1. SearchTime * (Len(Markets) - Cardinality(upcoming) - 1) \in Int
                BY <1>0
            <4>2. /\ SearchTime * (Len(Markets) - Cardinality(upcoming) - 1) + SearchTime
                         <= SearchTime * (Len(Markets) - d - 1)
                  /\ SearchTime * (Len(Markets) - d - 1) \in Nat
                BY <1>0, <3>1, <3>2, LaterSearch
            <4>3. QED BY <1>0, <3>1, <4>1, <4>2
        <3>3. upcoming \in SUBSET Market /\ Cardinality(upcoming) <= Len(Markets)
            BY <1>0, <3>1
        <3>4. now' = now /\ passNow' = passNow /\ search' = TRUE /\ closedAt' = closedAt
            BY <2>1, <3>1
        <3>5. QED BY <1>0, <2>2, <3>1, <3>2, <3>3, <3>4, SearchGoesOn
    <2>3. CASE Abort
        BY <1>7, <2>1, <2>3 DEF Abort
    <2>4. QED BY <1>8, <2>2, <2>3 DEF SearchAnswers
<1>9. CASE SearchRaises
    BY <1>7, <1>9 DEF SearchRaises, Abort, Rest
<1>10. ASSUME NEW legs, OtherSignal(legs) PROVE SearchInv'
    BY <1>3, <1>10 DEF OtherSignal, scanner
<1>11. CASE LabelPass \/ LabelPassFails
    BY <1>3, <1>11 DEF LabelPass, LabelPassFails, outside, scanner
<1>12. CASE UNCHANGED labelsVars
    BY <1>3, <1>12 DEF labelsVars
<1>13. CASE EngineRestarts
    <2>1. /\ held' = Nothing /\ upcoming' = {} /\ passNow' = passNow
          /\ now' \in Nat /\ now <= now'
        BY <1>0, <1>13, LabelsAssumption DEF EngineRestarts
    <2>2. QED BY <1>0, <2>1 DEF SearchInv
<1>14. QED BY <1>1, <1>2, <1>4, <1>5, <1>6, <1>8, <1>9, <1>10, <1>11, <1>12, <1>13
           DEF LabelsNext

----------------------------------------------------------------------------
(***************************************************************************)
(* The rows.                                                               *)
(***************************************************************************)

\* A step that adds rows leaves those of the log as they are, and puts new ones behind.
LEMMA AddsBehind ==
    ASSUME RowsInv, Adds
    PROVE  /\ Len(log) \in Nat /\ Len(log') \in Nat /\ Len(log') >= Len(log)
           /\ IsSequence(log')
           /\ good' \in Seq(Nat) /\ Len(good') = Len(log')
           /\ \A i \in 1 .. Len(log) : log'[i] = log[i] /\ good'[i] = good[i]
           /\ \A i \in Len(log) + 1 .. Len(log') : Fresh(log'[i]) /\ good'[i] = 0
           /\ \A i, j \in Len(log) + 1 .. Len(log') :
                  IsCalibration(log'[i]) /\ log'[i].market = log'[j].market => i = j
           /\ \A m \in Market : last[m] # Never => last'[m] # Never /\ last'[m] >= last[m]
           /\ now' = now
<1>1. PICK rows :
          /\ IsSequence(rows)
          /\ Write(rows)
          /\ \A k \in 1 .. Len(rows) : Fresh(rows[k])
          /\ \A k, l \in 1 .. Len(rows) :
                 IsCalibration(rows[k]) /\ rows[k].market = rows[l].market => k = l
    BY DEF Adds
<1>2. /\ Len(log) \in Nat /\ Len(rows) \in Nat
      /\ IsSequence(log') /\ good' \in Seq(Nat)
      /\ Len(log') = Len(log) + Len(rows) /\ Len(good') = Len(log')
      /\ \A i \in 1 .. Len(log) : log'[i] = log[i] /\ good'[i] = good[i]
      /\ \A i \in 1 .. Len(rows) : log'[Len(log) + i] = rows[i] /\ good'[Len(log) + i] = 0
    BY <1>1, WriteAppends DEF RowsInv
<1>3. ASSUME NEW i \in Len(log) + 1 .. Len(log')
      PROVE  /\ i - Len(log) \in 1 .. Len(rows)
             /\ log'[i] = rows[i - Len(log)] /\ good'[i] = 0
    <2>1. i - Len(log) \in 1 .. Len(rows) /\ Len(log) + (i - Len(log)) = i
        BY <1>2
    <2>2. QED BY <1>2, <2>1
<1>4. \A i \in Len(log) + 1 .. Len(log') : Fresh(log'[i]) /\ good'[i] = 0
    BY <1>1, <1>3
<1>5. ASSUME NEW i \in Len(log) + 1 .. Len(log'), NEW j \in Len(log) + 1 .. Len(log'),
             IsCalibration(log'[i]), log'[i].market = log'[j].market
      PROVE  i = j
    <2>1. i - Len(log) = j - Len(log)
        BY <1>1, <1>3, <1>5
    <2>2. QED BY <1>2, <2>1
<1>6. QED BY <1>2, <1>4, <1>5 DEF Adds

\* A step of the labeler changes outcomes only, to one that was measured.
LEMMA MarksOutcomes ==
    ASSUME RowsInv, NEW rows \in SUBSET {i \in Selected : Live(i)}, Label(rows)
    PROVE  /\ Len(log) \in Nat /\ IsSequence(log') /\ Len(log') = Len(log)
           /\ rows \subseteq Waiting
           /\ \A i \in 1 .. Len(log) :
                  /\ i \notin rows => log'[i] = log[i]
                  /\ i \in rows => log'[i].outcome # NoOutcome
                  /\ DOMAIN log'[i] = DOMAIN log[i]
                  /\ \A f \in Field \ {"outcome"} : log'[i][f] = log[i][f]
<1>1. Len(log) \in Nat
    BY DEF RowsInv, IsSequence
<1>2. log' = [i \in 1 .. Len(log) |->
                 IF i \in rows THEN [log[i] EXCEPT !.outcome = Outcome(i)] ELSE log[i]]
    BY DEF Label
<1>3. IsSequence(log') /\ Len(log') = Len(log)
    <2> DEFINE S == {log'[i] : i \in 1 .. Len(log)}
    <2>1. DOMAIN log' = 1 .. Len(log) /\ log' \in [1 .. Len(log) -> S]
        BY <1>2
    <2> HIDE DEF S
    <2>2. log' \in Seq(S) /\ Len(log') = Len(log)
        BY <1>1, <2>1
    <2>3. QED BY <2>2 DEF IsSequence
<1>4. rows \subseteq Waiting /\ Waiting \subseteq 1 .. Len(log)
    BY DEF Selected, Waiting
<1>5. ASSUME NEW i \in 1 .. Len(log), i \in rows
      PROVE  /\ log'[i].outcome # NoOutcome
             /\ DOMAIN log'[i] = DOMAIN log[i]
             /\ \A f \in Field \ {"outcome"} : log'[i][f] = log[i][f]
    <2>1. DOMAIN log[i] = Field /\ Len(log[i].legs) \in Nat \ {0}
        BY DEF RowsInv
    <2>2. log'[i] = [log[i] EXCEPT !.outcome = Outcome(i)]
        BY <1>2, <1>5
    <2>3. log'[i].outcome = Outcome(i)
        BY <2>1, <2>2 DEF Field
    <2>4. Priced(i) \subseteq 1 .. Len(log[i].legs) /\ Cardinality(Priced(i)) \in Nat
        <3>1. Priced(i) \subseteq 1 .. Len(log[i].legs)
            BY DEF Priced
        <3>2. IsFiniteSet(1 .. Len(log[i].legs))
            <4>1. 1 \in Int /\ Len(log[i].legs) \in Int
                BY <2>1
            <4>2. QED BY <4>1, FS_Interval
        <3>3. QED BY <3>1, <3>2, FS_Subset, FS_CardinalityType
    <2>5. 2 * Cardinality(Priced(i)) >= Len(log[i].legs)
        BY <1>5 DEF Live
    <2>6. Cardinality(Priced(i)) # 0
        BY <2>1, <2>4, <2>5
    <2>7. Outcome(i) # NoOutcome
        <3>1. Outcome(i).legs = Cardinality(Priced(i)) /\ NoOutcome.legs = 0
            BY DEF Outcome, NoOutcome
        <3>2. QED BY <2>6, <3>1
    <2>8. DOMAIN log'[i] = DOMAIN log[i] /\ \A f \in Field \ {"outcome"} : log'[i][f] = log[i][f]
        BY <2>1, <2>2
    <2>9. QED BY <2>3, <2>7, <2>8
<1>6. \A i \in 1 .. Len(log) : i \notin rows => log'[i] = log[i]
    BY <1>2
<1>7. QED BY <1>1, <1>3, <1>4, <1>5, <1>6

LEMMA RowsStep ==
    ASSUME ClockInv, SearchInv, RowsInv, [LabelsNext]_labelsVars
    PROVE  RowsInv'
<1>0. /\ now \in Nat /\ PassTime \in Nat /\ Len(log) \in Nat
      /\ last \in [Market -> {Never} \cup 0 .. now]
    <2>1. now \in Nat /\ last \in [Market -> {Never} \cup 0 .. now]
        BY LabelsAssumption DEF ClockInv
    <2>2. Len(log) \in Nat
        BY DEF RowsInv, IsSequence
    <2>3. QED BY <2>1, <2>2, PassTimeIsNat
<1>1. CASE earlier' = earlier /\ Adds
    <2>1. /\ Len(log') \in Nat /\ Len(log') >= Len(log)
          /\ IsSequence(log')
          /\ good' \in Seq(Nat) /\ Len(good') = Len(log')
          /\ \A i \in 1 .. Len(log) : log'[i] = log[i]
          /\ \A i \in Len(log) + 1 .. Len(log') : Fresh(log'[i])
          /\ \A m \in Market : last[m] # Never => last'[m] # Never /\ last'[m] >= last[m]
          /\ now' = now
        BY <1>1, AddsBehind
    <2>2. last' \in [Market -> {Never} \cup 0 .. now]
        BY <2>1, ClockStep DEF ClockInv
    <2>3. ASSUME NEW i \in 1 .. Len(log')
          PROVE  /\ DOMAIN log'[i] = Field
                 /\ log'[i].ts \in 0 .. now
                 /\ Len(log'[i].legs) \in Nat \ {0}
                 /\ i > Len(log) => log'[i].ts = now
        <3>1. CASE i \in 1 .. Len(log)
            <4>1. /\ DOMAIN log[i] = Field /\ log[i].ts \in 0 .. now
                  /\ Len(log[i].legs) \in Nat \ {0} /\ log'[i] = log[i] /\ ~ (i > Len(log))
                BY <1>0, <2>1, <3>1 DEF RowsInv
            <4>2. QED BY <4>1
        <3>2. CASE i \notin 1 .. Len(log)
            <4>1. Fresh(log'[i])
                BY <1>0, <2>1, <3>2
            <4>2. QED BY <1>0, <4>1 DEF Fresh
        <3>3. QED BY <3>1, <3>2
    <2>4. ASSUME NEW i \in 1 .. Len(log'), IsCalibration(log'[i])
          PROVE  /\ log'[i].market \in Market
                 /\ i > earlier' =>
                        /\ last'[log'[i].market] # Never
                        /\ log'[i].ts <= last'[log'[i].market] + PassTime
        <3> DEFINE m == log'[i].market
        <3>1. CASE i \in 1 .. Len(log)
            <4>1. /\ m \in Market
                  /\ i > earlier => last[m] # Never /\ log[i].ts <= last[m] + PassTime
                BY <2>1, <2>4, <3>1 DEF RowsInv
            <4>2. log'[i].ts = log[i].ts /\ log[i].ts \in 0 .. now
                BY <2>1, <3>1 DEF RowsInv
            <4>3. last[m] # Never => last'[m] # Never /\ last'[m] >= last[m]
                BY <2>1, <4>1
            <4>4. /\ last[m] # Never => last[m] \in Int
                  /\ last'[m] # Never => last'[m] \in Int
                BY <1>0, <2>2, <4>1 DEF Never
            <4>5. QED BY <1>0, <1>1, <4>1, <4>2, <4>3, <4>4
        <3>2. CASE i \notin 1 .. Len(log)
            <4>1. Fresh(log'[i])
                BY <1>0, <2>1, <3>2
            <4>2. PICK start : TimelyOf(m, start)
                BY <2>4, <4>1 DEF Fresh
            <4>3. /\ m \in Market /\ start \in 0 .. now /\ now - start <= PassTime
                  /\ last'[m] = start /\ log'[i].ts = now
                BY <4>1, <4>2 DEF TimelyOf, Fresh
            <4>4. QED BY <1>0, <4>3 DEF Never
        <3>3. QED BY <3>1, <3>2
    <2>5. ASSUME NEW i \in 1 .. Len(log') - 1 PROVE log'[i].ts <= log'[i + 1].ts
        <3>1. CASE i + 1 <= Len(log)
            <4>1. i \in 1 .. Len(log) - 1 /\ i \in 1 .. Len(log) /\ i + 1 \in 1 .. Len(log)
                BY <1>0, <2>1, <3>1
            <4>2. QED BY <2>1, <4>1 DEF RowsInv
        <3>2. CASE ~ (i + 1 <= Len(log))
            <4>1. i \in 1 .. Len(log') /\ i + 1 \in 1 .. Len(log') /\ i + 1 > Len(log)
                BY <1>0, <2>1, <3>2
            <4>2. QED BY <1>0, <2>3, <4>1
        <3>3. QED BY <3>1, <3>2
    <2>6. earlier' \in 0 .. Len(log')
        BY <1>0, <1>1, <2>1 DEF RowsInv
    <2>7. QED BY <2>1, <2>3, <2>4, <2>5, <2>6 DEF RowsInv
<1>2. CASE earlier' = earlier /\ Marks
    <2>1. PICK rows \in SUBSET {i \in Selected : Live(i)} :
              Label(rows) /\ now' = now /\ last' = last /\ Len(good') = Len(good)
              /\ (good' = good
                  \/ good' = [i \in 1 .. Len(log) |->
                         IF CouldLabel(i) THEN good[i] + 1 ELSE good[i]])
        BY <1>2 DEF Marks
    <2>2. /\ IsSequence(log') /\ Len(log') = Len(log)
          /\ \A i \in 1 .. Len(log) :
                 /\ DOMAIN log'[i] = DOMAIN log[i]
                 /\ \A f \in Field \ {"outcome"} : log'[i][f] = log[i][f]
        BY <2>1, MarksOutcomes
    <2>3. \A i \in 1 .. Len(log) :
              log'[i].ts = log[i].ts /\ log'[i].legs = log[i].legs /\ log'[i].market = log[i].market
        BY <2>2 DEF Field
    <2>4. good' \in Seq(Nat)
        <3>1. \A i \in 1 .. Len(log) : good[i] \in Nat /\ good[i] + 1 \in Nat
            BY DEF RowsInv
        <3>2. CASE good' = [i \in 1 .. Len(log) |-> IF CouldLabel(i) THEN good[i] + 1 ELSE good[i]]
            <4>1. good' \in [1 .. Len(log) -> Nat]
                BY <3>1, <3>2
            <4>2. QED BY <1>0, <4>1
        <3>3. QED BY <2>1, <3>2 DEF RowsInv
    <2>5. ASSUME NEW i \in 1 .. Len(log') - 1 PROVE log'[i].ts <= log'[i + 1].ts
        <3>1. i \in 1 .. Len(log) - 1 /\ i \in 1 .. Len(log) /\ i + 1 \in 1 .. Len(log)
            BY <1>0, <2>2
        <3>2. QED BY <2>3, <3>1 DEF RowsInv
    <2>6. ASSUME NEW i \in 1 .. Len(log')
          PROVE  /\ DOMAIN log'[i] = Field
                 /\ log'[i].ts \in 0 .. now
                 /\ Len(log'[i].legs) \in Nat \ {0}
                 /\ IsCalibration(log'[i]) =>
                        LET m == log'[i].market
                        IN  /\ m \in Market
                            /\ i > earlier => last[m] # Never /\ log'[i].ts <= last[m] + PassTime
        BY <2>2, <2>3 DEF RowsInv, IsCalibration
    <2>7. Len(good') = Len(log')
        BY <2>1, <2>2 DEF RowsInv
    <2>8. earlier' \in 0 .. Len(log')
        BY <1>2, <2>2 DEF RowsInv
    <2>9. QED BY <1>2, <2>1, <2>2, <2>4, <2>5, <2>6, <2>7, <2>8 DEF RowsInv
<1>3. CASE earlier' = earlier /\ Keeps
    <2>1. UNCHANGED <<log, good, last>> /\ 0 .. now \subseteq 0 .. now'
        BY <1>0, <1>3 DEF Keeps
    <2>2. QED BY <1>3, <2>1 DEF RowsInv
<1>4. CASE Forgets
    <2>1. /\ UNCHANGED <<log, good>> /\ 0 .. now \subseteq 0 .. now'
          /\ earlier' = Len(log) /\ earlier' \in 0 .. Len(log')
          /\ \A i \in 1 .. Len(log) : ~ (i > earlier')
        BY <1>0, <1>4 DEF Forgets
    <2>2. QED BY <2>1 DEF RowsInv
<1>5. QED BY <1>1, <1>2, <1>3, <1>4, StepKinds

\* The rows before a row are finitely many, and as many as the numbers before it.
LEMMA LabelledCounted ==
    ASSUME NEW i \in Nat \ {0}
    PROVE  /\ IsFiniteSet(Labelled(i)) /\ Cardinality(Labelled(i)) \in 0 .. i - 1
           /\ IsFiniteSet(Older(i)) /\ Cardinality(Older(i)) \in Nat
<1>1. IsFiniteSet(1 .. i - 1) /\ Cardinality(1 .. i - 1) = i - 1
    BY FS_Interval
<1>2. Labelled(i) \subseteq 1 .. i - 1
    BY DEF Labelled
<1>3. Older(i) \subseteq 1 .. i - 1
    BY DEF Older, Waiting
<1>4. /\ IsFiniteSet(Labelled(i))
      /\ Cardinality(Labelled(i)) \in Nat /\ Cardinality(Labelled(i)) <= i - 1
    BY <1>1, <1>2, FS_Subset, FS_CardinalityType
<1>5. IsFiniteSet(Older(i)) /\ Cardinality(Older(i)) \in Nat
    BY <1>1, <1>3, FS_Subset, FS_CardinalityType
<1>6. QED BY <1>4, <1>5

\* Of the rows before one that is left out, one with live books is labelled, unless as
\* many as the LIMIT are dead.
LEMMA OlderIsLabelled ==
    ASSUME RowsInv, NEW i \in 1 .. Len(log), i \notin Selected, CouldLabel(i)
    PROVE  \E j \in Older(i) : j \in Selected /\ Live(j)
<1> DEFINE dead == {j \in Older(i) : ~ Live(j)}
           live == {j \in Older(i) : Live(j)}
<1>1. Len(log) \in Nat /\ i \in Nat \ {0} /\ Batch \in Nat
    BY LabelsAssumption DEF RowsInv, IsSequence
<1>2. IsFiniteSet(Older(i)) /\ Cardinality(Older(i)) \in Nat
    BY <1>1, LabelledCounted
<1>3. i \in Waiting /\ Cardinality(dead) < Batch /\ ~ (Cardinality(Older(i)) < Batch)
    BY DEF Selected, CouldLabel
<1>4. live # {}
    <2>1. live = {} => dead = Older(i)
        OBVIOUS
    <2>2. QED BY <1>3, <2>1
<1>5. live \in SUBSET Nat
    BY <1>1 DEF Older, Waiting
<1>6. PICK j \in live : \A k \in live : j <= k
    BY <1>4, <1>5, LeastNatural
<1>7. j \in Waiting /\ j < i /\ j \in Nat \ {0} /\ Live(j)
    BY <1>1, <1>6 DEF Older, Waiting
<1>8. Older(j) \subseteq dead
    <2>1. ASSUME NEW k \in Older(j) PROVE k \in dead
        <3>1. k \in Waiting /\ k < j /\ k \in Nat
            BY <1>1 DEF Older, Waiting
        <3>2. k \in Older(i)
            BY <1>1, <1>7, <3>1 DEF Older
        <3>3. k \notin live
            BY <1>5, <1>6, <3>1
        <3>4. QED BY <3>2, <3>3
    <2>2. QED BY <2>1
<1>9. Cardinality(Older(j)) < Batch
    <2>1. IsFiniteSet(dead) /\ Cardinality(dead) \in Nat
        BY <1>2, FS_Subset, FS_CardinalityType
    <2>2. Cardinality(Older(j)) <= Cardinality(dead) /\ Cardinality(Older(j)) \in Nat
        BY <1>7, <1>8, <2>1, FS_Subset, LabelledCounted
    <2>3. QED BY <1>1, <1>3, <2>1, <2>2
<1>10. QED BY <1>6, <1>7, <1>9 DEF Selected

LEMMA PassesStep ==
    ASSUME ClockInv, SearchInv, RowsInv, PassesInv, [LabelsNext]_labelsVars
    PROVE  PassesInv'
<1>0. Len(log) \in Nat /\ good \in Seq(Nat) /\ Len(good) = Len(log)
    BY DEF RowsInv, IsSequence
<1>1. CASE Adds
    <2>1. /\ Len(log') \in Nat /\ Len(log') >= Len(log)
          /\ \A i \in 1 .. Len(log) : log'[i] = log[i] /\ good'[i] = good[i]
          /\ \A i \in Len(log) + 1 .. Len(log') : good'[i] = 0
        BY <1>1, AddsBehind
    <2>2. SUFFICES ASSUME NEW i \in 1 .. Len(log'), log'[i].outcome = NoOutcome
                   PROVE  good'[i] <= Cardinality(Labelled(i)')
        BY DEF PassesInv
    <2>3. CASE i \in 1 .. Len(log)
        <3>1. Labelled(i)' = Labelled(i)
            BY <1>0, <2>1, <2>3 DEF Labelled
        <3>2. good'[i] = good[i] /\ log[i].outcome = NoOutcome
            BY <2>1, <2>2, <2>3
        <3>3. QED BY <2>3, <3>1, <3>2 DEF PassesInv
    <2>4. CASE i \notin 1 .. Len(log)
        <3>1. good'[i] = 0 /\ i \in Nat \ {0}
            BY <1>0, <2>1, <2>4
        <3>2. Cardinality(Labelled(i)') \in Nat
            <4>1. Labelled(i)' \subseteq 1 .. i - 1
                BY DEF Labelled
            <4>2. IsFiniteSet(1 .. i - 1)
                BY <3>1, FS_Interval
            <4>3. QED BY <4>1, <4>2, FS_Subset, FS_CardinalityType
        <3>3. QED BY <3>1, <3>2
    <2>5. QED BY <2>3, <2>4
<1>2. CASE Marks
    <2>1. PICK rows \in SUBSET {i \in Selected : Live(i)} :
              /\ Label(rows)
              /\ \/ good' = good
                 \/ /\ rows = {i \in Selected : Live(i)}
                    /\ good' = [i \in 1 .. Len(log) |->
                         IF CouldLabel(i) THEN good[i] + 1 ELSE good[i]]
        BY <1>2 DEF Marks
    <2>2. /\ Len(log') = Len(log) /\ rows \subseteq Waiting
          /\ \A i \in 1 .. Len(log) :
                 /\ i \notin rows => log'[i] = log[i]
                 /\ i \in rows => log'[i].outcome # NoOutcome
        BY <2>1, MarksOutcomes
    <2>3. SUFFICES ASSUME NEW i \in 1 .. Len(log), log'[i].outcome = NoOutcome
                   PROVE  good'[i] <= Cardinality(Labelled(i)')
        BY <2>2 DEF PassesInv
    <2>4. i \notin rows /\ log[i].outcome = NoOutcome /\ good[i] \in Nat /\ i \in Nat \ {0}
        BY <1>0, <2>2, <2>3
    <2>5. good[i] <= Cardinality(Labelled(i)) /\ Cardinality(Labelled(i)) \in Nat
        BY <2>4, LabelledCounted DEF PassesInv
    <2>6. Labelled(i) \subseteq Labelled(i)'
        BY <1>0, <2>2 DEF Labelled
    <2>7. IsFiniteSet(Labelled(i)') /\ Cardinality(Labelled(i)') \in Nat
        <3>1. Labelled(i)' \subseteq 1 .. i - 1
            BY DEF Labelled
        <3>2. IsFiniteSet(1 .. i - 1)
            BY <2>4, FS_Interval
        <3>3. QED BY <3>1, <3>2, FS_Subset, FS_CardinalityType
    <2>8. Cardinality(Labelled(i)) <= Cardinality(Labelled(i)')
        BY <2>6, <2>7, FS_Subset
    <2>9. CASE good'[i] = good[i]
        BY <2>4, <2>5, <2>7, <2>8, <2>9
    <2>10. CASE /\ rows = {j \in Selected : Live(j)} /\ good'[i] = good[i] + 1
                /\ CouldLabel(i)
        <3>1. i \notin Selected
            BY <2>4, <2>10 DEF CouldLabel
        <3>2. PICK j \in Older(i) : j \in Selected /\ Live(j)
            BY <2>10, <3>1, OlderIsLabelled
        <3>3. j \in rows /\ j \in 1 .. i - 1 /\ j \in 1 .. Len(log) /\ log[j].outcome = NoOutcome
            BY <1>0, <2>10, <3>2 DEF Older, Waiting
        <3>4. j \in Labelled(i)' /\ j \notin Labelled(i)
            BY <2>2, <3>3 DEF Labelled
        <3>5. Labelled(i) # Labelled(i)'
            BY <3>4
        <3>6. Cardinality(Labelled(i)) < Cardinality(Labelled(i)')
            <4> DEFINE before == Labelled(i)
                       after == Labelled(i)'
            <4>1. IsFiniteSet(after) /\ before \subseteq after /\ before # after
                BY <2>6, <2>7, <3>5
            <4> HIDE DEF before, after
            <4>2. /\ Cardinality(before) <= Cardinality(after)
                  /\ Cardinality(before) # Cardinality(after)
                BY <4>1, FS_Subset
            <4>3. QED BY <2>5, <2>7, <4>2 DEF before, after
        <3>7. QED BY <2>4, <2>5, <2>7, <2>10, <3>6
    <2>11. QED BY <2>1, <2>9, <2>10
<1>3. CASE Keeps
    BY <1>3 DEF Keeps, PassesInv, Labelled
<1>4. CASE Forgets
    BY <1>4 DEF Forgets, PassesInv, Labelled
<1>5. QED BY <1>1, <1>2, <1>3, <1>4, StepKinds

----------------------------------------------------------------------------
(***************************************************************************)
(* The theorems.                                                           *)
(***************************************************************************)

\* Initially there is no row and nobody searches.
LEMMA LabelsInvInit == ASSUME LabelsInit PROVE LabelsInv
<1>1. /\ LabelPoll \in Nat /\ MaxBackoff \in Nat /\ Backoff \in Nat /\ Backoff <= MaxBackoff
      /\ CalibrationPoll \in Nat /\ Retry \in Nat /\ MaxTime \in Nat
    BY LabelsAssumption
<1>2. ClockInv
    BY <1>1 DEF LabelsInit, ClockInv
<1>3. SearchInv
    BY DEF LabelsInit, SearchInv
<1>4. log = <<>> /\ good = <<>> /\ earlier = 0
    BY DEF LabelsInit
<1>5. <<>> \in Seq({}) /\ <<>> \in Seq(Nat) /\ Len(<<>>) = 0
    OBVIOUS
<1>6. IsSequence(log) /\ Len(log) = 0 /\ good \in Seq(Nat) /\ Len(good) = 0
    BY <1>4, <1>5 DEF IsSequence
<1>7. RowsInv /\ PassesInv
    BY <1>4, <1>6 DEF RowsInv, PassesInv
<1>8. QED BY <1>2, <1>3, <1>7 DEF LabelsInv

LEMMA LabelsInvStep == ASSUME LabelsInv, [LabelsNext]_labelsVars PROVE LabelsInv'
BY ClockStep, SearchStep, RowsStep, PassesStep DEF LabelsInv

\* The inductive invariant holds (labeler.py, calibration_div.py).
THEOREM LabelsInductive == LabelsSpec => []LabelsInv
<1>1. LabelsInit => LabelsInv
    BY LabelsInvInit
<1>2. LabelsInv /\ [LabelsNext]_labelsVars => LabelsInv'
    BY LabelsInvStep
<1>3. QED BY <1>1, <1>2, PTL DEF LabelsSpec

\* Types, the order of signal_log, and what a pass that searches has in its hands
\* (labeler.py, calibration_div.py).
THEOREM LabelsTypeCorrect == LabelsSpec => []LabelsTypeOK
<1>1. ASSUME LabelsInv PROVE LabelsTypeOK
    <2>1. ClockInv /\ SearchInv /\ RowsInv
        BY <1>1 DEF LabelsInv
    <2>2. ASSUME NEW i \in 1 .. Len(log) PROVE log[i].ts \in 0 .. now /\ log[i].legs # <<>>
        <3>1. log[i].ts \in 0 .. now /\ Len(log[i].legs) # 0
            BY <2>1 DEF RowsInv
        <3>2. \A s : Len(s) # 0 => s # <<>>
            OBVIOUS
        <3>3. QED BY <3>1, <3>2, Zenon
    <2>3. DOMAIN good = DOMAIN log
        BY <2>1 DEF RowsInv, IsSequence
    <2>4. held # Nothing => search /\ held.waited \in Nat /\ held.price \in shown
        BY <2>1, LabelsAssumption DEF SearchInv
    <2>5. \A i \in 1 .. Len(log) - 1 : log[i].ts <= log[i + 1].ts
        BY <2>1 DEF RowsInv
    <2>6. passNow \in 0 .. now /\ upcoming \subseteq Market /\ (held = Nothing => upcoming = {})
        BY <2>1 DEF SearchInv
    <2>7. earlier \in 0 .. Len(log)
        BY <2>1 DEF RowsInv
    <2>8. QED BY <2>1, <2>2, <2>3, <2>4, <2>5, <2>6, <2>7 DEF LabelsTypeOK, ClockInv
<1>2. QED BY <1>1, LabelsInductive, PTL

\* Each pass that could have labelled a row labelled one before it, and those are fewer
\* than the row's number (labeler.py, label_once).
THEOREM GoodPassesAreUsed == LabelsSpec => []GoodPassesUsed
<1>1. ASSUME LabelsInv PROVE GoodPassesUsed
    <2>1. SUFFICES ASSUME NEW i \in 1 .. Len(log), log[i].outcome = NoOutcome PROVE good[i] < i
        BY DEF GoodPassesUsed
    <2>2. good[i] <= Cardinality(Labelled(i)) /\ good[i] \in Nat /\ i \in Nat \ {0}
        BY <1>1, <2>1 DEF LabelsInv, RowsInv, PassesInv, IsSequence
    <2>3. Cardinality(Labelled(i)) \in 0 .. i - 1
        BY <2>2, LabelledCounted
    <2>4. QED BY <2>2, <2>3
<1>2. QED BY <1>1, LabelsInductive, PTL

\* A row's outcome comes once and in its window.
LEMMA OutcomesStep ==
    ASSUME LabelsInv, [LabelsNext]_labelsVars
    PROVE  \A i \in 1 .. Len(log) :
               \/ log'[i] = log[i]
               \/ log[i].outcome = NoOutcome /\ Age(i) > Horizon /\ Age(i) < MaxAge
<1>1. ClockInv /\ SearchInv /\ RowsInv
    BY DEF LabelsInv
<1>2. CASE Adds
    BY <1>1, <1>2, AddsBehind
<1>3. CASE Marks
    <2>1. PICK rows \in SUBSET {i \in Selected : Live(i)} : Label(rows)
        BY <1>3 DEF Marks
    <2>2. rows \subseteq Waiting /\ \A i \in 1 .. Len(log) : i \notin rows => log'[i] = log[i]
        BY <1>1, <2>1, MarksOutcomes
    <2>3. QED BY <2>2 DEF Waiting
<1>4. CASE Keeps
    BY <1>4 DEF Keeps
<1>5. CASE Forgets
    BY <1>5 DEF Forgets
<1>6. QED BY <1>1, <1>2, <1>3, <1>4, <1>5, StepKinds

\* A new row of the calibration scanner is about a pass of at most a search per market.
LEMMA CalibrationStep ==
    ASSUME LabelsInv, [LabelsNext]_labelsVars
    PROVE  \A i \in Len(log) + 1 .. Len(log') : IsCalibration(log'[i]) =>
               LET m == log'[i].market
               IN  /\ EndsAt[m] - now >= MinTtm - PassTime
                   /\ closedAt[m] # Never => now - closedAt[m] <= PassTime
                   /\ \A j \in earlier + 1 .. i - 1 :
                          IsCalibration(log'[j]) /\ log'[j].market = m
                              => now - log'[j].ts >= Debounce - PassTime
                   /\ log'[i].legs[1].price \in shown \cup {mid[TokenYes[m]]}
<1>1. ClockInv /\ SearchInv /\ RowsInv
    BY DEF LabelsInv
<1>2. SUFFICES ASSUME NEW i \in Len(log) + 1 .. Len(log'), IsCalibration(log'[i])
               PROVE  LET m == log'[i].market
                      IN  /\ EndsAt[m] - now >= MinTtm - PassTime
                          /\ closedAt[m] # Never => now - closedAt[m] <= PassTime
                          /\ \A j \in earlier + 1 .. i - 1 :
                                 IsCalibration(log'[j]) /\ log'[j].market = m
                                     => now - log'[j].ts >= Debounce - PassTime
                          /\ log'[i].legs[1].price \in shown \cup {mid[TokenYes[m]]}
    OBVIOUS
<1>3. Len(log) \in Nat
    BY <1>1 DEF RowsInv, IsSequence
<1>4. CASE Marks \/ Keeps \/ Forgets
    <2>1. Len(log') = Len(log)
        BY <1>1, <1>4, MarksOutcomes DEF Marks, Keeps, Forgets
    <2>2. QED BY <1>2, <1>3, <2>1
<1>5. CASE Adds
    <2> DEFINE m == log'[i].market
    <2>1. /\ Len(log') \in Nat
          /\ \A j \in 1 .. Len(log) : log'[j] = log[j]
          /\ Fresh(log'[i])
          /\ \A j \in Len(log) + 1 .. Len(log') : log'[i].market = log'[j].market => i = j
        BY <1>1, <1>2, <1>5, AddsBehind
    <2>2. PICK start : TimelyOf(m, start)
        BY <1>2, <2>1 DEF Fresh
    <2>3. /\ now \in Nat /\ PassTime \in Nat /\ MinTtm \in Nat /\ Debounce \in Nat
          /\ m \in Market /\ start \in 0 .. now /\ now - start <= PassTime
          /\ EndsAt[m] \in Nat /\ EndsAt[m] - start >= MinTtm
          /\ closedAt[m] \in {Never} \cup 0 .. now /\ last[m] \in {Never} \cup 0 .. now
          /\ closedAt[m] = Never \/ closedAt[m] >= start
          /\ last[m] = Never \/ start - last[m] >= Debounce
        <3> HIDE DEF m
        <3>1. /\ m \in Market /\ start \in 0 .. now /\ now - start <= PassTime
              /\ EndsAt[m] - start >= MinTtm
              /\ closedAt[m] = Never \/ closedAt[m] >= start
              /\ last[m] = Never \/ start - last[m] >= Debounce
            BY <2>2 DEF TimelyOf
        <3>2. /\ MinTtm \in Nat /\ Debounce \in Nat /\ MaxTime \in Nat
              /\ EndsAt \in [Market -> Nat]
            BY LabelsAssumption
        <3>3. /\ now \in Nat
              /\ closedAt[m] \in {Never} \cup 0 .. now /\ last[m] \in {Never} \cup 0 .. now
            BY <1>1, <3>1, <3>2 DEF ClockInv
        <3>4. EndsAt[m] \in Nat
            BY <3>1, <3>2
        <3>5. QED BY <3>1, <3>2, <3>3, <3>4, PassTimeIsNat
    <2>4. log'[i].legs[1].price \in shown \cup {mid[TokenYes[m]]}
        BY <1>2, <2>1 DEF Fresh
    <2>5. ASSUME NEW j \in earlier + 1 .. i - 1, IsCalibration(log'[j]), log'[j].market = m
          PROVE  now - log'[j].ts >= Debounce - PassTime
        <3>1. j \in 1 .. Len(log) /\ j > earlier
            <4>1. j \in Len(log) + 1 .. Len(log') => j = i
                BY <2>1, <2>5
            <4>2. earlier \in Nat
                BY <1>1, <1>3 DEF RowsInv
            <4>3. QED BY <1>2, <1>3, <2>1, <4>1, <4>2
        <3>2. /\ log'[j] = log[j] /\ log[j].ts \in 0 .. now
              /\ last[m] # Never /\ log[j].ts <= last[m] + PassTime
            BY <1>1, <2>1, <2>5, <3>1 DEF RowsInv
        <3> HIDE DEF m
        <3>3. /\ last[m] \in Int /\ start - last[m] >= Debounce
              /\ now \in Int /\ start \in Int /\ start <= now
              /\ PassTime \in Int /\ Debounce \in Int
            BY <2>3, <3>2
        <3>4. log[j].ts \in Int /\ log[j].ts <= last[m] + PassTime
            BY <2>3, <3>2
        <3>5. start - log[j].ts >= Debounce - PassTime
            BY <3>3, <3>4
        <3>6. now - log[j].ts >= Debounce - PassTime
            BY <3>3, <3>4, <3>5
        <3>7. QED BY <3>2, <3>6
    <2> HIDE DEF m
    <2>6. /\ EndsAt[m] - now >= MinTtm - PassTime
          /\ closedAt[m] # Never => now - closedAt[m] <= PassTime
        BY <2>3 DEF Never
    <2>7. QED BY <2>4, <2>5, <2>6 DEF m
<1>6. QED BY <1>1, <1>4, <1>5, StepKinds

\* A row of signal_log is about the time it bears, and its outcome about a time in the
\* window after it, whatever restarts lie between (labeler.py, label_once;
\* calibration_div.py, _one_pass).
THEOREM RowsAreTimely == LabelsSpec => RowsTimely
<1>1. LabelsInv /\ [LabelsNext]_labelsVars =>
          [\A i \in 1 .. Len(log) :
               \/ log'[i] = log[i]
               \/ log[i].outcome = NoOutcome /\ Age(i) > Horizon /\ Age(i) < MaxAge]_labelsVars
    BY OutcomesStep
<1>2. LabelsInv /\ [LabelsNext]_labelsVars =>
          [\A i \in Len(log) + 1 .. Len(log') : IsCalibration(log'[i]) =>
               LET m == log'[i].market
               IN  /\ EndsAt[m] - now >= MinTtm - PassTime
                   /\ closedAt[m] # Never => now - closedAt[m] <= PassTime
                   /\ \A j \in earlier + 1 .. i - 1 :
                          IsCalibration(log'[j]) /\ log'[j].market = m
                              => now - log'[j].ts >= Debounce - PassTime
                   /\ log'[i].legs[1].price \in shown \cup {mid[TokenYes[m]]}]_labelsVars
    BY CalibrationStep
<1>3. LabelsSpec => OutcomesFinal
    BY <1>1, LabelsInductive, PTL DEF LabelsSpec, OutcomesFinal
<1>4. LabelsSpec => CalibrationRowsTimely
    BY <1>2, LabelsInductive, PTL DEF LabelsSpec, CalibrationRowsTimely
<1>5. QED BY <1>3, <1>4 DEF RowsTimely
=============================================================================
