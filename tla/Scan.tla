-------------------------------- MODULE Scan --------------------------------
(***************************************************************************)
(* The signal scanner (pm/signals/scan_task.py): one task takes book,      *)
(* trade, news and system events from its queue and, per event, looks for  *)
(* structural arbitrage (struct_arb.py), for markets a headline is about   *)
(* (news_signal.py with pm/news/bayesian.py) and for transfers of followed *)
(* wallets (whale_follow.py).  What it finds is debounced, written to      *)
(* signal_log and published.                                               *)
(*                                                                         *)
(* Handling an event has no await: it is one step, which reads the books   *)
(* as they are then, and which an exception may cut short anywhere; the    *)
(* loop swallows it.  The trackers of research signals are in Research.    *)
(*                                                                         *)
(* Abstractions.  A book is its best bid, its best ask, in cents, and one  *)
(* size; a bid of 0 is a book without bids.  A missing or stale book is    *)
(* NoQuote.  A whale_transfer that fails the tests on its wallet has no    *)
(* effect and is left out.                                                 *)
(***************************************************************************)
EXTENDS Integers, Sequences, FiniteSets, FiniteSetsExt, SequencesExt

CONSTANTS
    Market, Group, Token,
    TokenYes, TokenNo,  \* the tokens of a market
    GroupOf,            \* neg_risk_id of a market, or NoGroup
    Tracked,            \* the tokens that have a book
    Followed,           \* the tokens that followed wallets trade
    Quotes,             \* records of bid, ask and size
    Fee,                \* taker_fee of one share at a price
    Buffer, MinSets,    \* arb_buffer, arb_min_set_size
    Ids,                \* the markets in the order of their ids
    Question,           \* the words of the question of a market
    Articles,           \* headlines: their words, how many of them good and bad
    MinOverlap, TopK,   \* news_min_overlap, news_top_k
    IndexRefresh,       \* INDEX_REFRESH
    NewsRefresh,        \* news_index_refresh_s
    Debounce,           \* the debounce interval of a kind of signal
    QueueSize,
    MaxMoves,           \* bound of the model: changes of a quote
    MaxCloses,          \* bound of the model: markets that close, groups that change
    MaxFaults           \* bound of the model: INSERTs and publications that fail

NoGroup == "no group"
Unnamed == "no token"   \* the asset_id of a price_change that has it in its entries only
NoQuote == [bid |-> 0, ask |-> 0, size |-> 0]

ASSUME ScanAssumption ==
    /\ TokenYes \in [Market -> Token] /\ TokenNo \in [Market -> Token]
    /\ GroupOf \in [Market -> Group \cup {NoGroup}] /\ NoGroup \notin Group
    /\ Tracked \subseteq Token /\ Followed \subseteq Token
    /\ \A q \in Quotes : {q.bid, q.ask, q.size} \subseteq Nat /\ q.ask > 0
    /\ \A q \in Quotes : {q.bid, q.ask} \ {0} \subseteq DOMAIN Fee
    /\ \A p \in DOMAIN Fee : Fee[p] \in Nat
    /\ Ids \in Seq(Market) /\ ToSet(Ids) = Market /\ IsInjective(Ids)
    /\ \A a \in Articles : {a.good, a.bad, MinOverlap, TopK} \subseteq Nat
    /\ Debounce \in [{"complement", "buy_all", "sell_all", "news", "whale"} -> Nat \ {0}]
    /\ QueueSize \in Nat \ {0}
    /\ {Buffer, MinSets, IndexRefresh, NewsRefresh, MaxMoves, MaxCloses, MaxFaults} \subseteq Nat

VARIABLES
    book,       \* the books of the tracked tokens
    tradable,   \* the markets table: active and not closed
    groups,     \* neg_risk_groups: per group its legs
    scanQueue,  \* the queue of the scanner
    index,      \* the markets of the index, and
    age,        \* the time since it was loaded
    newsIndex,  \* the same for the index of the news scanner
    newsAge,
    left,       \* per key: what is left of the debounce interval
    logged,     \* history: keys with a row in signal_log from this interval
    heard,      \* history: keys with an event from this interval
    closedFor,  \* history: per market, the time since it closed
    served,     \* history: the markets with a book event handled since the last tick
    moves, closes, faults

indexes == <<index, age, newsIndex, newsAge>>
signals == <<left, logged, heard>>
budget == <<moves, closes, faults>>
scanVars == <<book, tradable, groups, scanQueue, index, age, newsIndex, newsAge, left, logged, heard,
             closedFor, served, moves, closes, faults>>

Key ==
    {<<kind, m>> : kind \in {"complement", "news"}, m \in Market}
    \cup {<<kind, g>> : kind \in {"buy_all", "sell_all"}, g \in Group}
    \cup {<<"whale", t>> : t \in Followed}

Longest == (IF IndexRefresh > NewsRefresh THEN IndexRefresh ELSE NewsRefresh) + 1

ScanTypeOK ==
    /\ book \in [Tracked -> Quotes \cup {NoQuote}]
    /\ tradable \subseteq Market
    /\ groups \in [Group -> SUBSET Market]
    /\ Len(scanQueue) <= QueueSize
    /\ \A i \in 1 .. Len(scanQueue) :
           scanQueue[i].topic = "news" \/ scanQueue[i].of \in Token \cup {Unnamed}
    /\ index \subseteq Market /\ newsIndex \subseteq Market
    /\ age \in 0 .. IndexRefresh + 1
    /\ newsAge \in 0 .. NewsRefresh + 1
    /\ left \in [Key -> Nat] /\ \A k \in Key : left[k] <= Debounce[k[1]]
    /\ logged \subseteq Key /\ heard \subseteq Key
    /\ closedFor \in [Market -> 0 .. Longest]
    /\ served \subseteq Market
    /\ moves \in 0 .. MaxMoves
    /\ closes \in 0 .. MaxCloses
    /\ faults \in 0 .. MaxFaults

\* A group of less than two legs is no group.
Partition(legs) == IF Cardinality(legs) >= 2 THEN legs ELSE {}
Legs(g) == {m \in Market : GroupOf[m] = g}

ScanInit ==
    /\ book = [t \in Tracked |-> NoQuote]
    /\ tradable = Market
    /\ groups = [g \in Group |-> Partition(Legs(g))]
    /\ scanQueue = <<>>
    /\ index = Market /\ age = 0
    /\ newsIndex = {} /\ newsAge = 0
    /\ left = [k \in Key |-> 0]
    /\ logged = {} /\ heard = {}
    /\ closedFor = [m \in Market |-> 0]
    /\ served = {}
    /\ moves = 0 /\ closes = 0 /\ faults = 0

-----------------------------------------------------------------------------
(* What the books show.                                                    *)

Peek(t) == IF t \in Tracked THEN book[t] ELSE NoQuote

\* Both asks together, with fees, cost less than the dollar one of the tokens pays.
Complement(m) ==
    LET y == Peek(TokenYes[m])
        n == Peek(TokenNo[m])
    IN  /\ y # NoQuote /\ n # NoQuote
        /\ 100 - (y.ask + n.ask) - (Fee[y.ask] + Fee[n.ask]) > Buffer
        /\ y.size >= MinSets /\ n.size >= MinSets

\* The legs of a group all have a fresh book with both sides.
Complete(g) ==
    /\ groups[g] # {}
    /\ \A m \in groups[g] : Peek(TokenYes[m]) # NoQuote /\ Peek(TokenYes[m]).bid > 0

\* The prices of a side ("ask" or "bid") of all legs, and their fees.
Total(g, side) == MapThenSumSet(LAMBDA m : Peek(TokenYes[m])[side], groups[g])
Fees(g, side) == MapThenSumSet(LAMBDA m : Fee[Peek(TokenYes[m])[side]], groups[g])
Deep(g) == \A m \in groups[g] : Peek(TokenYes[m]).size >= MinSets

BuyAll(g) == Complete(g) /\ Deep(g) /\ 100 - Total(g, "ask") - Fees(g, "ask") > Buffer
SellAll(g) == Complete(g) /\ Deep(g) /\ Total(g, "bid") - 100 - Fees(g, "bid") > Buffer

\* Twice the mid of a book, in cents.
HasMid(t) == Peek(t) # NoQuote /\ Peek(t).bid > 0
Mid2(t) == Peek(t).bid + Peek(t).ask

Abs(n) == IF n < 0 THEN -n ELSE n

Overlap(a, m) == Cardinality(a.words \cap Question[m])
Earlier(m, n) == \E i, j \in 1 .. Len(Ids) : i < j /\ Ids[i] = m /\ Ids[j] = n

\* Market m comes before n among those an article is about: it shares more words with
\* the article, or as many and its id is smaller.
Before(a, m, n) ==
    \/ Overlap(a, m) > Overlap(a, n)
    \/ Overlap(a, m) = Overlap(a, n) /\ Earlier(m, n)

\* The markets of an index that share most words with an article.
MatchHeadline(a, markets) ==
    LET found == {m \in markets : Overlap(a, m) >= MinOverlap}
    IN  {m \in found : Cardinality({n \in found : Before(a, n, m)}) < TopK}

\* Some markets in the order of the matches: there is one such sequence.
InOrder(a, ms) == {s \in SetToSeqs(ms) : \A i, j \in 1 .. Len(s) : i < j => Before(a, s[i], s[j])}

\* The likelihood ratio of an article, in percent: two words make it strong.
Ratio(a) ==
    LET strong == a.good + a.bad >= 2
    IN  IF a.good > a.bad THEN IF strong THEN 200 ELSE 140
        ELSE IF strong THEN 50 ELSE 71

\* |posterior - prior| is at least a cent, for the prior x / 200 and the ratio r / 100.
Fired(x, r) ==
    /\ 0 < x /\ x < 200
    /\ 100 * Abs(r - 100) * x * (200 - x) >= 200 * (20000 + (r - 100) * x)

-----------------------------------------------------------------------------
(* The outside.                                                            *)

\* A bug for ScanTypeOK to find: a queue without a limit.
EnqueueAll(e) == scanQueue' = Append(scanQueue, e)

\* A queue of lossy topics evicts its oldest event (see Bus).
Enqueue(e) ==
    scanQueue' = Append(IF Len(scanQueue) >= QueueSize THEN Tail(scanQueue) ELSE scanQueue, e)

\* The feed updates a book, and publishes the event whether or not the touch moved.  The
\* message may name the token in its entries only.
Update(t, q, asset) ==
    /\ q # book[t] => moves < MaxMoves
    /\ moves' = moves + IF q # book[t] THEN 1 ELSE 0
    /\ book' = [book EXCEPT ![t] = q]
    /\ Enqueue([topic |-> "book", of |-> asset])
    /\ UNCHANGED <<tradable, groups, indexes, signals, closedFor, served, closes, faults>>

GoStale(t) ==
    /\ book[t] # NoQuote
    /\ moves < MaxMoves
    /\ moves' = moves + 1
    /\ book' = [book EXCEPT ![t] = NoQuote]
    /\ UNCHANGED <<tradable, groups, scanQueue, indexes, signals, closedFor, served, closes, faults>>

Article(a) ==
    /\ Enqueue([topic |-> "news", of |-> a])
    /\ UNCHANGED <<book, tradable, groups, indexes, signals, closedFor, served, budget>>

\* A transfer of a followed wallet; system events are never evicted for.
Transfer(t) ==
    /\ Len(scanQueue) < QueueSize
    /\ Enqueue([topic |-> "whale", of |-> t])
    /\ UNCHANGED <<book, tradable, groups, indexes, signals, closedFor, served, budget>>

\* metadata_sync closes a market, or replaces the legs of a group.
Close(m) ==
    /\ m \in tradable
    /\ closes < MaxCloses
    /\ closes' = closes + 1
    /\ tradable' = tradable \ {m}
    /\ UNCHANGED <<book, groups, scanQueue, indexes, signals, closedFor, served, moves, faults>>

Regroup(g) ==
    /\ closes < MaxCloses
    /\ closes' = closes + 1
    /\ groups' = [groups EXCEPT ![g] = Partition(Legs(g) \cap tradable)]
    /\ UNCHANGED <<book, tradable, scanQueue, indexes, signals, closedFor, served, moves, faults>>

\* A bug for PersistentLogged to find: the time since the last emission never grows.
SoonerNever(n) == n

Sooner(n) == IF n > 0 THEN n - 1 ELSE 0

Later(n, most) == IF n < most THEN n + 1 ELSE most

Tick ==
    /\ age' = Later(age, IndexRefresh + 1)
    /\ newsAge' = Later(newsAge, NewsRefresh + 1)
    /\ left' = [k \in Key |-> Sooner(left[k])]
    /\ logged' = {k \in logged : left'[k] > 0}
    /\ heard' = {k \in heard : left'[k] > 0}
    /\ closedFor' = [m \in Market |-> IF m \in tradable THEN 0 ELSE Later(closedFor[m], Longest)]
    /\ served' = {}
    /\ UNCHANGED <<book, tradable, groups, scanQueue, index, newsIndex, budget>>

-----------------------------------------------------------------------------
(* The scanner.                                                            *)

\* The index as the loop has it once it looked at the clock.
Index == IF age > IndexRefresh THEN tradable ELSE index

\* A bug for ClosedMarketsQuiet to find: a queue that is never empty holds the index back.
RefreshWhenIdle ==
    /\ index' = IF scanQueue = <<>> THEN Index ELSE index
    /\ age' = IF scanQueue = <<>> /\ age > IndexRefresh THEN 0 ELSE age

Refresh ==
    /\ index' = Index
    /\ age' = IF age > IndexRefresh THEN 0 ELSE age

\* A bug for WindowsAccounted to find: the event goes out before the row.
RecordEarly(rows, events) ==
    /\ logged' = logged \cup events
    /\ heard' = heard \cup rows

\* Rows written and events published.
Record(rows, events) ==
    /\ logged' = logged \cup rows
    /\ heard' = heard \cup events

Start(keys) == left' = [k \in Key |-> IF k \in keys THEN Debounce[k[1]] ELSE left[k]]
Keys(sigs) == {sigs[i] : i \in 1 .. Len(sigs)}

\* Debounced signals are written and published one after the other.  An exception at
\* the i-th leaves out the rest: the row is not written, or it is written and a full
\* queue refuses the event.  Arbitrage is debounced one by one as it is written,
\* research signals all at once before the first.
Persist(ready, atOnce) ==
    \/ /\ Start(Keys(ready))
       /\ Record(Keys(ready), Keys(ready))
       /\ UNCHANGED faults
    \/ /\ faults < MaxFaults
       /\ faults' = faults + 1
       /\ \E i \in 1 .. Len(ready), written \in BOOLEAN :
              LET before == Keys(SubSeq(ready, 1, i - 1))
              IN  /\ Start(IF atOnce THEN Keys(ready) ELSE before \cup {ready[i]})
                  /\ Record(IF written THEN before \cup {ready[i]} ELSE before, before)

Ready(key) == left[key] = 0

\* A signal, unless the last one of its key is too recent.
One(holds, key) == IF holds /\ Ready(key) THEN <<key>> ELSE <<>>

\* The signals of a market whose book changed, in the order they are written.
Arbitrage(m) ==
    One(Complement(m), <<"complement", m>>)
    \o IF GroupOf[m] = NoGroup THEN <<>>
       ELSE One(BuyAll(GroupOf[m]), <<"buy_all", GroupOf[m]>>)
            \o One(SellAll(GroupOf[m]), <<"sell_all", GroupOf[m]>>)

OfToken(t) == {m \in Market : t \in {TokenYes[m], TokenNo[m]}}

Comes(topic) == scanQueue # <<>> /\ Head(scanQueue).topic = topic
Taken == scanQueue' = Tail(scanQueue)

HandleBook ==
    /\ Comes("book")
    /\ Taken /\ Refresh
    /\ LET ms == OfToken(Head(scanQueue).of) \cap index'
       IN  /\ served' = served \cup ms
           /\ IF ms = {} THEN UNCHANGED <<signals, faults>>
              ELSE \E m \in ms : Persist(Arbitrage(m), FALSE)
    /\ UNCHANGED <<book, tradable, groups, newsIndex, newsAge, closedFor, moves, closes>>

\* The news scanner has an index of its own, loaded when an article finds it old.
NewsRefreshed ==
    IF newsIndex = {} \/ newsAge > NewsRefresh
    THEN newsIndex' = tradable /\ newsAge' = 0
    ELSE UNCHANGED <<newsIndex, newsAge>>

Mentioned(a, m) ==
    /\ a.good # a.bad
    /\ HasMid(TokenYes[m])
    /\ Fired(Mid2(TokenYes[m]), Ratio(a))

HandleNews ==
    /\ Comes("news")
    /\ Taken /\ Refresh /\ NewsRefreshed
    /\ LET a == Head(scanQueue).of
           new == {m \in MatchHeadline(a, newsIndex') : Mentioned(a, m) /\ Ready(<<"news", m>>)}
       IN  \E about \in InOrder(a, new) :
               Persist([i \in 1 .. Len(about) |-> <<"news", about[i]>>], TRUE)
    /\ UNCHANGED <<book, tradable, groups, closedFor, served, moves, closes>>

HandleWhale ==
    /\ Comes("whale")
    /\ Taken /\ Refresh
    /\ LET t == Head(scanQueue).of
       IN  Persist(One(HasMid(t) /\ Mid2(t) \in 1 .. 199, <<"whale", t>>), TRUE)
    /\ UNCHANGED <<book, tradable, groups, newsIndex, newsAge, closedFor, served, moves, closes>>

\* The queue stayed empty for POLL_TIMEOUT.
Idle ==
    /\ scanQueue = <<>>
    /\ Refresh
    /\ UNCHANGED <<book, tradable, groups, scanQueue, newsIndex, newsAge, signals, closedFor,
                   served, budget>>

Scanner == HandleBook \/ HandleNews \/ HandleWhale \/ Idle

ScanNext ==
    \/ \E t \in Tracked : GoStale(t) \/ \E q \in Quotes, asset \in {t, Unnamed} : Update(t, q, asset)
    \/ \E a \in Articles : Article(a)
    \/ \E t \in Followed : Transfer(t)
    \/ \E m \in Market : Close(m)
    \/ \E g \in Group : Regroup(g)
    \/ Tick
    \/ Scanner

ScanSpec == ScanInit /\ [][ScanNext]_scanVars

\* Time passes.  That events are handled is an assumption of PersistentLogged.
ScanFairSpec == ScanSpec /\ WF_scanVars(Tick)

-----------------------------------------------------------------------------
(* Properties.                                                             *)

\* An event is never published without its row, and a debounce interval that was
\* started without a row, or a row without its event, comes from a failed write or a
\* full queue: nothing is held back silently (_persist_arb, _persist_research).
WindowsAccounted ==
    /\ heard \subseteq logged
    /\ (faults = 0) => \A k \in Key : left[k] > 0 => k \in heard

\* A complement or a headline signal is about a market that was tradable when, or after,
\* the index it came from could last have been loaded: a market that closed is dropped
\* after one refresh interval, however busy the queue (scan_task.py, last_index).
ClosedMarketsQuiet ==
    [][\A m \in Market :
           /\ <<"complement", m>> \in logged' \ logged => closedFor[m] <= IndexRefresh
           /\ <<"news", m>> \in logged' \ logged => closedFor[m] <= NewsRefresh]_scanVars

\* An arbitrage that lasts, in a market that stays tradable and whose events are
\* handled again and again, gets its row and its event, although the debounce may have
\* been spent on a write that failed (scan_task.py, _persist_arb).
PersistentLogged ==
    \A m \in Market :
        []<>(m \in served)
            => ([](Complement(m) /\ m \in tradable) ~> (<<"complement", m>> \in heard))

=============================================================================
