------------------------------ MODULE Research ------------------------------
(***************************************************************************)
(* The trackers of research signals (microstructure.py, relative_value.py  *)
(* and momentum.py) as the scanner drives them live (scan_task.py) and as  *)
(* signal_replay.py drives them over the event log.                        *)
(*                                                                         *)
(* A tracker keeps rolling windows of what the books showed when it was    *)
(* called.  The live scanner takes events from a queue and looks at the    *)
(* books, the clock, its index of open markets and the legs the last sync  *)
(* knew as they are when it comes to an event; the replay rebuilds the     *)
(* books, takes the time from the events and knows all markets.  A restart *)
(* of the engine empties the trackers, not the log.                        *)
(*                                                                         *)
(* Abstractions.  A quote is the touch of a book, in cents, or NoQuote if  *)
(* a side is empty; Mid is in half cents, like whatever is compared with   *)
(* it; sizes are such that an imbalance is a whole percent.  An event of a *)
(* book carries the quote it leads to (see Feed for books that miss        *)
(* updates), and all events get into the log (see Bus for those that do    *)
(* not).  The replay ends before its own books go stale, and the markets   *)
(* it knows are all there ever were.  A price_change that names its tokens *)
(* in its entries only is an event "entry": it changes a book and no       *)
(* tracker is called. A z score is compared by its square; the floors of   *)
(* the deviations only matter to windows without any, which the other      *)
(* thresholds decide. The features of a signal, and prev_mids which only   *)
(* feeds them, are left out.                                               *)
(***************************************************************************)
EXTENDS Integers, Sequences, FiniteSets, FiniteSetsExt, SequencesExt

CONSTANTS
    Market, Group, Token,
    TokenYes, TokenNo,  \* the tokens of a market
    Traded,             \* the tokens with trades
    GroupOf,            \* neg_risk_id of a market, or NoGroup
    QuotesOf,           \* the quotes of a token: bid, ask and the sizes at the touch, or NoQuote
    EntriesOf,          \* those that come in a message that does not name the token
    TradePrices,        \* prices of trades, in cents
    Fee,                \* the fee of a share at a mid, in half cents
    Micro, Rv, Mom,     \* the settings of the trackers
    Horizon,            \* horizon_s of the replay
    MidSample,          \* MID_SAMPLE_S
    IndexRefresh,       \* INDEX_REFRESH
    QueueSize,
    MaxTime, MaxEvents, \* bounds of the model
    MaxTroubles         \* bound of the model: events not handled at once, books that go
                        \* stale, markets and groups that change, signals that cannot be
                        \* persisted and restarts

NoGroup == "no group"
NoQuote == [bid |-> 0, ask |-> 0, bidSize |-> 0, askSize |-> 0]
Quotes == (UNION {QuotesOf[t] \cup EntriesOf[t] : t \in Token}) \ {NoQuote}

ASSUME ResearchAssumption ==
    /\ TokenYes \in [Market -> Token] /\ TokenNo \in [Market -> Token]
    /\ GroupOf \in [Market -> Group \cup {NoGroup}] /\ NoGroup \notin Group
    /\ \A t \in Token : \E m \in Market : t \in {TokenYes[m], TokenNo[m]}
    /\ Quotes \subseteq [bid : 0 .. 100, ask : 0 .. 100,
                         bidSize : Nat \ {0}, askSize : Nat \ {0}]
    /\ \A q \in Quotes : Fee[q.bid + q.ask] \in Nat
    /\ Micro.min > 1 /\ Rv.min > 1 /\ Mom.min > 1
    /\ {Micro.window, Rv.window, Mom.window, Horizon, IndexRefresh} \subseteq Nat
    /\ Traded \subseteq Token
    /\ {QueueSize, MidSample} \subseteq Nat \ {0}
    /\ {MaxTime, MaxEvents, MaxTroubles} \subseteq Nat

VARIABLES
    now,
    book,       \* the books
    stale,      \* tokens whose book is stale
    queue,      \* the queue of the scanner
    open,       \* the markets that are active and not closed in the table
    legs,       \* neg_risk_groups: the legs the last sync found
    index,      \* the scanner's index, and when it was loaded
    loadedAt,
    live,       \* the trackers of the scanner, with the signals they gave
    log,        \* the event log
    started,    \* history: the events of the log from before the last start
    handled,    \* history: those taken up, or lost at a start
    inStep,     \* history: since then each was handled as the replay will, none failed
    troubles

metaVars == <<open, legs, index, loadedAt>>
researchVars ==
    <<now, book, stale, queue, metaVars, live, log, started, handled, inStep, troubles>>

Mid(q) == q.bid + q.ask

\* The legs of a group, for which two are needed.
Legs(g) ==
    LET markets == {m \in Market : GroupOf[m] = g}
    IN  IF \E m, n \in markets : m # n THEN markets ELSE {}
FoundLegs == {found \in [Group -> SUBSET Market] : \A g \in Group :
                  found[g] \subseteq Legs(g) /\ ~ \E m \in Market : found[g] = {m}}
Of(t) == CHOOSE m \in Market : t \in {TokenYes[m], TokenNo[m]}

Key ==
    {<<kind, t>> : kind \in {"ofi", "liq", "trade", "mom", "bnd"}, t \in Token}
    \cup {<<"comp", m>> : m \in Market}
    \cup {<<"psum", g>> : g \in Group}

Never == -1

NewTrackers ==
    [micro |-> [t \in Token |-> <<>>],  \* touch states, per token
     sums  |-> [g \in Group |-> <<>>],  \* sums of the yes mids, per group
     mom   |-> [t \in Token |-> <<>>],  \* mids, per token
     last  |-> [k \in Key |-> Never],   \* the debouncers
     out   |-> {}]                      \* signals: key and time

ResearchTypeOK ==
    /\ now \in 0 .. MaxTime
    /\ book \in [Token -> Quotes \cup {NoQuote}]
    /\ stale \subseteq Token
    /\ Len(queue) <= QueueSize
    /\ \A t \in Token : Len(live.micro[t]) <= handled /\ Len(live.mom[t]) <= handled
    /\ \A k \in Key : live.last[k] = Never \/ <<k, live.last[k]>> \in live.out \/ troubles > 0
    /\ Len(log) \in 0 .. MaxEvents
    /\ started \in 0 .. handled /\ handled + Len(queue) <= Len(log)
    /\ open \subseteq Market /\ index \subseteq Market /\ loadedAt \in 0 .. now
    /\ legs \in FoundLegs
    /\ inStep \in BOOLEAN
    /\ troubles \in 0 .. MaxTroubles

ResearchInit ==
    /\ now = 0
    /\ book = [t \in Token |-> NoQuote]
    /\ stale = {}
    /\ queue = <<>>
    /\ open = Market /\ legs \in FoundLegs
    /\ index = open /\ loadedAt = 0
    /\ live = NewTrackers
    /\ log = <<>>
    /\ started = 0 /\ handled = 0
    /\ inStep = TRUE
    /\ troubles = 0

-----------------------------------------------------------------------------
(* What the trackers share.                                                *)

Abs(n) == IF n < 0 THEN -n ELSE n
Larger(a, b) == IF a > b THEN a ELSE b
Total(s) == FoldSeq(LAMBDA x, sum : x + sum, 0, s)
Squares(s) == Total([i \in 1 .. Len(s) |-> s[i] * s[i]])

\* Twice the median.
Median2(s) ==
    LET o == SortSeq(s, <)
        n == Len(s)
    IN  o[(n + 1) \div 2] + o[(n + 2) \div 2]

\* A sample joins a window, and those that are too old leave it at the other end.
Roll(hist, sample, time, window) ==
    LET all == Append(hist, sample)
    IN  SubSeq(all, Min({i \in 1 .. Len(all) : time - all[i].ts <= window}), Len(all))

\* A bug for ResearchTypeOK to find: the debounce is spent whether or not there is a signal.
EmitSpendsAlways(st, holds, key, time, debounce) ==
    IF st.last[key] = Never \/ time - st.last[key] >= debounce
    THEN [st EXCEPT !.last[key] = time, !.out = @ \cup (IF holds THEN {<<key, time>>} ELSE {})]
    ELSE st

\* A signal, unless the last of its key is too recent.
Emit(st, holds, key, time, debounce) ==
    IF holds /\ (st.last[key] = Never \/ time - st.last[key] >= debounce)
    THEN [st EXCEPT !.last[key] = time, !.out = @ \cup {<<key, time>>}]
    ELSE st

Inside(q) == q # NoQuote /\ Mid(q) \in 1 .. 199

-----------------------------------------------------------------------------
(* microstructure.py.                                                      *)

Imbalance(s) == (100 * (s.bd - s.ad)) \div (s.bd + s.ad)

OfiPressure(hist) ==
    LET imbs == [i \in 1 .. Len(hist) |-> Imbalance(hist[i])]
    IN  /\ hist[Len(hist)].spread <= Micro.maxSpread
        /\ Abs(Total(imbs)) >= Micro.ofi * Len(imbs)

LiquidityShock(hist) ==
    LET spread2 == Median2([i \in 1 .. Len(hist) |-> hist[i].spread])
        depth2 == Median2([i \in 1 .. Len(hist) |-> hist[i].bd + hist[i].ad])
        s == hist[Len(hist)]
    IN  /\ spread2 > 0 /\ depth2 > 0
        /\ 2 * s.spread >= Micro.spreadMult * spread2
        /\ 200 * (s.bd + s.ad) <= (100 - Micro.depthDrop) * depth2

OnMicro(st, view, t, time) ==
    IF view[t] = NoQuote THEN st
    ELSE LET q == view[t]
             hist == Roll(st.micro[t], [ts |-> time, mid |-> Mid(q), spread |-> q.ask - q.bid,
                                        bd |-> q.bidSize, ad |-> q.askSize], time, Micro.window)
             rolled == [st EXCEPT !.micro[t] = hist]
         IN  IF Len(hist) < Micro.min THEN rolled
             ELSE Emit(Emit(rolled, OfiPressure(hist), <<"ofi", t>>, time, Micro.debounce),
                       LiquidityShock(hist), <<"liq", t>>, time, Micro.debounce)

OnTrade(st, view, t, price, time) ==
    LET through == /\ Inside(view[t])
                   /\ Abs(2 * price - Mid(view[t])) > Larger(Fee[Mid(view[t])], Micro.tradeFloor)
    IN  Emit(st, through, <<"trade", t>>, time, Micro.debounce)

-----------------------------------------------------------------------------
(* relative_value.py.                                                      *)

SumDrift(sums) ==
    LET n == Len(sums)
        dev == n * sums[n] - Total(sums)    \* n times the deviation
    IN  /\ dev * dev * (n - 1) >= Rv.zSquared * n * (n * Squares(sums) - Total(sums) * Total(sums))
        /\ Abs(dev) >= n * Rv.minDev

\* Called with legs only.
OnGroup(st, view, g, parts, time) ==
    IF parts = {} \/ \E m \in parts : view[TokenYes[m]] = NoQuote THEN st
    ELSE LET sum == MapThenSumSet(LAMBDA m : Mid(view[TokenYes[m]]), parts)
             hist == Roll(st.sums[g], [ts |-> time, sum |-> sum], time, Rv.window)
             rolled == [st EXCEPT !.sums[g] = hist]
         IN  IF Len(hist) < Rv.min THEN rolled
             ELSE Emit(rolled, SumDrift([i \in 1 .. Len(hist) |-> hist[i].sum]),
                       <<"psum", g>>, time, Rv.debounce)

OnMarket(st, view, m, time) ==
    LET y == view[TokenYes[m]]
        n == view[TokenNo[m]]
        drift == /\ y # NoQuote /\ n # NoQuote
                 /\ Abs(Mid(y) + Mid(n) - 200) >= Larger(Fee[Mid(y)] + Fee[Mid(n)], Rv.minDev)
    IN  Emit(st, drift, <<"comp", m>>, time, Rv.debounce)

-----------------------------------------------------------------------------
(* momentum.py.                                                            *)

Momentum(mids) ==
    LET n == Len(mids) - 1
        drift == mids[n + 1] - mids[1]
        rets == [i \in 1 .. n |-> mids[i + 1] - mids[i]]
    IN  /\ Abs(drift) >= Mom.minDrift
        /\ n >= 2
        /\ drift * drift * (n - 1) >= Mom.zSquared * (n * Squares(rets) - drift * drift)

Overshoot(mids) ==
    LET prior == Front(mids)
        bounce == Len(prior) * Last(mids) - Total(prior)    \* Len(prior) times the bounce
    IN  IF \A i \in 1 .. Len(prior) : prior[i] >= Mom.high
        THEN bounce <= -(Len(prior) * Mom.bounce)
        ELSE /\ \A i \in 1 .. Len(prior) : prior[i] <= Mom.low
             /\ bounce >= Len(prior) * Mom.bounce

OnMom(st, view, t, time) ==
    IF ~ Inside(view[t]) THEN st
    ELSE LET hist == Roll(st.mom[t], [ts |-> time, mid |-> Mid(view[t])], time, Mom.window)
             mids == [i \in 1 .. Len(hist) |-> hist[i].mid]
             rolled == [st EXCEPT !.mom[t] = hist]
         IN  IF Len(hist) < Mom.min THEN rolled
             ELSE Emit(Emit(rolled, Momentum(mids), <<"mom", t>>, time, Mom.debounce),
                       Overshoot(mids), <<"bnd", t>>, time, Mom.debounce)

-----------------------------------------------------------------------------
(* The replay.                                                             *)

InGroup(t) == GroupOf[Of(t)] # NoGroup

\* A mid is sampled unless the last sample of the token is too recent.
Sampled(series, q, t, time) ==
    IF q = NoQuote \/ (series[t] # <<>> /\ time - Last(series[t]).ts < MidSample) THEN series
    ELSE [series EXCEPT ![t] = Append(@, [ts |-> time, mid |-> Mid(q)])]

\* The book of an event, rebuilt.
Rebuilt(view, e) == IF e.topic = "trade" THEN view ELSE [view EXCEPT ![e.token] = e.quote]

DriveBook(st, view, e) ==
    LET t == e.token
        booked == OnMom(OnMarket(OnMicro(st, view, t, e.ts), view, Of(t), e.ts), view, t, e.ts)
        g == GroupOf[Of(t)]
    IN  IF InGroup(t) THEN OnGroup(booked, view, g, Legs(g), e.ts) ELSE booked

\* A bug for ReplayAgrees to find: a trade also goes to the trackers of the books.
DriveTradesAsBooks(st, view, e) ==
    CASE e.topic = "entry" -> st
      [] e.topic = "trade" ->
             OnTrade(DriveBook(st, view, e), view, e.token, e.price, e.ts)
      [] e.topic = "book"  -> DriveBook(st, view, e)

Drive(st, view, e) ==
    CASE e.topic = "entry" -> st
      [] e.topic = "trade" -> OnTrade(st, view, e.token, e.price, e.ts)
      [] e.topic = "book"  -> DriveBook(st, view, e)

Replayed(r, e) ==
    LET view == Rebuilt(r.view, e)
    IN  [view |-> view, trackers |-> Drive(r.trackers, view, e),
         series |-> IF e.topic = "entry" THEN r.series
                    ELSE Sampled(r.series, view[e.token], e.token, e.ts)]

NewReplay ==
    [view |-> [t \in Token |-> NoQuote], trackers |-> NewTrackers,
     series |-> [t \in Token |-> <<>>]]

\* The events one after the other.
Replay(events) ==
    LET after[n \in 0 .. Len(events)] ==
            IF n = 0 THEN NewReplay ELSE Replayed(after[n - 1], events[n])
    IN  after[Len(events)]

NoMid == 0

\* The first sample of a token at or after a time.
ForwardMid(series, t, after) ==
    LET i == SelectInSeq(series[t], LAMBDA s : s.ts >= after)
    IN  IF i = 0 THEN [ts |-> Never, mid |-> NoMid] ELSE series[t][i]

-----------------------------------------------------------------------------
(* The outside.                                                            *)

\* An event is logged and queued; a full queue evicts its oldest event (see Bus).
Happens(e) ==
    /\ Len(log) < MaxEvents /\ (queue = <<>> \/ troubles < MaxTroubles)
    /\ log' = Append(log, e)
    /\ queue' = Append(IF Len(queue) >= QueueSize THEN Tail(queue) ELSE queue, e)
    /\ inStep' = (inStep /\ Len(queue) < QueueSize)

Update(t, q, topic) ==
    /\ book' = [book EXCEPT ![t] = q]
    /\ stale' = stale \ {t}
    /\ Happens([topic |-> topic, token |-> t, quote |-> q, price |-> 0, ts |-> now])
    /\ UNCHANGED <<now, metaVars, live, started, handled, troubles>>

TradeEvent(t, price) ==
    /\ Happens([topic |-> "trade", token |-> t, quote |-> NoQuote, price |-> price, ts |-> now])
    /\ UNCHANGED <<now, book, stale, metaVars, live, started, handled, troubles>>

Troubled == troubles < MaxTroubles /\ troubles' = troubles + 1

GoStale(t) ==
    /\ t \notin stale /\ book[t] # NoQuote
    /\ Troubled
    /\ stale' = stale \cup {t}
    /\ UNCHANGED <<now, book, queue, metaVars, live, log, started, handled, inStep>>

\* A sync (see MarketSync) writes a row, which opens or closes a market, ...
MarketChanges(m) ==
    /\ Troubled
    /\ open' = IF m \in open THEN open \ {m} ELSE open \cup {m}
    /\ UNCHANGED <<now, book, stale, queue, legs, index, loadedAt, live, log, started, handled,
                   inStep>>

\* ... and ends with the groups of the events it found.
GroupsChange ==
    /\ Troubled
    /\ legs' \in FoundLegs \ {legs}
    /\ UNCHANGED <<now, book, stale, queue, open, index, loadedAt, live, log, started, handled,
                   inStep>>

Tick ==
    /\ now < MaxTime
    /\ now' = now + 1
    /\ UNCHANGED <<book, stale, queue, metaVars, live, log, started, handled, inStep, troubles>>

-----------------------------------------------------------------------------
(* The scanner.                                                            *)

\* What peek shows of the books.
Shown == [t \in Token |-> IF t \in stale THEN NoQuote ELSE book[t]]

\* Whenever the scanner wakes up it reloads an index that is too old.
Due == now - loadedAt > IndexRefresh
Index == IF Due THEN open ELSE index
Reload ==
    /\ index' = Index
    /\ loadedAt' = IF Due THEN now ELSE loadedAt
    /\ UNCHANGED <<open, legs>>

\* It may wake up without an event for the trackers.
Refresh ==
    /\ Due /\ Reload
    /\ UNCHANGED <<now, book, stale, queue, live, log, started, handled, inStep, troubles>>

\* The calls for a book event one after the other, up to the n-th.
AfterCalls(t, view, n) ==
    LET micro == OnMicro(live, view, t, now)
        market == OnMarket(micro, view, Of(t), now)
        g == GroupOf[Of(t)]
        group == IF InGroup(t) THEN OnGroup(market, view, g, legs[g], now) ELSE market
        mom == OnMom(group, view, t, now)
    IN  <<live, micro, market, group, mom>>[n + 1]

\* An event that names a token of the index has the trackers called.
Calls(e, view) ==
    CASE e.topic = "entry" \/ Of(e.token) \notin Index -> live
      [] e.topic = "trade" /\ Of(e.token) \in Index -> OnTrade(live, view, e.token, e.price, now)
      [] e.topic = "book" /\ Of(e.token) \in Index -> AfterCalls(e.token, view, 4)

\* The event comes up while it is the last thing that happened.
AtOnce(e) == Len(queue) = 1 /\ e.ts = now /\ stale = {}

\* The scanner knows of the market of the event what the replay will.
Indexed(e) ==
    e.topic # "entry" =>
        /\ Of(e.token) \in Index
        /\ InGroup(e.token) => legs[GroupOf[Of(e.token)]] = Legs(GroupOf[Of(e.token)])

Take(e) ==
    /\ e = Head(queue)
    /\ queue' = Tail(queue)
    /\ handled' = handled + 1
    /\ Reload

CountsTrouble(e) == IF AtOnce(e) THEN UNCHANGED troubles ELSE Troubled

\* A bug for SamplesSound to find: the quote of the event is taken, not the book's.
HandleItsQuote(e) ==
    /\ Take(e) /\ CountsTrouble(e)
    /\ live' = Calls(e, IF e.topic = "book" THEN [Shown EXCEPT ![e.token] = e.quote] ELSE Shown)
    /\ inStep' = (inStep /\ AtOnce(e) /\ Indexed(e))
    /\ UNCHANGED <<now, book, stale, log, started>>

Handle(e) ==
    /\ Take(e) /\ CountsTrouble(e)
    /\ live' = Calls(e, Shown)
    /\ inStep' = (inStep /\ AtOnce(e) /\ Indexed(e))
    /\ UNCHANGED <<now, book, stale, log, started>>

\* A signal cannot be persisted.  The calls that were to follow are left out, all of them
\* if it is an arbitrage of the book; other signals of the call may have been persisted.
HandleFails(e) ==
    /\ Take(e) /\ Troubled
    /\ e.topic # "entry" /\ Of(e.token) \in Index
    /\ \/ e.topic = "book" /\ live' = live
       \/ \E n \in 1 .. 4 :
              LET before == IF e.topic = "book" THEN AfterCalls(e.token, Shown, n - 1) ELSE live
                  after == IF e.topic = "book" THEN AfterCalls(e.token, Shown, n)
                           ELSE Calls(e, Shown)
              IN  /\ after.out # before.out
                  /\ \E lost \in SUBSET (after.out \ before.out) :
                         live' = [after EXCEPT !.out = @ \ lost]
    /\ inStep' = FALSE
    /\ UNCHANGED <<now, book, stale, log, started>>

\* Everything in memory is lost; the log goes on.
EngineRestarts ==
    /\ Troubled
    /\ book' = [t \in Token |-> NoQuote] /\ stale' = {} /\ queue' = <<>>
    /\ live' = NewTrackers
    /\ index' = open /\ loadedAt' = now
    /\ legs' \in FoundLegs
    /\ started' = Len(log) /\ handled' = Len(log) /\ inStep' = TRUE
    /\ UNCHANGED <<now, open, log>>

ResearchNext ==
    \/ \E t \in Token : \E q \in QuotesOf[t] : Update(t, q, "book")
    \/ \E t \in Token : \E q \in EntriesOf[t] : Update(t, q, "entry")
    \/ \E t \in Traded, p \in TradePrices : TradeEvent(t, p)
    \/ \E t \in Token : GoStale(t)
    \/ \E m \in Market : MarketChanges(m)
    \/ GroupsChange
    \/ Tick
    \/ Refresh
    \/ \E e \in ToSet(queue) : Handle(e) \/ HandleFails(e)
    \/ EngineRestarts

ResearchSpec == ResearchInit /\ [][ResearchNext]_researchVars

-----------------------------------------------------------------------------
(* Properties.                                                             *)

\* As long as, since the engine started, the scanner took up each event before the next
\* thing happened, with the market in its index and all legs of its group known, the
\* replay of what was logged since then gives its signals and leaves its windows and
\* debouncers as they are, so thresholds tuned on a replay mean what they do live
\* (signal_replay.py:1-16).
ReplayAgrees ==
    inStep => Replay(SubSeq(log, started + 1, handled)).trackers = live

\* When the scanner is late, a burst of events is seen as so many looks at the last
\* book: a sample is never older than its time.  That is, the book had that mid until
\* then, and no message about the token had replaced it (microstructure.py, momentum.py).
SamplesCurrent ==
    \A t \in Token : \A i \in 1 .. Len(live.mom[t]) :
        LET s == live.mom[t][i]
            events == {j \in 1 .. Len(log) : log[j].topic # "trade" /\ log[j].token = t}
        IN  \E j \in events :
                /\ log[j].ts <= s.ts /\ Mid(log[j].quote) = s.mid
                /\ \A k \in events : k > j => log[k].ts >= s.ts

\* The forward mid of a leg is never from before the horizon, and misses no more of
\* what the log has than one sampling interval: between the end of the interval and the
\* sample, no event of the token leaves it with a quote (signal_replay.py, _forward_mid).
ForwardMidsSound ==
    LET r == Replay(log)
    IN  \A s \in r.trackers.out, t \in Token :
            LET f == ForwardMid(r.series, t, s[2] + Horizon)
            IN  \A j \in 1 .. Len(log) :
                    /\ log[j].topic = "book" /\ log[j].token = t /\ log[j].quote # NoQuote
                    /\ log[j].ts >= s[2] + Horizon + MidSample
                    => f.ts \in s[2] + Horizon .. log[j].ts

\* What the statistics of a signal rest on, the samples before it and the mid after it,
\* is what the books showed at that time.
SamplesSound == SamplesCurrent /\ ForwardMidsSound

=============================================================================
