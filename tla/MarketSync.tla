----------------------------- MODULE MarketSync -----------------------------
(***************************************************************************)
(* The metadata sync (pm/ingestion/metadata_sync.py): one task that, every *)
(* interval, reads the open events of the exchange's catalogue page by     *)
(* page, refreshes the stored markets whose end date has passed one by     *)
(* one, then writes what it read first: market rows, resolution rules, the *)
(* NegRisk groups the arbitrage scanner uses and the assets the feed       *)
(* tracks.                                                                 *)
(*                                                                         *)
(* Every request is an await, during which the catalogue moves on: markets *)
(* close, and the order of the events, on which the pages are cut, changes.*)
(* The writes have no await but may be cut short by an exception.          *)
(*                                                                         *)
(* Abstractions.  Of a market only what the engine acts upon: closed or    *)
(* not, its event, the version of its rules, whether it has a token pair.  *)
(* The liquidity of a market, which orders refreshes and tracking, is a    *)
(* constant; that of events, which orders the pages, is not.  All markets  *)
(* have a slug and an end date.                                            *)
(***************************************************************************)
EXTENDS Integers, Sequences, FiniteSets, SequencesExt

CONSTANTS
    Event, Market,
    EventOf,     \* the event of each market
    MarketsOf,   \* the markets nested in each event, in order
    NegRisk,     \* the events that are partitions
    Tokenless,   \* markets without a usable pair of tokens
    Silent,      \* markets the catalogue may list without a rules text
    Liquidity,   \* of each market
    Floor,       \* min_liquidity_usd
    TopN,        \* track_top_n
    Page,        \* events of a page
    MaxEvents,   \* MAX_EVENTS
    MaxRefresh,  \* MAX_CLOSED_REFRESH
    NoRow,       \* model value: the market has no row
    MaxMoves,    \* bound of the model: changes of the catalogue
    MaxFaults    \* bound of the model: requests that fail, passes cut short

NoGroup == "none"
NoText == 0     \* the catalogue gives no rules text

Row == [closed : BOOLEAN, group : NegRisk \cup {NoGroup}]

ASSUME SyncAssumption ==
    /\ IsFiniteSet(Event) /\ NoGroup \notin Event
    /\ EventOf \in [Market -> Event]
    /\ MarketsOf \in [Event -> Seq(Market)]
    /\ \A e \in Event : ToSet(MarketsOf[e]) = {m \in Market : EventOf[m] = e}
    /\ NoRow \notin Row
    /\ NegRisk \subseteq Event
    /\ Tokenless \subseteq Market
    /\ Silent \subseteq Market
    /\ Liquidity \in [Market -> Nat]
    /\ \A m, n \in Market : Liquidity[m] = Liquidity[n] => m = n
    /\ Floor \in Nat
    /\ {TopN, Page, MaxEvents, MaxRefresh} \subseteq Nat \ {0}
    /\ {MaxMoves, MaxFaults} \subseteq Nat

VARIABLES
    gamma,    \* the catalogue: per market, whether it is closed and its rules, if any
    ranking,  \* the events by liquidity, as the catalogue orders them
    ended,    \* markets whose end date has passed
    rows,     \* table markets: closed and neg_risk_id of each row
    rules,    \* table rules_text: the versions stored of each market
    groups,   \* neg_risk_groups: legs of each partition, in order
    tracked,  \* markets whose tokens the feed was told to track
    pc,       \* where the pass is
    offset,   \* its offset
    fetched,  \* raw_events: per event, what the catalogue said of its markets, in order
    asked,    \* past-end markets still to be refreshed
    seen,     \* the markets written so far, and
    legs,     \* all_groups: those of each partition, in order
    moves, faults

catalogue == <<gamma, ranking, ended>>
tables == <<rows, rules>>
shared == <<groups, tracked>>
pass == <<pc, offset, fetched, asked, seen, legs>>
syncVars == <<gamma, ranking, ended, rows, rules, groups, tracked, pc, offset,
              fetched, asked, seen, legs, moves, faults>>

\* _event_group_id()
GroupOf(m) == IF EventOf[m] \in NegRisk THEN EventOf[m] ELSE NoGroup

\* The rules a market may be listed with.
RulesOf(m) == IF m \in Silent THEN {NoText, 1, 2} ELSE {1, 2}

\* What the catalogue lists: the events with an open market, by liquidity.
Open == {EventOf[m] : m \in {m \in Market : ~gamma[m].closed}}

Before(d, e) == \E i, j \in DOMAIN ranking : i < j /\ ranking[i] = d /\ ranking[j] = e

Listed(from, to) ==
    LET place(e) == Cardinality({d \in Open : Before(d, e)})
    IN  {e \in Open : from <= place(e) /\ place(e) < to}

\* Some events in the order of the catalogue: there is one such sequence.
InOrder(events) ==
    {s \in SetToSeqs(events) : \A i, j \in DOMAIN s : i < j => Before(s[i], s[j])}

\* The markets nested in an event, as the catalogue describes them now.
Nested(e) ==
    [i \in 1 .. Len(MarketsOf[e]) |->
        LET m == MarketsOf[e][i]
        IN  [market |-> m, closed |-> gamma[m].closed, rules |-> gamma[m].rules]]

\* The first n of a set of markets by liquidity.
TopOf(n, set) == {m \in set : Cardinality({k \in set : Liquidity[k] > Liquidity[m]}) < n}

\* Rows that are open although their end date has passed.
Overdue == {m \in ended : rows[m] # NoRow /\ ~rows[m].closed}

\* A bug for ClosedEventually to find: closed rows are refreshed too.
PastEndClosedToo == TopOf(MaxRefresh, {m \in ended : rows[m] # NoRow})

\* WHERE closed=0 AND end_date <= now ORDER BY liquidity DESC LIMIT MAX_CLOSED_REFRESH
PastEnd == TopOf(MaxRefresh, Overdue)

\* A bug for SyncTypeOK to find: the tracked markets are not limited.
TrackableUnlimited == {m \in seen : Liquidity[m] >= Floor}

\* The markets to track: the most liquid above the floor.
Trackable == TopOf(TopN, {m \in seen : Liquidity[m] >= Floor})

----------------------------------------------------------------------------

SyncInit ==
    /\ gamma = [m \in Market |-> [closed |-> FALSE, rules |-> IF m \in Silent THEN NoText ELSE 1]]
    /\ ranking \in SetToSeqs(Event)
    /\ ended = {}
    /\ rows = [m \in Market |-> NoRow]
    /\ rules = [m \in Market |-> {}]
    /\ groups = [e \in {} |-> <<>>]
    /\ tracked = {}
    /\ pc = "idle"
    /\ offset = 0
    /\ fetched = <<>>
    /\ asked = {}
    /\ seen = {}
    /\ legs = [e \in NegRisk |-> <<>>]
    /\ moves = 0
    /\ faults = 0

(***************************************************************************)
(* The catalogue.                                                          *)
(***************************************************************************)

CatalogueMoves ==
    /\ pc # "write"
    /\ moves < MaxMoves
    /\ moves' = moves + 1
    /\ UNCHANGED <<tables, shared, pass, faults>>

\* A market closes.
MarketCloses(m) ==
    /\ CatalogueMoves
    /\ ~gamma[m].closed
    /\ gamma' = [gamma EXCEPT ![m].closed = TRUE]
    /\ UNCHANGED <<ranking, ended>>

\* The rules of a market are rewritten, given for the first time or left out.
RulesChange(m) ==
    /\ CatalogueMoves
    /\ \E v \in RulesOf(m) \ {gamma[m].rules} : gamma' = [gamma EXCEPT ![m].rules = v]
    /\ UNCHANGED <<ranking, ended>>

\* Another event becomes the most liquid.
RankingChanges(order) ==
    /\ CatalogueMoves
    /\ order # ranking
    /\ ranking' = order
    /\ UNCHANGED <<gamma, ended>>

\* The end date of a market passes.
EndDatePasses(m) ==
    /\ pc # "write"
    /\ m \notin ended
    /\ ended' = ended \cup {m}
    /\ UNCHANGED <<gamma, ranking, tables, shared, pass, moves, faults>>

(***************************************************************************)
(* A pass.                                                                 *)
(***************************************************************************)

StartPass ==
    /\ pc = "idle"
    /\ pc' = "pages"
    /\ UNCHANGED <<catalogue, tables, shared, offset, fetched, asked, seen, legs, moves, faults>>

\* The next page arrives; an empty one, or the cap on the events, ends the fetch.
FetchPage ==
    /\ pc = "pages"
    /\ \E batch \in InOrder(Listed(offset, offset + Page)) :
           /\ fetched' = fetched \o [i \in 1 .. Len(batch) |-> Nested(batch[i])]
           /\ offset' = offset + Len(batch)
           /\ pc' = IF batch = <<>> \/ offset' >= MaxEvents THEN "select" ELSE "pages"
    /\ UNCHANGED <<catalogue, tables, shared, asked, seen, legs, moves, faults>>

\* The stored markets to refresh are selected, and all requested.
SelectPastEnd ==
    /\ pc = "select"
    /\ asked' = PastEnd
    /\ pc' = "refresh"
    /\ UNCHANGED <<catalogue, tables, shared, offset, fetched, seen, legs, moves, faults>>

\* One of them arrives and is written at once.
Refresh(m) ==
    /\ pc = "refresh"
    /\ m \in asked
    /\ asked' = asked \ {m}
    /\ rows' = [rows EXCEPT ![m].closed = gamma[m].closed]
    /\ UNCHANGED <<catalogue, rules, shared, pc, offset, fetched, seen, legs, moves, faults>>

\* The request of one of them fails, or finds no such market: the row is left as it is.
RefreshFails(m) ==
    /\ pc = "refresh"
    /\ m \in asked
    /\ faults < MaxFaults
    /\ faults' = faults + 1
    /\ asked' = asked \ {m}
    /\ UNCHANGED <<catalogue, tables, shared, pc, offset, fetched, seen, legs, moves>>

StartWriting ==
    /\ pc = "refresh"
    /\ asked = {}
    /\ pc' = "write"
    /\ UNCHANGED <<catalogue, tables, shared, offset, fetched, asked, seen, legs, moves, faults>>

\* A bug for GroupsSound to find: markets seen before are not passed over.
UsableAgain(x) == x.market \notin Tokenless

\* parse_market() can use it, and it was not in an earlier page.
Usable(x) == x.market \notin Tokenless /\ x.market \notin seen

\* What is left of the events once the first market of the first is taken.
Rest(events) ==
    IF Len(events[1]) > 1 THEN <<Tail(events[1])>> \o Tail(events) ELSE Tail(events)

\* The next of the markets of the fetch: its row, then its rules if it has any, then its
\* group.
WriteMarket ==
    /\ pc = "write"
    /\ fetched # <<>>
    /\ fetched' = Rest(fetched)
    /\ LET x == fetched[1][1]
           m == x.market
       IN  IF Usable(x)
           THEN /\ rows' = [rows EXCEPT ![m] = [closed |-> x.closed, group |-> GroupOf(m)]]
                /\ rules' = [rules EXCEPT ![m] = @ \cup ({x.rules} \ {NoText})]
                /\ seen' = seen \cup {m}
                /\ legs' = IF GroupOf(m) = NoGroup THEN legs
                           ELSE [legs EXCEPT ![GroupOf(m)] = Append(@, m)]
           ELSE UNCHANGED <<tables, seen, legs>>
    /\ UNCHANGED <<catalogue, shared, pc, offset, asked, moves, faults>>

PassOver ==
    /\ pc' = "idle"
    /\ offset' = 0
    /\ fetched' = <<>>
    /\ asked' = {}
    /\ seen' = {}
    /\ legs' = [e \in NegRisk |-> <<>>]

\* The groups are replaced and the feed told what to track.
Publish ==
    /\ pc = "write"
    /\ fetched = <<>>
    /\ groups' = [e \in {e \in NegRisk : Len(legs[e]) >= 2} |-> legs[e]]
    /\ tracked' = Trackable
    /\ PassOver
    /\ UNCHANGED <<catalogue, tables, moves, faults>>

\* An exception: what was written stays, the pass is tried again after a delay.
Abort ==
    /\ pc # "idle"
    /\ faults < MaxFaults
    /\ faults' = faults + 1
    /\ PassOver
    /\ UNCHANGED <<catalogue, tables, shared, moves>>

\* The process is killed and restarted: the tables remain.
Restart ==
    /\ faults < MaxFaults
    /\ faults' = faults + 1
    /\ groups' = [e \in {} |-> <<>>]
    /\ tracked' = {}
    /\ PassOver
    /\ UNCHANGED <<catalogue, tables, moves>>

Pass ==
    \/ StartPass \/ FetchPage \/ SelectPastEnd \/ StartWriting \/ WriteMarket \/ Publish
    \/ \E m \in asked : Refresh(m)

SyncNext ==
    \/ Pass
    \/ \E m \in Market : MarketCloses(m) \/ RulesChange(m) \/ EndDatePasses(m)
    \/ \E order \in SetToSeqs(Event) : RankingChanges(order)
    \/ \E m \in asked : RefreshFails(m)
    \/ Abort
    \/ Restart

SyncSpec == SyncInit /\ [][SyncNext]_syncVars

\* The task is an endless loop that survives every exception, and requests time out.
SyncFairSpec == SyncSpec /\ WF_syncVars(Pass)

----------------------------------------------------------------------------

\* The shape of the tables, of what the pass shares and of its local state.
SyncTypeOK ==
    /\ gamma \in [Market -> [closed : BOOLEAN, rules : {NoText, 1, 2}]]
    /\ ranking \in SetToSeqs(Event)
    /\ ended \subseteq Market
    /\ \A m \in Market : rows[m] # NoRow => rows[m].closed \in BOOLEAN /\ rows[m].group = GroupOf(m)
    /\ rules \in [Market -> SUBSET {1, 2}]
    /\ DOMAIN groups \subseteq NegRisk
    /\ Cardinality(tracked) <= TopN /\ \A m \in tracked : rows[m] # NoRow
    /\ pc \in {"idle", "pages", "select", "refresh", "write"}
    /\ offset \in Nat
    /\ asked \subseteq Market
    /\ seen \subseteq Market /\ DOMAIN legs = NegRisk
    /\ {moves, faults} \subseteq Nat

\* The arbitrage scanner adds the prices of the legs of a group up to one: a leg never
\* counts twice, though an event that changes its rank between two pages is fetched twice,
\* and each leg has a row in the same group and, unless the catalogue may list it without
\* a text, its rules on file, whatever was cut short.
GroupsSound ==
    \A e \in DOMAIN groups :
        /\ Len(groups[e]) >= 2
        /\ IsInjective(groups[e])
        /\ \A m \in Range(groups[e]) :
              /\ rows[m] # NoRow /\ rows[m].group = e
              /\ m \in Silent \/ rules[m] # {}

\* A market that closed does not stay open in the table for ever once its end date has
\* passed, unless more overdue rows than a pass refreshes come before it: that the rows of
\* the fetch, older than the refresh, may open it again is only for a pass.
Unnoticed(m) == gamma[m].closed /\ m \in TopOf(MaxRefresh, Overdue)

ClosedEventually == \A m \in Market : ~<>[]Unnoticed(m)

\* struct_arb.py:66: a group has "one [leg] per outcome", so its prices must add up to one.
PartitionComplete ==
    \A e \in DOMAIN groups : Range(groups[e]) = ToSet(MarketsOf[e])
=============================================================================
