------------------------------- MODULE Whale -------------------------------
(***************************************************************************)
(* Whale following: the on-chain listener (pm/onchain/ctf_listener.py)     *)
(* polls blocks and records the transfers of interesting wallets, the      *)
(* scorer (pm/onchain/whale_scorer.py) rates the recorded positions once   *)
(* their markets resolve and keeps the follow list.                        *)
(*                                                                         *)
(* Listener and scorer are two tasks of one process.  The listener awaits  *)
(* the head of the chain and the logs of each window; a scorer pass has no *)
(* await.  The connection autocommits, so each SQL statement is a step:    *)
(* recording a position is two statements, and so is rating one.           *)
(*                                                                         *)
(* Abstractions.  A block carries at most one transfer.  A wallet's        *)
(* calibration is the ratio it is computed from.  The node answers with    *)
(* the chain as it is, or with an error; the chain is never reorganised.   *)
(* Local variables that are dead are reset, to have fewer states.          *)
(***************************************************************************)
EXTENDS Integers, Sequences, FiniteSets

CONSTANTS
    Wallet,       \* the wallets seen on chain
    Zero,         \* the zero address: sender of a mint, receiver of a burn
    OutcomeToken, \* outcome tokens
    Blocks,       \* what a block may carry: sets of at most one transfer
    Payouts,      \* what the market row of a token may say: "open", "won", "lost"
    Setups,       \* how an operator may begin: a follow list, and whale_discovery
    Lookback,     \* polygon_lookback_blocks
    MaxSpan,      \* polygon_max_block_span
    BatchLimit,   \* batch of score_unresolved()
    MinResolved,  \* whale_promote_min_resolved
    Bar,          \* whale_promote_calibration, in percent
    MaxHead,      \* bound of the model: blocks mined
    MaxFaults     \* bound of the model: passes cut short

Transfer == [from : Wallet \cup {Zero}, to : Wallet \cup {Zero}, token : OutcomeToken, big : BOOLEAN]

NoBlock == -1   \* last_block is None

ASSUME WhaleAssumption ==
    /\ IsFiniteSet(Wallet) /\ Zero \notin Wallet
    /\ \A ts \in Blocks : ts \subseteq Transfer /\ \A s, t \in ts : s = t
    /\ "open" \in Payouts /\ Payouts \subseteq {"open", "won", "lost"}
    /\ Setups \subseteq [follow : SUBSET Wallet, discovery : BOOLEAN]
    /\ Lookback \in Nat
    /\ MaxSpan \in Nat \ {0}
    /\ BatchLimit \in Nat \ {0}
    /\ MinResolved \in Nat \ {0}
    /\ Bar \in 1 .. 100
    /\ MaxHead \in Nat
    /\ MaxFaults \in Nat

VARIABLES
    discovery,  \* the setting whale_discovery
    chain,      \* the transfers of blocks 1, 2, ...: a set of at most one
    payout,     \* of each token: "won" or "lost" once its market is closed, or "open"
    positions,  \* table whale_positions, in id order
    stats,      \* table whale_wallets: tracked, trades, resolved, correct
    lpc,        \* where the listener is
    lastBlock,  \* its last_block
    head,       \* its head
    cursor,     \* its cursor
    followed,   \* its `tracked` set, read before the logs of the window
    pending,    \* the sides of the transfers of the window it has still to record
    spc,        \* where the scorer is
    todo,       \* position ids its pass has still to visit
    rated,      \* the position whose aggregate it has still to update
    published,  \* history: the whale_transfer events put on the bus
    start,      \* history: last_block at the first poll of this run
    skipped,    \* history: blocks a poll left out
    faults,     \* number of passes cut short
    uncounted,  \* history: positions recorded, but cut off before their wallet counted them
    untallied   \* history: positions rated, but missed by the aggregate of their wallet

world == <<discovery, chain, payout>>
listener == <<lpc, lastBlock, head, cursor, followed, pending, start, skipped>>
scorer == <<spc, todo, rated>>
trouble == <<faults, uncounted, untallied>>
vars == <<discovery, chain, payout, positions, stats, lpc, lastBlock, head, cursor,
          followed, pending, spc, todo, rated, published, start, skipped, faults,
          uncounted, untallied>>

\* Points at which another task of the process may run.
AtAwait == lpc \in {"idle", "fetch"} /\ spc = "sleep"

Tracked == {w \in Wallet : stats[w].tracked}

\* The end of the window of at most MaxSpan blocks at the cursor.
ChunkEnd == IF cursor + MaxSpan - 1 < head THEN cursor + MaxSpan - 1 ELSE head

\* The two sides of a transfer.
Sides(b, t) ==
    { [block |-> b, wallet |-> t.from, side |-> "SELL", transfer |-> t],
      [block |-> b, wallet |-> t.to, side |-> "BUY", transfer |-> t] }

IsMint(t) == t.from = Zero
IsBurn(t) == t.to = Zero

\* A bug for TypeOK to find: mints are candidates too, so the zero address gets positions.
WantedMints(x, follow) == x.wallet \in follow \/ (discovery /\ x.transfer.big)

\* The sides _scan_window() records: those of wallets it follows, and in discovery mode
\* those of every large trade between two wallets.
Wanted(x, follow) ==
    \/ x.wallet \in follow
    \/ discovery /\ ~IsMint(x.transfer) /\ ~IsBurn(x.transfer) /\ x.transfer.big

\* The whale_transfer event of a side.
EventOf(x) == [block |-> x.block, wallet |-> x.wallet, side |-> x.side]

\* The sides of the transfers of some blocks that are to be recorded.
Window(first, last, follow) ==
    {x \in UNION {UNION {Sides(b, t) : t \in chain[b]} : b \in first .. last} : Wanted(x, follow)}

\* The logs come in the order of the blocks, and of a transfer the seller comes first.
Before(x, y) == x.block < y.block \/ (x.block = y.block /\ x.side = "SELL" /\ y.side = "BUY")

\* The side the listener is at.
Current == CHOOSE x \in pending : \A y \in pending : ~Before(y, x)

Unrated == {i \in DOMAIN positions : positions[i].outcome = "none"}

\* A bug for OldestRated to find: the pages of the query begin after the first row.
BatchAfterFirst == {i \in Unrated : Cardinality({j \in Unrated : j < i}) \in 1 .. BatchLimit}

\* WHERE outcome IS NULL ORDER BY id LIMIT batch
Batch == {i \in Unrated : Cardinality({j \in Unrated : j < i}) < BatchLimit}

\* BUY of a token that won, SELL of one that lost.
Outcome(p) == IF (payout[p.token] = "won") = (p.side = "BUY") THEN "right" ELSE "wrong"

\* A wallet has a row in whale_wallets once it is tracked or one of its trades is counted.
\* (Only a wallet with resolved positions is ever demoted.)
Listed(w) == stats[w].tracked \/ stats[w].trades > 0 \/ stats[w].resolved > 0

\* The positions whose wallet has not counted them: the statement was cut off, or is next.
Uncounted == uncounted \cup (IF lpc = "count" THEN {Len(positions)} ELSE {})

\* The same of the ratings.
Untallied == untallied \cup (IF spc = "tally" THEN {rated} ELSE {})

ClearsBar(w) == 100 * stats[w].correct >= Bar * stats[w].resolved

----------------------------------------------------------------------------

Init ==
    /\ chain = <<>>
    /\ payout = [t \in OutcomeToken |-> "open"]
    /\ positions = <<>>
    /\ \E setup \in Setups :
          /\ discovery = setup.discovery
          /\ stats = [w \in Wallet |-> [tracked |-> w \in setup.follow, trades |-> 0,
                                        resolved |-> 0, correct |-> 0]]
    /\ lpc = "idle"
    /\ lastBlock = NoBlock
    /\ head = 0
    /\ cursor = 0
    /\ followed = {}
    /\ pending = {}
    /\ spc = "sleep"
    /\ todo = {}
    /\ rated = 0
    /\ published = {}
    /\ start = NoBlock
    /\ skipped = {}
    /\ faults = 0
    /\ uncounted = {}
    /\ untallied = {}

\* A block is mined.  (A step of another machine, but the listener reads the chain only
\* when a request is answered, so it is enough to let it happen at the awaits.)
Mine(ts) ==
    /\ AtAwait
    /\ Len(chain) < MaxHead
    /\ chain' = Append(chain, ts)
    /\ UNCHANGED <<discovery, payout, positions, stats, listener, scorer, published, trouble>>

\* metadata_sync rewrites the market row of a token.
MetadataSync(t, p) ==
    /\ AtAwait
    /\ payout' = [payout EXCEPT ![t] = p]
    /\ UNCHANGED <<discovery, chain, positions, stats, listener, scorer, published, trouble>>

(***************************************************************************)
(* The listener.                                                           *)
(***************************************************************************)

\* The head is known: choose where the pass begins.  A first poll looks back; a gap above
\* MaxSpan is clamped to the newest MaxSpan + 1 blocks.
PollHead ==
    /\ lpc = "idle"
    /\ AtAwait
    /\ head' = Len(chain)
    /\ lastBlock' = IF lastBlock = NoBlock
                    THEN (IF head' > Lookback THEN head' - Lookback ELSE 0)
                    ELSE lastBlock
    /\ start' = IF lastBlock = NoBlock THEN lastBlock' ELSE start
    /\ cursor' = IF head' - (lastBlock' + 1) > MaxSpan THEN head' - MaxSpan ELSE lastBlock' + 1
    /\ skipped' = skipped \cup (lastBlock' + 1 .. cursor' - 1)
    /\ lpc' = "scan"
    /\ UNCHANGED <<world, positions, stats, followed, pending, scorer, published, trouble>>

\* Nobody to follow and nothing to discover: the window is passed over without a request.
PassOver ==
    /\ lpc = "scan"
    /\ cursor <= head
    /\ Tracked = {}
    /\ ~discovery
    /\ cursor' = ChunkEnd + 1
    /\ UNCHANGED <<world, positions, stats, lpc, lastBlock, head, followed, pending, start,
                   skipped, scorer, published, trouble>>

\* Read the follow list, then request the logs of the window.
Request ==
    /\ lpc = "scan"
    /\ cursor <= head
    /\ Tracked # {} \/ discovery
    /\ followed' = Tracked
    /\ lpc' = "fetch"
    /\ UNCHANGED <<world, positions, stats, lastBlock, head, cursor, pending, start, skipped,
                   scorer, published, trouble>>

\* A bug for EventsBacked to find: events are published before the rows are written.
LogsArrivePublish ==
    /\ lpc = "fetch"
    /\ AtAwait
    /\ pending' = Window(cursor, ChunkEnd, followed)
    /\ lpc' = "write"
    /\ published' = published \cup {EventOf(x) : x \in pending'}
    /\ UNCHANGED <<world, positions, stats, lastBlock, head, cursor, followed, start, skipped,
                   scorer, trouble>>

\* The logs of the window arrive and are decoded.
LogsArrive ==
    /\ lpc = "fetch"
    /\ AtAwait
    /\ pending' = Window(cursor, ChunkEnd, followed)
    /\ lpc' = "write"
    /\ UNCHANGED <<world, positions, stats, lastBlock, head, cursor, followed, start, skipped,
                   scorer, published, trouble>>

\* First statement of upsert_position(): the position row.
InsertPosition ==
    /\ lpc = "write"
    /\ pending # {}
    /\ LET x == Current
       IN  positions' = Append(positions, [wallet |-> x.wallet, token |-> x.transfer.token,
                                           side |-> x.side, block |-> x.block,
                                           outcome |-> "none"])
    /\ lpc' = "count"
    /\ UNCHANGED <<world, stats, lastBlock, head, cursor, followed, pending, start, skipped,
                   scorer, published, trouble>>

\* A bug for AggregatesAccount to find: a conflict resets the count of the wallet.
CountTradeResets ==
    /\ lpc = "count"
    /\ stats' = [stats EXCEPT ![Current.wallet].trades = 1]
    /\ lpc' = IF Current.wallet \in followed THEN "publish" ELSE "write"
    /\ pending' = IF Current.wallet \in followed THEN pending ELSE pending \ {Current}
    /\ UNCHANGED <<world, positions, lastBlock, head, cursor, followed, start, skipped,
                   scorer, published, trouble>>

\* Second statement of upsert_position(): the wallet row.
CountTrade ==
    /\ lpc = "count"
    /\ stats' = [stats EXCEPT ![Current.wallet].trades = @ + 1]
    /\ lpc' = IF Current.wallet \in followed THEN "publish" ELSE "write"
    /\ pending' = IF Current.wallet \in followed THEN pending ELSE pending \ {Current}
    /\ UNCHANGED <<world, positions, lastBlock, head, cursor, followed, start, skipped,
                   scorer, published, trouble>>

\* The transfer of a followed wallet is published.  (publish() may also raise: Fail.)
Publish ==
    /\ lpc = "publish"
    /\ published' = published \cup {EventOf(Current)}
    /\ pending' = pending \ {Current}
    /\ lpc' = "write"
    /\ UNCHANGED <<world, positions, stats, lastBlock, head, cursor, followed, start, skipped,
                   scorer, trouble>>

\* The window is written: on to the next one.
NextWindow ==
    /\ lpc = "write"
    /\ pending = {}
    /\ cursor' = ChunkEnd + 1
    /\ followed' = {}
    /\ lpc' = "scan"
    /\ UNCHANGED <<world, positions, stats, lastBlock, head, pending, start, skipped,
                   scorer, published, trouble>>

\* The pass is over: back to sleep.
ForgetPoll ==
    /\ lpc' = "idle"
    /\ head' = 0
    /\ cursor' = 0
    /\ followed' = {}
    /\ pending' = {}

\* The pass is over; nothing changes when it found no new block.
EndPoll ==
    /\ ForgetPoll
    /\ lpc = "scan"
    /\ cursor > head
    /\ lastBlock' = IF lastBlock + 1 <= head THEN head ELSE lastBlock
    /\ UNCHANGED <<world, positions, stats, start, skipped, scorer, published, trouble>>

(***************************************************************************)
(* The scorer.                                                             *)
(***************************************************************************)

\* score_unresolved() reads its batch.
StartRating ==
    /\ AtAwait
    /\ todo' = Batch
    /\ spc' = "rate"
    /\ UNCHANGED <<world, positions, stats, listener, rated, published, trouble>>

First(i) == i \in todo /\ \A j \in todo : i <= j

\* The market of the position is not resolved, or is not in the table.
LeaveUnrated(i) ==
    /\ spc = "rate"
    /\ First(i)
    /\ payout[positions[i].token] = "open"
    /\ todo' = todo \ {i}
    /\ UNCHANGED <<world, positions, stats, listener, spc, rated, published, trouble>>

\* First statement of record_resolution(): the position row.
Rate(i) ==
    /\ spc = "rate"
    /\ First(i)
    /\ payout[positions[i].token] # "open"
    /\ positions' = [positions EXCEPT ![i].outcome = Outcome(positions[i])]
    /\ todo' = todo \ {i}
    /\ rated' = i
    /\ spc' = "tally"
    /\ UNCHANGED <<world, stats, listener, published, trouble>>

\* Second statement of record_resolution(): the aggregate of the wallet.  It is an UPDATE,
\* so nothing is counted for a wallet that has no row.
Tally ==
    /\ spc = "tally"
    /\ LET p == positions[rated]
           right == IF p.outcome = "right" THEN 1 ELSE 0
       IN  \/ /\ Listed(p.wallet)
              /\ stats' = [stats EXCEPT ![p.wallet].resolved = @ + 1,
                                        ![p.wallet].correct = @ + right]
              /\ UNCHANGED untallied
           \/ /\ ~Listed(p.wallet)
              /\ untallied' = Untallied
              /\ UNCHANGED stats
    /\ rated' = 0
    /\ spc' = "rate"
    /\ UNCHANGED <<world, positions, listener, todo, published, faults, uncounted>>

Promotable == {w \in Wallet \ Tracked : stats[w].resolved >= MinResolved /\ ClearsBar(w)}

Demotable == {w \in Tracked : stats[w].resolved >= MinResolved /\ ~ClearsBar(w)}

\* promote_wallets() and demote_wallets(), a statement per wallet.
Promote(w) ==
    /\ spc = "rate"
    /\ todo = {}
    /\ w \in Promotable
    /\ stats' = [stats EXCEPT ![w].tracked = TRUE]
    /\ UNCHANGED <<world, positions, listener, scorer, published, trouble>>

Demote(w) ==
    /\ spc = "rate"
    /\ todo = {}
    /\ Promotable = {}
    /\ w \in Demotable
    /\ stats' = [stats EXCEPT ![w].tracked = FALSE]
    /\ UNCHANGED <<world, positions, listener, scorer, published, trouble>>

EndRating ==
    /\ spc = "rate"
    /\ todo = {}
    /\ Promotable = {}
    /\ Demotable = {}
    /\ spc' = "sleep"
    /\ UNCHANGED <<world, positions, stats, listener, todo, rated, published, trouble>>

(***************************************************************************)
(* Failures and the specification.                                         *)
(***************************************************************************)

\* An exception in a pass of the listener (a request, a statement, a full queue): the next
\* pass starts again after last_block.
FailPoll ==
    /\ lpc # "idle"
    /\ spc = "sleep"
    /\ faults < MaxFaults
    /\ faults' = faults + 1
    /\ uncounted' = Uncounted
    /\ ForgetPoll
    /\ UNCHANGED <<world, positions, stats, lastBlock, start, skipped, scorer, published,
                   untallied>>

\* An exception in a pass of the scorer.
FailRating ==
    /\ spc # "sleep"
    /\ faults < MaxFaults
    /\ faults' = faults + 1
    /\ untallied' = Untallied
    /\ spc' = "sleep"
    /\ todo' = {}
    /\ rated' = 0
    /\ UNCHANGED <<world, positions, stats, listener, published, uncounted>>

\* The process is killed, at any statement, and restarted: only the tables remain.
Restart ==
    /\ faults < MaxFaults
    /\ faults' = faults + 1
    /\ uncounted' = Uncounted
    /\ untallied' = Untallied
    /\ ForgetPoll
    /\ lastBlock' = NoBlock
    /\ spc' = "sleep"
    /\ todo' = {}
    /\ rated' = 0
    /\ start' = NoBlock
    /\ skipped' = {}
    /\ UNCHANGED <<world, positions, stats, published>>

Poll ==
    \/ PollHead \/ PassOver \/ Request \/ LogsArrive \/ InsertPosition
    \/ CountTrade \/ Publish \/ NextWindow \/ EndPoll

Rating ==
    \/ StartRating \/ Tally \/ EndRating
    \/ \E i \in todo : LeaveUnrated(i) \/ Rate(i)
    \/ \E w \in Wallet : Promote(w) \/ Demote(w)

Next ==
    \/ Poll
    \/ Rating
    \/ \E ts \in Blocks : Mine(ts)
    \/ \E t \in OutcomeToken, p \in Payouts : MetadataSync(t, p)
    \/ FailPoll
    \/ FailRating
    \/ Restart

Spec == Init /\ [][Next]_vars

\* Both tasks are endless loops that survive every exception, and requests time out
\* (polygon_rpc.py:55-67).  The event loop serves ready tasks in turn, so the scorer gets the
\* processor at one of the awaits of the listener: strong fairness.
FairSpec == Spec /\ WF_vars(Poll) /\ SF_vars(Rating)

----------------------------------------------------------------------------

Event == [block : Nat, wallet : Wallet, side : {"BUY", "SELL"}]

\* The shape of the tables and of the local state of the tasks.
TypeOK ==
    /\ discovery \in BOOLEAN
    /\ chain \in Seq(Blocks)
    /\ payout \in [OutcomeToken -> Payouts]
    /\ positions \in Seq([wallet : Wallet, token : OutcomeToken, side : {"BUY", "SELL"},
                          block : Nat, outcome : {"none", "right", "wrong"}])
    /\ stats \in [Wallet -> [tracked : BOOLEAN, trades : Nat, resolved : Nat, correct : Nat]]
    /\ lpc \in {"idle", "scan", "fetch", "write", "count", "publish"}
    /\ {lastBlock, start} \subseteq Nat \cup {NoBlock}
    /\ {head, cursor, rated, faults} \subseteq Nat
    /\ followed \subseteq Wallet
    /\ spc \in {"sleep", "rate", "tally"}
    /\ todo \subseteq DOMAIN positions
    /\ uncounted \subseteq DOMAIN positions
    /\ untallied \subseteq DOMAIN positions
    /\ published \subseteq Event

RowsOf(w) == {i \in DOMAIN positions : positions[i].wallet = w}

\* The aggregates of a wallet, on which the follow list rests, are those of its positions,
\* less the ones an exception or a kill cut off between their two statements: no retry or
\* rescan counts a row twice.  Each fault costs one position at most, although it may cost
\* both counts of it: a rating finds no wallet row only if the trade was cut off as well.
AggregatesAccount ==
    /\ \A w \in Wallet :
          /\ stats[w].trades = Cardinality(RowsOf(w) \ Uncounted)
          /\ stats[w].resolved = Cardinality((RowsOf(w) \ Unrated) \ Untallied)
          /\ stats[w].correct =
                 Cardinality({i \in RowsOf(w) \ Untallied : positions[i].outcome = "right"})
    /\ Cardinality(uncounted \cup untallied) <= faults

\* As long as no pass was cut short, the windows of successive polls do not overlap: no side
\* of a transfer is recorded twice, however the chain grows while a poll waits.
RecordedOnce ==
    faults = 0 => \A i, j \in DOMAIN positions :
        (positions[i].block = positions[j].block /\ positions[i].side = positions[j].side)
            => i = j

\* The windows leave no gap either: every large trade in a block the listener has passed,
\* other than those it skipped to catch up, is recorded, failed polls and clamping of the
\* window notwithstanding.
NothingMissed ==
    start # NoBlock => \A b \in (start + 1 .. lastBlock) \ skipped : \A t \in chain[b] :
        (discovery /\ t.big /\ ~IsMint(t) /\ ~IsBurn(t)) =>
            \A side \in {"BUY", "SELL"} :
                \E i \in DOMAIN positions :
                    positions[i].block = b /\ positions[i].side = side

\* A transfer the signal scanner hears of is in the position table: it can be scored later,
\* even if the process is killed in the meantime.
EventsBacked ==
    \A e \in published : \E i \in DOMAIN positions :
        positions[i].block = e.block /\ positions[i].wallet = e.wallet /\ positions[i].side = e.side

\* Every large trade the listener had to see is in the table of positions, once, and so is
\* every one the signal scanner heard of (ctf_listener.py, wallet_tracker.py).
TradesRecorded == RecordedOnce /\ NothingMissed /\ EventsBacked

\* Between passes of the scorer, none of which was cut short, the follow list is what the
\* aggregates say it should be for every wallet with enough resolved positions.
FollowListCurrent ==
    (faults = 0 /\ spc = "sleep") => \A w \in Wallet :
        stats[w].resolved >= MinResolved => stats[w].tracked = ClearsBar(w)

\* The aggregates account for the positions, and the follow list for the aggregates
\* (wallet_tracker.py, whale_scorer.py).
WalletsRated == AggregatesAccount /\ FollowListCurrent

RateDue(i) ==
    /\ i \in DOMAIN positions
    /\ positions[i].outcome = "none"
    /\ payout[positions[i].token] # "open"

\* A position among the oldest unrated ones whose market has resolved is eventually rated,
\* whatever is cut short.
Oldest(i) == Cardinality({j \in Unrated : j < i}) < BatchLimit

OldestRated == \A i \in 1 .. 2 * MaxHead : ~<>[](Oldest(i) /\ RateDue(i))

\* whale_scorer.py:9: the scorer will "match each unscored whale_position" to its resolved
\* market: no such position stays unrated forever.
EachRated == \A i \in 1 .. 2 * MaxHead : ~<>[]RateDue(i)
=============================================================================
