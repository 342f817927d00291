------------------------ MODULE WhaleResearchProofs ------------------------
(***************************************************************************)
(* Theorems about signals that rest on a past: the wallets that are        *)
(* followed, with the trades they are rated by, and the research signals,  *)
(* with the windows they are computed from.                                *)
(*                                                                         *)
(* The table of positions and the aggregates of the wallets (Whale,        *)
(* TradesRecorded and WalletsRated).  What the listener has passed is told *)
(* by last_block between two polls, and by its cursor and the sides it has *)
(* still to record in the middle of one.  The proof follows these through  *)
(* a poll: behind them every side is in the table, ahead of them none is   *)
(* unless a pass was cut short.  The scorer visits only positions that     *)
(* have no outcome yet.                                                    *)
(*                                                                         *)
(* The trackers (Research, ReplayAgrees and SamplesSound).  A call is      *)
(* taken apart into a window that gains a sample and debouncers that are   *)
(* spent (GroupIs, MomIs); two calls on other windows and other keys       *)
(* commute, which is all the replay's order of them needs.  What the       *)
(* replay of the log so far would give is a function of the log and takes  *)
(* one step with each event (ReplayGoesOn); the invariant ties its view to *)
(* the books, its trackers to the live ones while the scanner keeps up,    *)
(* and its samples to the events they cover (ResearchInv).                 *)
(***************************************************************************)
EXTENDS Whale, Research, SumProofs, SequenceTheorems

Writing == lpc \in {"write", "count", "publish"}

\* The listener has inserted the row of the current side, and is not done with it.
Inserted == lpc \in {"count", "publish"}

Sees(i, block, side) == positions[i].block = block /\ positions[i].side = side

Recorded(x) ==
    \E i \in DOMAIN positions :
        positions[i].block = x.block /\ positions[i].wallet = x.wallet /\ positions[i].side = x.side

\* Where the listener is in the chain, and what it holds there.
PollInv ==
    /\ (lastBlock = NoBlock) = (start = NoBlock)
    /\ lastBlock # NoBlock => start <= lastBlock /\ lastBlock <= Len(chain)
    /\ lpc # "idle" => /\ lastBlock # NoBlock
                       /\ head <= Len(chain)
                       /\ cursor \in lastBlock + 1 .. head + 1
    /\ Writing \/ lpc = "fetch" => cursor <= head
    /\ ~Writing => pending = {}
    /\ Writing => pending \subseteq Window(cursor, ChunkEnd, followed)
    /\ Inserted => pending # {}
    /\ spc # "sleep" => lpc \in {"idle", "fetch"}

\* Every large trade of a block is in the table, on both sides.
Covered(b) ==
    \A t \in chain[b] :
        (discovery /\ t.big /\ ~IsMint(t) /\ ~IsBurn(t)) =>
            \A side \in {"BUY", "SELL"} : \E i \in DOMAIN positions : Sees(i, b, side)

\* Behind the listener nothing is missing.
BehindInv ==
    /\ start # NoBlock => \A b \in (start + 1 .. lastBlock) \ skipped : Covered(b)
    /\ lpc # "idle" => \A b \in (lastBlock + 1 .. cursor - 1) \ skipped : Covered(b)
    /\ Writing => \A x \in Window(cursor, ChunkEnd, followed) \ pending : Recorded(x)
    /\ Inserted => Recorded(Current)
    /\ EventsBacked

\* Ahead of it nothing is recorded yet, if no pass was cut short.
AheadInv ==
    faults = 0 =>
        /\ \A i, j \in DOMAIN positions : Sees(i, positions[j].block, positions[j].side) => i = j
        /\ lastBlock = NoBlock => positions = <<>>
        /\ lpc = "idle" => \A i \in DOMAIN positions : positions[i].block <= lastBlock
        /\ lpc \in {"scan", "fetch"} => \A i \in DOMAIN positions : positions[i].block < cursor
        /\ Writing => /\ \A i \in DOMAIN positions : positions[i].block <= ChunkEnd
                      /\ \A x \in pending : \A i \in DOMAIN positions :
                            Sees(i, x.block, x.side) => Inserted /\ x = Current

\* The scorer is at positions that have no outcome, or that it has just given one.
RatingInv ==
    /\ todo \subseteq Unrated
    /\ spc = "tally" => rated \in DOMAIN positions /\ positions[rated].outcome # "none"

\* The rows a wallet has counted, those rated ones among its tally, and the right ones.
CountedRows(w) == RowsOf(w) \ Uncounted
TalliedRows(w) == (RowsOf(w) \ Unrated) \ Untallied
RightRows(w) == {i \in RowsOf(w) \ Untallied : positions[i].outcome = "right"}

\* The aggregates of a wallet are those of these rows.
CountsInv ==
    \A w \in Wallet : /\ stats[w].trades = Cardinality(CountedRows(w))
                      /\ stats[w].resolved = Cardinality(TalliedRows(w))
                      /\ stats[w].correct = Cardinality(RightRows(w))

\* What is missing is of the table, and what is under way is not missing yet.
MissingInv ==
    /\ Uncounted \subseteq DOMAIN positions
    /\ Untallied \subseteq DOMAIN positions \ Unrated
    /\ lpc = "count" => /\ Len(positions) \notin uncounted
                        /\ positions[Len(positions)].wallet = Current.wallet
    /\ spc = "tally" => rated \notin untallied

\* A fault costs one row.
LossInv == Cardinality(uncounted \cup untallied) <= faults

IInv ==
    /\ TypeOK
    /\ PollInv
    /\ BehindInv
    /\ AheadInv
    /\ RatingInv
    /\ CountsInv
    /\ MissingInv
    /\ LossInv
    /\ FollowListCurrent

----------------------------------------------------------------------------
(***************************************************************************)
(* The shape of the state, in parts.                                       *)
(***************************************************************************)

Position == [wallet : Wallet, token : OutcomeToken, side : {"BUY", "SELL"}, block : Nat,
             outcome : {"none", "right", "wrong"}]

Aggregate == [tracked : BOOLEAN, trades : Nat, resolved : Nat, correct : Nat]

WorldOK ==
    /\ discovery \in BOOLEAN
    /\ chain \in Seq(Blocks)
    /\ payout \in [OutcomeToken -> Payouts]

TablesOK ==
    /\ positions \in Seq(Position)
    /\ stats \in [Wallet -> Aggregate]
    /\ published \subseteq Event

ListenerOK ==
    /\ lpc \in {"idle", "scan", "fetch", "write", "count", "publish"}
    /\ lastBlock \in Nat \cup {NoBlock} /\ start \in Nat \cup {NoBlock}
    /\ head \in Nat /\ cursor \in Nat
    /\ followed \subseteq Wallet

ScorerOK ==
    /\ spc \in {"sleep", "rate", "tally"}
    /\ todo \subseteq DOMAIN positions
    /\ rated \in Nat

TroubleOK == faults \in Nat

Shape == WorldOK /\ TablesOK /\ ListenerOK /\ ScorerOK /\ TroubleOK

MissingOK == uncounted \subseteq DOMAIN positions /\ untallied \subseteq DOMAIN positions

\* The type invariant, in its parts.
LEMMA TypeParts == (TypeOK <=> Shape /\ MissingOK) /\ (TypeOK' <=> Shape' /\ MissingOK')
BY DEF TypeOK, Shape, WorldOK, TablesOK, ListenerOK, ScorerOK, TroubleOK, Position, Aggregate,
       MissingOK

\* The rows and the blocks are numbered from one.
LEMMA Numbered ==
    ASSUME Shape
    PROVE  /\ Len(positions) \in Nat /\ DOMAIN positions = 1 .. Len(positions)
           /\ \A i \in DOMAIN positions : positions[i] \in Position
           /\ Len(chain) \in Nat /\ \A b \in 1 .. Len(chain) : chain[b] \in Blocks
BY DEF Shape, TablesOK, WorldOK

\* The fields of a row.
LEMMA RowFields ==
    ASSUME Shape, NEW i \in DOMAIN positions
    PROVE  /\ positions[i].wallet \in Wallet /\ positions[i].token \in OutcomeToken
           /\ positions[i].side \in {"BUY", "SELL"} /\ positions[i].block \in Nat
           /\ positions[i].outcome \in {"none", "right", "wrong"}
BY Numbered DEF Position

----------------------------------------------------------------------------
(***************************************************************************)
(* Windows and sides.                                                      *)
(***************************************************************************)

\* A window ends where it begins, or later, and at the head at the latest.
LEMMA WindowEnd ==
    ASSUME cursor \in Nat, head \in Nat, cursor <= head
    PROVE  ChunkEnd \in Nat /\ cursor <= ChunkEnd /\ ChunkEnd <= head
BY WhaleAssumption DEF ChunkEnd

\* What is wanted of a window is a side of a transfer between wallets.
LEMMA SidesOfWindow ==
    ASSUME Shape, NEW first \in Nat, NEW last \in Nat, 0 < first, last <= Len(chain),
           NEW follow \in SUBSET Wallet, NEW x \in Window(first, last, follow)
    PROVE  /\ x.block \in first .. last /\ x.block \in Nat
           /\ x.wallet \in Wallet
           /\ x.side \in {"BUY", "SELL"}
           /\ x.transfer \in chain[x.block] /\ x.transfer \in Transfer
           /\ x = [block |-> x.block, side |-> x.side, transfer |-> x.transfer,
                   wallet |-> IF x.side = "SELL" THEN x.transfer.from ELSE x.transfer.to]
<1>1. PICK b \in first .. last : \E t \in chain[b] : x \in Sides(b, t)
    BY DEF Window
<1>2. PICK t \in chain[b] : x \in Sides(b, t)
    BY <1>1
<1>3. b \in 1 .. Len(chain) /\ chain[b] \subseteq Transfer
    BY <1>1, Numbered, WhaleAssumption
<1>4. t \in Transfer /\ t.from \in Wallet \cup {Zero} /\ t.to \in Wallet \cup {Zero}
    BY <1>2, <1>3 DEF Transfer
<1>5. /\ x.block = b /\ x.transfer = t /\ x.side \in {"BUY", "SELL"}
      /\ x.wallet = IF x.side = "SELL" THEN t.from ELSE t.to
      /\ x = [block |-> b, side |-> x.side, transfer |-> t,
              wallet |-> IF x.side = "SELL" THEN t.from ELSE t.to]
    BY <1>2 DEF Sides
<1>6. Wanted(x, follow)
    BY DEF Window
<1>7. x.wallet \in Wallet
    BY <1>4, <1>5, <1>6 DEF Wanted, IsMint, IsBurn
<1>8. QED BY <1>1, <1>2, <1>3, <1>4, <1>5, <1>7

\* A side of a window is told by its block and by which side it is.
LEMMA SidesDiffer ==
    ASSUME Shape, NEW first \in Nat, NEW last \in Nat, 0 < first, last <= Len(chain),
           NEW follow \in SUBSET Wallet,
           NEW x \in Window(first, last, follow), NEW y \in Window(first, last, follow),
           x.block = y.block, x.side = y.side
    PROVE  x = y
<1>1. /\ x.transfer \in chain[x.block] /\ y.transfer \in chain[x.block]
      /\ x.block \in 1 .. Len(chain)
    BY SidesOfWindow, Numbered
<1>2. x.transfer = y.transfer
    BY <1>1, Numbered, WhaleAssumption
<1>3. QED BY <1>2, SidesOfWindow

\* Both sides of a large trade between two wallets are wanted.
LEMMA LargeTradesWanted ==
    ASSUME NEW first, NEW last, NEW follow, NEW b \in first .. last, NEW t \in chain[b],
           discovery, t.big, ~IsMint(t), ~IsBurn(t), NEW side \in {"BUY", "SELL"}
    PROVE  \E x \in Window(first, last, follow) : x.block = b /\ x.side = side
<1> DEFINE x == [block |-> b, wallet |-> IF side = "SELL" THEN t.from ELSE t.to,
                 side |-> side, transfer |-> t]
<1>1. x \in Sides(b, t)
    BY DEF Sides
<1>2. Wanted(x, follow)
    BY DEF Wanted
<1>3. x \in Window(first, last, follow)
    BY <1>1, <1>2 DEF Window
<1>4. QED BY <1>3

\* Of the sides left to record, one is the first.
LEMMA CurrentPending ==
    ASSUME pending # {}, \A x \in pending : x.block \in Nat /\ x.side \in {"BUY", "SELL"}
    PROVE  Current \in pending
<1> DEFINE blocks == {x.block : x \in pending}
<1>1. PICK b \in blocks : \A m \in blocks : b <= m
    BY LeastNatural
<1>2. PICK x \in pending : x.block = b
    BY <1>1
<1>3. \E y \in pending : y.block = b /\ \A z \in pending : z.block = b => ~Before(z, y)
    <2>1. CASE \E y \in pending : y.block = b /\ y.side = "SELL"
        BY <1>1, <2>1 DEF Before
    <2>2. CASE ~\E y \in pending : y.block = b /\ y.side = "SELL"
        BY <1>1, <1>2, <2>2 DEF Before
    <2>3. QED BY <2>1, <2>2
<1>4. PICK y \in pending : y.block = b /\ \A z \in pending : z.block = b => ~Before(z, y)
    BY <1>3
<1>5. \A z \in pending : ~Before(z, y)
    <2>1. ASSUME NEW z \in pending PROVE ~Before(z, y)
        <3>1. b <= z.block /\ z.block \in Nat /\ b \in Nat
            BY <1>1
        <3>2. QED BY <1>4, <3>1 DEF Before
    <2>2. QED BY <2>1
<1>6. QED BY <1>5 DEF Current

\* The side the listener is at: one of those of its window.
LEMMA CurrentSide ==
    ASSUME Shape, PollInv, Writing, pending # {}
    PROVE  /\ Current \in pending /\ Current \in Window(cursor, ChunkEnd, followed)
           /\ Current.block \in cursor .. ChunkEnd /\ Current.block \in Nat
           /\ Current.wallet \in Wallet /\ Current.side \in {"BUY", "SELL"}
           /\ Current.transfer.token \in OutcomeToken
<1>1. /\ cursor \in Nat /\ 0 < cursor /\ ChunkEnd \in Nat /\ ChunkEnd <= Len(chain)
      /\ followed \in SUBSET Wallet
    <2>1. lpc # "idle" /\ cursor <= head /\ head <= Len(chain) /\ lastBlock # NoBlock
          /\ cursor \in lastBlock + 1 .. head + 1
        BY DEF PollInv, Writing
    <2>2. lastBlock \in Nat /\ cursor \in Nat /\ head \in Nat /\ followed \in SUBSET Wallet
        BY <2>1 DEF Shape, ListenerOK
    <2>3. ChunkEnd \in Nat /\ ChunkEnd <= head
        BY <2>1, <2>2, WindowEnd
    <2>4. QED BY <2>1, <2>2, <2>3, Numbered
<1>2. pending \subseteq Window(cursor, ChunkEnd, followed)
    BY DEF PollInv
<1>3. \A x \in pending : x.block \in Nat /\ x.side \in {"BUY", "SELL"}
    BY <1>1, <1>2, SidesOfWindow
<1>4. Current \in pending
    BY <1>3, CurrentPending
<1>5. Current \in Window(cursor, ChunkEnd, followed)
    BY <1>2, <1>4
<1> DEFINE x == Current
<1> HIDE DEF x
<1>6. x \in Window(cursor, ChunkEnd, followed)
    BY <1>5 DEF x
<1>7. /\ x.block \in cursor .. ChunkEnd /\ x.block \in Nat
      /\ x.wallet \in Wallet /\ x.side \in {"BUY", "SELL"} /\ x.transfer \in Transfer
    BY <1>1, <1>6, SidesOfWindow
<1>8. x.transfer.token \in OutcomeToken
    BY <1>7 DEF Transfer
<1>9. QED BY <1>4, <1>5, <1>7, <1>8 DEF x

----------------------------------------------------------------------------
(***************************************************************************)
(* Steps: what they leave alone.                                           *)
(***************************************************************************)

\* The actions of the listener, those of the scorer and those of the world outside.
ListenerStep == Poll \/ FailPoll \/ Restart
ScorerStep == Rating \/ FailRating
WorldStep ==
    \/ \E ts \in Blocks : Mine(ts)
    \/ \E t \in OutcomeToken, p \in Payouts : MetadataSync(t, p)

\* Every step is of one of them.
LEMMA Steps == Next => ListenerStep \/ ScorerStep \/ WorldStep
BY DEF Next, ListenerStep, ScorerStep, WorldStep

\* The scorer does not touch the listener.
LEMMA ScorerLeaves ==
    ASSUME ScorerStep
    PROVE  /\ UNCHANGED <<world, listener, published>>
           /\ spc = "sleep" => AtAwait
           /\ faults' = faults \/ faults' = faults + 1
<1>1. CASE StartRating
    BY <1>1 DEF StartRating, trouble
<1>2. CASE EndRating \/ Tally
    BY <1>2 DEF EndRating, Tally, trouble
<1>3. ASSUME NEW i, LeaveUnrated(i) \/ Rate(i)
      PROVE  UNCHANGED <<world, listener, published, trouble>> /\ spc = "rate"
    BY <1>3 DEF LeaveUnrated, Rate
<1>4. ASSUME NEW w, Promote(w) \/ Demote(w)
      PROVE  UNCHANGED <<world, listener, published, trouble>> /\ spc = "rate"
    BY <1>4 DEF Promote, Demote
<1>5. CASE FailRating
    BY <1>5 DEF FailRating
<1>6. QED BY <1>1, <1>2, <1>3, <1>4, <1>5 DEF ScorerStep, Rating, trouble

\* A block is mined or a market row rewritten while both tasks wait.
LEMMA WorldLeaves ==
    ASSUME Shape, WorldStep
    PROVE  /\ AtAwait
           /\ UNCHANGED <<discovery, positions, stats, listener, scorer, published, trouble>>
           /\ Len(chain') \in Nat /\ Len(chain) <= Len(chain')
           /\ \A b \in 1 .. Len(chain) : chain'[b] = chain[b]
           /\ WorldOK'
<1>1. ASSUME NEW ts \in Blocks, Mine(ts)
      PROVE  /\ Len(chain') \in Nat /\ Len(chain) <= Len(chain')
             /\ \A b \in 1 .. Len(chain) : chain'[b] = chain[b]
             /\ chain' \in Seq(Blocks)
    BY <1>1 DEF Mine, Shape, WorldOK
<1>2. CASE \E ts \in Blocks : Mine(ts)
    BY <1>1, <1>2 DEF Mine, Shape, WorldOK
<1>3. CASE \E t \in OutcomeToken, p \in Payouts : MetadataSync(t, p)
    BY <1>3, Numbered DEF MetadataSync, Shape, WorldOK
<1>4. QED BY <1>2, <1>3 DEF WorldStep

\* The rows of the table stay: no step removes one or changes more than its outcome.
RowsStay ==
    /\ DOMAIN positions \subseteq DOMAIN positions'
    /\ \A i \in DOMAIN positions : /\ positions'[i].wallet = positions[i].wallet
                                   /\ positions'[i].side = positions[i].side
                                   /\ positions'[i].block = positions[i].block
                                   /\ positions'[i].token = positions[i].token

\* The row a step adds.
NewRow == [wallet |-> Current.wallet, token |-> Current.transfer.token, side |-> Current.side,
           block |-> Current.block, outcome |-> "none"]

\* A row is added at the end of the table.
LEMMA RowInserted ==
    ASSUME Shape, PollInv, InsertPosition
    PROVE  /\ positions' \in Seq(Position)
           /\ DOMAIN positions' = DOMAIN positions \cup {Len(positions) + 1}
           /\ Len(positions) + 1 \notin DOMAIN positions
           /\ Len(positions') = Len(positions) + 1
           /\ positions'[Len(positions) + 1] = NewRow
           /\ \A i \in DOMAIN positions : positions'[i] = positions[i]
<1>1. positions' = Append(positions, NewRow)
    BY DEF InsertPosition, NewRow
<1>2. NewRow \in Position
    <2>1. Writing /\ pending # {}
        BY DEF InsertPosition, Writing
    <2>2. QED BY <2>1, CurrentSide DEF NewRow, Position
<1>3. positions \in Seq(Position)
    BY DEF Shape, TablesOK
<1>4. QED BY <1>1, <1>2, <1>3

\* The outcome of a row is set.
LEMMA RowRated ==
    ASSUME Shape, NEW i \in todo, Rate(i)
    PROVE  /\ positions' \in Seq(Position)
           /\ DOMAIN positions' = DOMAIN positions /\ Len(positions') = Len(positions)
           /\ i \in DOMAIN positions
           /\ positions'[i] = [positions[i] EXCEPT !.outcome = Outcome(positions[i])]
           /\ positions'[i].outcome \in {"right", "wrong"}
           /\ \A j \in DOMAIN positions : j # i => positions'[j] = positions[j]
<1>1. i \in DOMAIN positions /\ positions[i] \in Position
    BY Numbered DEF Shape, ScorerOK
<1>2. /\ [positions[i] EXCEPT !.outcome = Outcome(positions[i])] \in Position
      /\ [positions[i] EXCEPT !.outcome = Outcome(positions[i])].outcome \in {"right", "wrong"}
    BY <1>1 DEF Position, Outcome
<1>3. positions' = [positions EXCEPT ![i] = [positions[i] EXCEPT !.outcome = Outcome(positions[i])]]
    BY DEF Rate
<1>4. positions \in Seq(Position)
    BY DEF Shape, TablesOK
<1> DEFINE r == [positions[i] EXCEPT !.outcome = Outcome(positions[i])]
<1> HIDE DEF r
<1>5. r \in Position /\ positions' = [positions EXCEPT ![i] = r]
    BY <1>2, <1>3 DEF r
<1>6. /\ positions' \in Seq(Position)
      /\ DOMAIN positions' = DOMAIN positions /\ Len(positions') = Len(positions)
      /\ positions'[i] = r
      /\ \A j \in DOMAIN positions : j # i => positions'[j] = positions[j]
    BY <1>1, <1>4, <1>5
<1>7. QED BY <1>1, <1>2, <1>6 DEF r

\* Only two steps change the table of positions.
LEMMA PositionsMove ==
    ASSUME [Next]_vars
    PROVE  positions' = positions \/ InsertPosition \/ \E i \in todo : Rate(i)
<1>1. CASE Poll
    BY <1>1 DEF Poll, PollHead, PassOver, Request, LogsArrive, CountTrade, Publish, NextWindow,
                EndPoll
<1>2. CASE Rating
    BY <1>2 DEF Rating, StartRating, Tally, EndRating, LeaveUnrated, Promote, Demote
<1>3. CASE FailPoll \/ FailRating \/ Restart \/ UNCHANGED vars
    BY <1>3 DEF FailPoll, FailRating, Restart, vars
<1>4. CASE \/ \E ts \in Blocks : Mine(ts)
          \/ \E t \in OutcomeToken, p \in Payouts : MetadataSync(t, p)
    BY <1>4 DEF Mine, MetadataSync
<1>5. QED BY <1>1, <1>2, <1>3, <1>4 DEF Next

\* They always do.
LEMMA RowsAlwaysStay == Shape /\ PollInv /\ [Next]_vars => RowsStay
<1> SUFFICES ASSUME Shape, PollInv, [Next]_vars PROVE RowsStay
    OBVIOUS
<1>1. CASE positions' = positions
    BY <1>1 DEF RowsStay
<1>2. CASE InsertPosition
    BY <1>2, RowInserted DEF RowsStay
<1>3. ASSUME NEW i \in todo, Rate(i) PROVE RowsStay
    <2>1. positions[i] \in Position
        BY Numbered DEF Shape, ScorerOK
    <2>2. /\ positions'[i].wallet = positions[i].wallet /\ positions'[i].side = positions[i].side
          /\ positions'[i].block = positions[i].block /\ positions'[i].token = positions[i].token
        BY <1>3, <2>1, RowRated DEF Position
    <2>3. QED BY <1>3, <2>2, RowRated DEF RowsStay
<1>4. QED BY <1>1, <1>2, <1>3, PositionsMove

\* Only four steps change the table of wallets, each in one row.
LEMMA StatsMove ==
    ASSUME [Next]_vars
    PROVE  \/ stats' = stats
           \/ CountTrade \/ Tally
           \/ \E w \in Wallet : Promote(w) \/ Demote(w)
<1>1. CASE Poll
    BY <1>1 DEF Poll, PollHead, PassOver, Request, LogsArrive, InsertPosition, Publish, NextWindow,
                EndPoll
<1>2. CASE Rating
    BY <1>2 DEF Rating, StartRating, EndRating, LeaveUnrated, Rate
<1>3. CASE FailPoll \/ FailRating \/ Restart \/ UNCHANGED vars
    BY <1>3 DEF FailPoll, FailRating, Restart, vars
<1>4. CASE \/ \E ts \in Blocks : Mine(ts)
          \/ \E t \in OutcomeToken, p \in Payouts : MetadataSync(t, p)
    BY <1>4 DEF Mine, MetadataSync
<1>5. QED BY <1>1, <1>2, <1>3, <1>4 DEF Next

\* A trade is counted.
LEMMA TradeCounted ==
    ASSUME Shape, PollInv, CountTrade
    PROVE  /\ Current.wallet \in Wallet
           /\ stats' \in [Wallet -> Aggregate]
           /\ stats' = [stats EXCEPT ![Current.wallet] =
                           [stats[Current.wallet] EXCEPT !.trades = @ + 1]]
<1>1. Current.wallet \in Wallet
    BY CurrentSide DEF CountTrade, PollInv, Writing, Inserted
<1>2. stats' = [stats EXCEPT ![Current.wallet] =
                   [stats[Current.wallet] EXCEPT !.trades = @ + 1]]
    BY DEF CountTrade
<1> DEFINE w == Current.wallet
           row == [stats[w] EXCEPT !.trades = @ + 1]
<1>3. stats[w] \in Aggregate
    BY <1>1 DEF Shape, TablesOK
<1>4. row \in Aggregate
    BY <1>3 DEF Aggregate
<1> HIDE DEF row
<1>5. stats' \in [Wallet -> Aggregate]
    BY <1>1, <1>2, <1>4 DEF Shape, TablesOK, row
<1>6. QED BY <1>1, <1>2, <1>5

\* An aggregate that grows by an outcome.
LEMMA AggregateGrows ==
    ASSUME NEW a \in Aggregate, NEW n \in Nat
    PROVE  /\ [a EXCEPT !.resolved = @ + 1, !.correct = @ + n] \in Aggregate
           /\ [a EXCEPT !.resolved = @ + 1, !.correct = @ + n].resolved = a.resolved + 1
           /\ [a EXCEPT !.resolved = @ + 1, !.correct = @ + n].correct = a.correct + n
           /\ [a EXCEPT !.resolved = @ + 1, !.correct = @ + n].trades = a.trades
           /\ [a EXCEPT !.resolved = @ + 1, !.correct = @ + n].tracked = a.tracked
<1>1. /\ a = [a EXCEPT !.tracked = @]
      /\ a.tracked \in BOOLEAN /\ a.trades \in Nat /\ a.resolved \in Nat /\ a.correct \in Nat
      /\ a.resolved + 1 \in Nat /\ a.correct + n \in Nat
    BY DEF Aggregate
<1>2. [a EXCEPT !.resolved = @ + 1, !.correct = @ + n] \in Aggregate
    BY <1>1 DEF Aggregate
<1>3. QED BY <1>2 DEF Aggregate

\* An outcome is counted.
LEMMA OutcomeCounted ==
    ASSUME Shape, RatingInv, Tally, Listed(positions[rated].wallet)
    PROVE  LET p == positions[rated]
               one == IF p.outcome = "right" THEN 1 ELSE 0
           IN  /\ rated \in DOMAIN positions /\ p.wallet \in Wallet
               /\ stats' \in [Wallet -> Aggregate]
               /\ stats' = [stats EXCEPT ![p.wallet] =
                     [stats[p.wallet] EXCEPT !.resolved = @ + 1, !.correct = @ + one]]
<1> DEFINE p == positions[rated]
           w == p.wallet
           one == IF p.outcome = "right" THEN 1 ELSE 0
           row == [stats[w] EXCEPT !.resolved = @ + 1, !.correct = @ + one]
<1>1. rated \in DOMAIN positions /\ w \in Wallet
    BY RowFields DEF Tally, RatingInv
<1>2. stats' = [stats EXCEPT ![w].resolved = @ + 1, ![w].correct = @ + one]
    BY DEF Tally
<1>3. stats[w] \in Aggregate /\ stats \in [Wallet -> Aggregate]
    BY <1>1 DEF Shape, TablesOK
<1>4. one \in Nat
    OBVIOUS
<1> HIDE DEF w, one
<1>5. row \in Aggregate
    BY <1>3, <1>4, AggregateGrows
<1>6. stats' = [stats EXCEPT ![w] = row]
    BY <1>1, <1>2, <1>3 DEF Aggregate
<1> HIDE DEF row
<1>7. stats' \in [Wallet -> Aggregate]
    BY <1>1, <1>3, <1>5, <1>6
<1>8. QED BY <1>1, <1>6, <1>7 DEF w, one, row

\* The table of wallets keeps its shape.
LEMMA StatsTyped ==
    ASSUME Shape, PollInv, RatingInv, [Next]_vars
    PROVE  stats' \in [Wallet -> Aggregate]
<1>1. stats \in [Wallet -> Aggregate]
    BY DEF Shape, TablesOK
<1>2. ASSUME NEW w \in Wallet, NEW b \in BOOLEAN, stats' = [stats EXCEPT ![w].tracked = b]
      PROVE  stats' \in [Wallet -> Aggregate]
    <2>1. [stats[w] EXCEPT !.tracked = b] \in Aggregate
        BY <1>1 DEF Aggregate
    <2>2. QED BY <1>1, <1>2, <2>1
<1>3. ASSUME NEW w \in Wallet, Promote(w) \/ Demote(w) PROVE stats' \in [Wallet -> Aggregate]
    BY <1>2, <1>3 DEF Promote, Demote
<1>4. Tally /\ ~Listed(positions[rated].wallet) => stats' = stats
    BY DEF Tally
<1>5. QED BY <1>1, <1>3, <1>4, StatsMove, TradeCounted, OutcomeCounted

----------------------------------------------------------------------------
(***************************************************************************)
(* Where the listener is.                                                  *)
(***************************************************************************)

\* As long as the chain, the cursor and the follow list read stay, so does the window.
LEMMA WindowStays ==
    ASSUME UNCHANGED <<world, head, cursor, followed>>
    PROVE  /\ ChunkEnd' = ChunkEnd
           /\ Window(cursor, ChunkEnd, followed)' = Window(cursor, ChunkEnd, followed)
<1>1. ChunkEnd' = ChunkEnd
    BY DEF ChunkEnd
<1>2. \A x : Wanted(x, followed)' = Wanted(x, followed)
    BY DEF world, Wanted
<1>3. QED BY <1>1, <1>2 DEF Window, world

\* A listener that is in the middle of a poll: where.
LEMMA InPoll ==
    ASSUME Shape, PollInv, lpc # "idle"
    PROVE  /\ lastBlock \in Nat /\ start \in Nat /\ start <= lastBlock /\ lastBlock <= Len(chain)
           /\ head \in Nat /\ head <= Len(chain) /\ Len(chain) \in Nat
           /\ cursor \in lastBlock + 1 .. head + 1 /\ cursor \in Nat /\ 0 < cursor
           /\ followed \in SUBSET Wallet
<1>1. /\ lastBlock \in Nat \cup {NoBlock} /\ start \in Nat \cup {NoBlock}
      /\ head \in Nat /\ cursor \in Nat /\ followed \in SUBSET Wallet /\ Len(chain) \in Nat
    BY Numbered DEF Shape, ListenerOK
<1>2. /\ lastBlock # NoBlock /\ start # NoBlock /\ start <= lastBlock /\ lastBlock <= Len(chain)
      /\ head <= Len(chain) /\ cursor \in lastBlock + 1 .. head + 1
    BY DEF PollInv
<1>3. QED BY <1>1, <1>2

Place == ListenerOK /\ PollInv

\* The scorer and the world outside leave the listener where it is.
LEMMA PlaceAtRest ==
    ASSUME Shape, PollInv, ScorerStep \/ WorldStep \/ UNCHANGED vars
    PROVE  Place'
<1>1. UNCHANGED listener /\ UNCHANGED discovery
    BY ScorerLeaves, WorldLeaves DEF vars, world, listener
<1>2. ListenerOK'
    BY <1>1 DEF Shape, ListenerOK, listener
<1>3. CASE ScorerStep \/ UNCHANGED vars
    <2>1. UNCHANGED world /\ (spc = "sleep" /\ spc' # "sleep" => lpc \in {"idle", "fetch"})
        BY <1>3, ScorerLeaves DEF vars, world, AtAwait
    <2>2. Window(cursor, ChunkEnd, followed)' = Window(cursor, ChunkEnd, followed)
        BY <1>1, <2>1, WindowStays DEF listener
    <2>3. QED BY <1>1, <1>2, <2>1, <2>2 DEF Place, PollInv, listener, world, Writing, Inserted
<1>4. CASE WorldStep
    <2>1. AtAwait /\ UNCHANGED scorer /\ Len(chain) <= Len(chain') /\ Len(chain') \in Nat
        BY <1>4, WorldLeaves
    <2>2. ~Writing /\ ~Inserted
        BY <2>1 DEF AtAwait, Writing, Inserted
    <2>3. lastBlock # NoBlock => lastBlock <= Len(chain')
        BY <2>1, Numbered DEF PollInv, Shape, ListenerOK
    <2>4. lpc # "idle" => head <= Len(chain')
        BY <2>1, Numbered DEF PollInv, Shape, ListenerOK
    <2>5. QED BY <1>1, <1>2, <2>1, <2>2, <2>3, <2>4
              DEF Place, PollInv, listener, scorer, Writing, Inserted
<1>5. QED BY <1>3, <1>4

\* A poll begins, at a head that is not behind what was passed before.
LEMMA PlaceAtHead ==
    ASSUME Shape, PollInv, PollHead
    PROVE  /\ Place'
           /\ lastBlock' = lastBlock \/ lastBlock = NoBlock
           /\ start' = start \/ (lastBlock = NoBlock /\ start' = lastBlock')
           /\ lastBlock' \in Nat /\ start' \in Nat /\ cursor' \in Nat
           /\ lastBlock' + 1 <= cursor' /\ skipped' = skipped \cup (lastBlock' + 1 .. cursor' - 1)
<1> DEFINE n == Len(chain)
<1>1. n \in Nat /\ Lookback \in Nat /\ MaxSpan \in Nat \ {0}
    BY Numbered, WhaleAssumption
<1>2. /\ lpc = "idle" /\ AtAwait /\ head' = n /\ lpc' = "scan"
      /\ lastBlock' = IF lastBlock = NoBlock THEN (IF head' > Lookback THEN head' - Lookback ELSE 0)
                      ELSE lastBlock
      /\ start' = IF lastBlock = NoBlock THEN lastBlock' ELSE start
      /\ cursor' = IF head' - (lastBlock' + 1) > MaxSpan THEN head' - MaxSpan ELSE lastBlock' + 1
      /\ skipped' = skipped \cup (lastBlock' + 1 .. cursor' - 1)
      /\ UNCHANGED <<world, followed, pending, scorer>>
    BY DEF PollHead
<1> HIDE DEF n
<1>3. /\ lastBlock \in Nat \cup {NoBlock} /\ start \in Nat \cup {NoBlock} /\ followed \subseteq Wallet
      /\ (lastBlock = NoBlock) = (start = NoBlock)
      /\ lastBlock # NoBlock => start <= lastBlock /\ lastBlock <= n
      /\ pending = {} /\ spc = "sleep"
    BY <1>2 DEF Shape, ListenerOK, PollInv, AtAwait, Writing, n
<1>4. /\ lastBlock' \in Nat /\ lastBlock' <= n
      /\ start' \in Nat /\ start' <= lastBlock'
    <2>1. CASE lastBlock = NoBlock
        BY <1>1, <1>2, <2>1
    <2>2. CASE lastBlock # NoBlock
        BY <1>1, <1>2, <1>3, <2>2
    <2>3. QED BY <2>1, <2>2
<1>5. cursor' \in lastBlock' + 1 .. n + 1 /\ cursor' \in Nat
    <2>1. CASE n - (lastBlock' + 1) > MaxSpan
        BY <1>1, <1>2, <1>4, <2>1
    <2>2. CASE ~(n - (lastBlock' + 1) > MaxSpan)
        BY <1>1, <1>2, <1>4, <2>2
    <2>3. QED BY <2>1, <2>2
<1>6. ListenerOK'
    BY <1>1, <1>2, <1>3, <1>4, <1>5 DEF ListenerOK
<1>7. n' = n
    BY <1>2 DEF n, world
<1>8. lastBlock' # NoBlock /\ start' # NoBlock
    BY <1>4 DEF NoBlock
<1>9. PollInv'
    BY <1>1, <1>2, <1>3, <1>4, <1>5, <1>7, <1>8 DEF PollInv, Writing, Inserted, scorer, n
<1>10. QED BY <1>2, <1>4, <1>5, <1>6, <1>9 DEF Place

\* A window is passed over, or asked for; its sides arrive.
LEMMA PlaceInWindow ==
    ASSUME Shape, PollInv, PassOver \/ Request \/ LogsArrive
    PROVE  Place'
<1>1. /\ lpc \in {"scan", "fetch"} /\ UNCHANGED <<world, lastBlock, start, head, scorer>>
      /\ cursor <= head
    BY DEF PassOver, Request, LogsArrive, PollInv
<1>2. /\ lastBlock \in Nat /\ start \in Nat /\ start <= lastBlock /\ lastBlock <= Len(chain)
      /\ head \in Nat /\ head <= Len(chain) /\ Len(chain) \in Nat
      /\ cursor \in lastBlock + 1 .. head + 1 /\ cursor \in Nat
      /\ ChunkEnd \in Nat /\ cursor <= ChunkEnd /\ ChunkEnd <= head
      /\ followed \subseteq Wallet
    BY <1>1, InPoll, WindowEnd
<1>3. lastBlock # NoBlock /\ start # NoBlock /\ Len(chain') = Len(chain)
    BY <1>1, <1>2 DEF NoBlock, world
<1>4. CASE PassOver
    <2>1. /\ lpc = "scan" /\ lpc' = lpc /\ cursor' = ChunkEnd + 1
          /\ UNCHANGED <<followed, pending, spc>>
        BY <1>4 DEF PassOver, scorer
    <2>2. ListenerOK'
        BY <1>1, <1>2, <2>1 DEF ListenerOK
    <2>3. PollInv'
        BY <1>1, <1>2, <1>3, <2>1 DEF PollInv, Writing, Inserted
    <2>4. QED BY <2>2, <2>3 DEF Place
<1>5. CASE Request
    <2>1. /\ lpc = "scan" /\ lpc' = "fetch" /\ cursor' = cursor
          /\ followed' \subseteq Wallet /\ UNCHANGED <<pending, spc>>
        BY <1>5 DEF Request, scorer, Tracked
    <2>2. ListenerOK'
        BY <1>1, <1>2, <2>1 DEF ListenerOK
    <2>3. PollInv'
        BY <1>1, <1>2, <1>3, <2>1 DEF PollInv, Writing, Inserted
    <2>4. QED BY <2>2, <2>3 DEF Place
<1>6. CASE LogsArrive
    <2>1. /\ lpc = "fetch" /\ lpc' = "write" /\ cursor' = cursor /\ followed' = followed
          /\ pending' = Window(cursor, ChunkEnd, followed) /\ spc = "sleep" /\ spc' = spc
        BY <1>6 DEF LogsArrive, AtAwait, scorer
    <2>2. ListenerOK'
        BY <1>1, <1>2, <2>1 DEF ListenerOK
    <2>3. pending' = Window(cursor, ChunkEnd, followed)'
        BY <1>1, <2>1, WindowStays
    <2>4. PollInv'
        BY <1>1, <1>2, <1>3, <2>1, <2>3 DEF PollInv, Writing, Inserted
    <2>5. QED BY <2>2, <2>4 DEF Place
<1>7. QED BY <1>4, <1>5, <1>6

\* The sides of a window are recorded one after the other.
LEMMA PlaceAtSide ==
    ASSUME Shape, PollInv, InsertPosition \/ CountTrade \/ Publish
    PROVE  Place'
<1>1. /\ Writing /\ lpc # "idle" /\ lpc' \in {"write", "count", "publish"} /\ spc = "sleep"
      /\ UNCHANGED <<world, lastBlock, start, head, cursor, followed, spc>>
      /\ pending' \subseteq pending /\ (Inserted' => pending' = pending /\ pending # {})
    BY DEF InsertPosition, CountTrade, Publish, Writing, Inserted, PollInv, scorer
<1>2. ListenerOK'
    BY <1>1 DEF Shape, ListenerOK
<1>3. Window(cursor, ChunkEnd, followed)' = Window(cursor, ChunkEnd, followed)
    BY <1>1, WindowStays
<1>4. Writing' /\ lpc' # "idle"
    BY <1>1 DEF Writing
<1>5. PollInv'
    BY <1>1, <1>3, <1>4 DEF PollInv, Inserted, world
<1>6. QED BY <1>2, <1>5 DEF Place

\* A window is done with, or the poll is, or it was cut short.
LEMMA PlaceAfter ==
    ASSUME Shape, PollInv, NextWindow \/ EndPoll \/ FailPoll \/ Restart
    PROVE  Place'
<1>1. CASE NextWindow
    <2>1. /\ Writing /\ lpc # "idle" /\ pending = {} /\ lpc' = "scan" /\ cursor' = ChunkEnd + 1
          /\ followed' = {} /\ pending' = pending
          /\ UNCHANGED <<world, lastBlock, start, head, spc>>
        BY <1>1 DEF NextWindow, Writing, scorer
    <2>2. /\ lastBlock \in Nat /\ start \in Nat /\ start <= lastBlock /\ lastBlock <= Len(chain)
          /\ head \in Nat /\ head <= Len(chain) /\ Len(chain) \in Nat
          /\ cursor \in lastBlock + 1 .. head + 1 /\ cursor \in Nat /\ cursor <= head
          /\ ChunkEnd \in Nat /\ cursor <= ChunkEnd /\ ChunkEnd <= head
          /\ spc = "sleep"
        BY <2>1, InPoll, WindowEnd DEF PollInv, Writing
    <2>3. lastBlock # NoBlock /\ start # NoBlock /\ Len(chain') = Len(chain)
        BY <2>1, <2>2 DEF NoBlock, world
    <2>4. ListenerOK'
        BY <2>1, <2>2 DEF ListenerOK
    <2>5. PollInv'
        BY <2>1, <2>2, <2>3 DEF PollInv, Writing, Inserted
    <2>6. QED BY <2>4, <2>5 DEF Place
<1>2. CASE EndPoll
    <2>1. /\ lpc = "scan" /\ lpc' = "idle" /\ head' = 0 /\ cursor' = 0 /\ followed' = {}
          /\ pending' = {} /\ lastBlock' = (IF lastBlock + 1 <= head THEN head ELSE lastBlock)
          /\ UNCHANGED <<world, start, spc>>
        BY <1>2 DEF EndPoll, ForgetPoll, scorer
    <2>2. /\ lastBlock \in Nat /\ start \in Nat /\ start <= lastBlock /\ lastBlock <= Len(chain)
          /\ head \in Nat /\ head <= Len(chain)
        BY <2>1, InPoll
    <2>3. /\ lastBlock' \in Nat /\ start <= lastBlock' /\ lastBlock' <= Len(chain)
          /\ lastBlock' # NoBlock /\ start # NoBlock /\ Len(chain') = Len(chain)
        BY <2>1, <2>2 DEF NoBlock, world
    <2>4. ListenerOK'
        BY <2>1, <2>2, <2>3 DEF ListenerOK
    <2>5. PollInv'
        BY <2>1, <2>3 DEF PollInv, Writing, Inserted
    <2>6. QED BY <2>4, <2>5 DEF Place
<1>3. CASE FailPoll
    <2>1. /\ lpc' = "idle" /\ head' = 0 /\ cursor' = 0 /\ followed' = {} /\ pending' = {}
          /\ UNCHANGED <<world, lastBlock, start, spc>>
        BY <1>3 DEF FailPoll, ForgetPoll, scorer
    <2>2. ListenerOK'
        BY <2>1 DEF Shape, ListenerOK
    <2>3. PollInv'
        BY <2>1 DEF PollInv, Writing, Inserted, world
    <2>4. QED BY <2>2, <2>3 DEF Place
<1>4. CASE Restart
    <2>1. /\ lpc' = "idle" /\ head' = 0 /\ cursor' = 0 /\ followed' = {} /\ pending' = {}
          /\ lastBlock' = NoBlock /\ start' = NoBlock /\ spc' = "sleep"
        BY <1>4 DEF Restart, ForgetPoll
    <2>2. ListenerOK'
        BY <2>1 DEF ListenerOK
    <2>3. PollInv'
        BY <2>1 DEF PollInv, Writing, Inserted
    <2>4. QED BY <2>2, <2>3 DEF Place
<1>5. QED BY <1>1, <1>2, <1>3, <1>4

\* The steps, for the listener: one of its own, or one that leaves it.
LEMMA StepsOfListener ==
    ASSUME [Next]_vars
    PROVE  \/ PollHead \/ PassOver \/ Request \/ LogsArrive \/ InsertPosition
           \/ CountTrade \/ Publish \/ NextWindow \/ EndPoll \/ FailPoll \/ Restart
           \/ ScorerStep \/ WorldStep \/ UNCHANGED vars
BY Steps DEF ListenerStep, Poll

\* The listener keeps its place in the chain.
LEMMA PlaceHolds ==
    ASSUME Shape, PollInv, [Next]_vars
    PROVE  Place'
<1>1. CASE ScorerStep \/ WorldStep \/ UNCHANGED vars
    BY <1>1, PlaceAtRest
<1>2. CASE PollHead
    BY <1>2, PlaceAtHead
<1>3. CASE PassOver \/ Request \/ LogsArrive
    BY <1>3, PlaceInWindow
<1>4. CASE InsertPosition \/ CountTrade \/ Publish
    BY <1>4, PlaceAtSide
<1>5. CASE NextWindow \/ EndPoll \/ FailPoll \/ Restart
    BY <1>5, PlaceAfter
<1>6. QED BY <1>1, <1>2, <1>3, <1>4, <1>5, StepsOfListener

----------------------------------------------------------------------------
(***************************************************************************)
(* The shape of the state is kept.                                         *)
(***************************************************************************)

\* What the listener leaves alone.
LEMMA ListenerLeaves ==
    ASSUME ListenerStep
    PROVE  /\ UNCHANGED world
           /\ FailPoll \/ Restart \/ UNCHANGED trouble
           /\ Restart \/ UNCHANGED scorer
           /\ Restart \/ PollHead \/ UNCHANGED <<start, skipped>>
           /\ Publish \/ UNCHANGED published
BY DEF ListenerStep, Poll, PollHead, PassOver, Request, LogsArrive, InsertPosition, CountTrade,
       Publish, NextWindow, EndPoll, FailPoll, Restart, trouble

\* The table of positions keeps its shape.
LEMMA PositionsTyped ==
    ASSUME Shape, PollInv, [Next]_vars
    PROVE  positions' \in Seq(Position)
<1>1. positions \in Seq(Position)
    BY DEF Shape, TablesOK
<1>2. QED BY <1>1, PositionsMove, RowInserted, RowRated

\* The events of the transfers the listener publishes.
LEMMA EventsTyped ==
    ASSUME Shape, PollInv, [Next]_vars
    PROVE  published' \subseteq Event
<1>1. published \subseteq Event
    BY DEF Shape, TablesOK
<1>2. CASE Publish
    <2>1. Writing /\ pending # {} /\ published' = published \cup {EventOf(Current)}
        BY <1>2 DEF Publish, Writing, PollInv, Inserted
    <2>2. EventOf(Current) \in Event
        BY <2>1, CurrentSide DEF EventOf, Event
    <2>3. QED BY <1>1, <2>1, <2>2
<1>3. CASE UNCHANGED published
    BY <1>1, <1>3
<1>4. UNCHANGED published \/ Publish
    BY Steps, ListenerLeaves, ScorerLeaves, WorldLeaves DEF vars
<1>5. QED BY <1>2, <1>3, <1>4

\* The world outside keeps its shape.
LEMMA WorldTyped ==
    ASSUME Shape, [Next]_vars
    PROVE  WorldOK'
<1>1. CASE UNCHANGED world
    BY <1>1 DEF Shape, WorldOK, world
<1>2. UNCHANGED world \/ WorldStep
    BY Steps, ListenerLeaves, ScorerLeaves DEF vars, world
<1>3. QED BY <1>1, <1>2, WorldLeaves

\* The scorer is at rows of the table.
LEMMA ScorerTyped ==
    ASSUME Shape, PollInv, [Next]_vars
    PROVE  ScorerOK'
<1>1. /\ spc \in {"sleep", "rate", "tally"} /\ todo \subseteq DOMAIN positions /\ rated \in Nat
      /\ DOMAIN positions \subseteq Nat /\ DOMAIN positions \subseteq DOMAIN positions'
    BY Numbered, RowsAlwaysStay DEF Shape, ScorerOK, RowsStay
<1>2. CASE UNCHANGED scorer
    BY <1>1, <1>2 DEF ScorerOK, scorer
<1>3. CASE Restart \/ FailRating
    BY <1>3 DEF Restart, FailRating, ScorerOK
<1>4. CASE StartRating
    <2>1. /\ todo' \subseteq DOMAIN positions /\ spc' = "rate" /\ rated' = rated
        BY <1>4 DEF StartRating, Batch, Unrated
    <2>2. QED BY <1>1, <2>1 DEF ScorerOK
<1>5. CASE Tally \/ EndRating
    BY <1>1, <1>5 DEF Tally, EndRating, ScorerOK
<1>6. ASSUME NEW i \in todo, LeaveUnrated(i) \/ Rate(i) PROVE ScorerOK'
    BY <1>1, <1>6 DEF LeaveUnrated, Rate, ScorerOK
<1>7. ASSUME NEW w, Promote(w) \/ Demote(w) PROVE UNCHANGED scorer
    BY <1>7 DEF Promote, Demote
<1>8. UNCHANGED scorer \/ Restart \/ ScorerStep
    BY Steps, ListenerLeaves, WorldLeaves DEF vars, scorer
<1>9. QED BY <1>2, <1>3, <1>4, <1>5, <1>6, <1>7, <1>8 DEF ScorerStep, Rating

\* The passes cut short are counted.
LEMMA TroubleTyped ==
    ASSUME Shape, [Next]_vars
    PROVE  /\ TroubleOK' /\ (faults' = faults \/ faults' = faults + 1)
           /\ (faults' = 0 => ~FailPoll /\ ~FailRating /\ ~Restart)
<1>1. faults \in Nat
    BY DEF Shape, TroubleOK
<1>2. CASE FailPoll \/ FailRating \/ Restart
    BY <1>1, <1>2 DEF FailPoll, FailRating, Restart, TroubleOK
<1>3. ASSUME ~FailPoll, ~FailRating, ~Restart PROVE UNCHANGED faults
    <2>1. CASE ListenerStep
        BY <1>3, <2>1, ListenerLeaves DEF trouble
    <2>2. CASE Rating
        BY <2>2 DEF Rating, StartRating, Tally, EndRating, LeaveUnrated, Rate, Promote, Demote, trouble
    <2>3. CASE WorldStep \/ UNCHANGED vars
        BY <2>3, WorldLeaves DEF vars, trouble
    <2>4. QED BY <1>3, <2>1, <2>2, <2>3, Steps DEF ScorerStep
<1>4. QED BY <1>1, <1>2, <1>3 DEF TroubleOK

\* All of it.
LEMMA ShapeHolds ==
    ASSUME Shape, PollInv, RatingInv, [Next]_vars
    PROVE  Shape' /\ PollInv'
BY PlaceHolds, PositionsTyped, StatsTyped, EventsTyped, WorldTyped, ScorerTyped, TroubleTyped
   DEF Shape, TablesOK, Place

----------------------------------------------------------------------------
(***************************************************************************)
(* Behind the listener nothing is missing.                                 *)
(***************************************************************************)

\* What is recorded stays recorded.
LEMMA RecordedStays ==
    ASSUME RowsStay, NEW x, Recorded(x)
    PROVE  Recorded(x)'
BY DEF RowsStay, Recorded

\* The chain only grows.
LEMMA ChainStays ==
    ASSUME Shape, [Next]_vars
    PROVE  /\ discovery' = discovery
           /\ \A b \in 1 .. Len(chain) : chain'[b] = chain[b]
BY Steps, ListenerLeaves, ScorerLeaves, WorldLeaves DEF vars, world

\* A block that is covered stays covered.
LEMMA CoveredStays ==
    ASSUME Shape, PollInv, [Next]_vars, NEW b \in 1 .. Len(chain), Covered(b)
    PROVE  Covered(b)'
<1>1. RowsStay /\ discovery' = discovery /\ chain'[b] = chain[b]
    BY RowsAlwaysStay, ChainStays
<1>2. ASSUME NEW side, \E i \in DOMAIN positions : Sees(i, b, side)
      PROVE  \E i \in DOMAIN positions' : Sees(i, b, side)'
    BY <1>1, <1>2 DEF RowsStay, Sees
<1>3. QED BY <1>1, <1>2 DEF Covered

\* Without discovery there is nothing to cover.
LEMMA NothingToCover ==
    ASSUME ~discovery, NEW b
    PROVE  Covered(b)
BY DEF Covered

\* A window all of whose sides are recorded is covered.
LEMMA WindowCovered ==
    ASSUME \A x \in Window(cursor, ChunkEnd, followed) : Recorded(x), NEW b \in cursor .. ChunkEnd
    PROVE  Covered(b)
<1>1. ASSUME NEW t \in chain[b], discovery, t.big, ~IsMint(t), ~IsBurn(t),
             NEW side \in {"BUY", "SELL"}
      PROVE  \E i \in DOMAIN positions : Sees(i, b, side)
    <2>1. PICK x \in Window(cursor, ChunkEnd, followed) : x.block = b /\ x.side = side
        BY <1>1, LargeTradesWanted
    <2>2. Recorded(x)
        BY <2>1
    <2>3. QED BY <2>1, <2>2 DEF Recorded, Sees
<1>2. QED BY <1>1 DEF Covered

\* The blocks up to last_block are covered.
LEMMA PassedCovered ==
    ASSUME Shape, PollInv, BehindInv, [Next]_vars
    PROVE  (start # NoBlock => \A b \in (start + 1 .. lastBlock) \ skipped : Covered(b))'
<1>1. ASSUME NEW b \in (start + 1 .. lastBlock) \ skipped, start # NoBlock
      PROVE  b \in 1 .. Len(chain) /\ Covered(b)'
    <2>1. start \in Nat /\ lastBlock \in Nat /\ lastBlock <= Len(chain) /\ Len(chain) \in Nat
        BY <1>1, Numbered DEF PollInv, Shape, ListenerOK
    <2>2. b \in 1 .. Len(chain)
        BY <1>1, <2>1
    <2>3. Covered(b)
        BY <1>1 DEF BehindInv
    <2>4. QED BY <2>2, <2>3, CoveredStays
<1>2. CASE UNCHANGED <<start, lastBlock, skipped>>
    BY <1>1, <1>2
<1>3. CASE PollHead
    <2>1. CASE lastBlock = NoBlock
        <3>1. start' = lastBlock'
            BY <2>1, <1>3 DEF PollHead
        <3>2. lastBlock' \in Nat
            BY <1>3, PlaceAtHead
        <3>3. \A n \in Nat : \A b \in n + 1 .. n : FALSE
            OBVIOUS
        <3>4. QED BY <3>1, <3>2, <3>3
    <2>2. CASE lastBlock # NoBlock
        <3>1. start' = start /\ lastBlock' = lastBlock /\ skipped \subseteq skipped'
            BY <2>2, <1>3 DEF PollHead
        <3>2. QED BY <1>1, <3>1
    <2>3. QED BY <2>1, <2>2
<1>4. CASE EndPoll
    <2>1. /\ lpc = "scan" /\ cursor > head /\ start' = start /\ skipped' = skipped
          /\ lastBlock' = IF lastBlock + 1 <= head THEN head ELSE lastBlock
        BY <1>4 DEF EndPoll
    <2>2. /\ lastBlock \in Nat /\ start \in Nat /\ start <= lastBlock /\ lastBlock <= Len(chain)
          /\ head \in Nat /\ head <= Len(chain) /\ Len(chain) \in Nat
          /\ cursor \in lastBlock + 1 .. head + 1 /\ cursor \in Nat
        BY <2>1, InPoll
    <2>3. ASSUME NEW b \in (start + 1 .. lastBlock') \ skipped', start # NoBlock
          PROVE  Covered(b)'
        <3>1. CASE b <= lastBlock
            <4>1. b \in (start + 1 .. lastBlock) \ skipped
                BY <3>1, <2>1, <2>2, <2>3
            <4>2. QED BY <4>1, <2>3, <1>1
        <3>2. CASE ~(b <= lastBlock)
            <4>1. b \in (lastBlock + 1 .. cursor - 1) \ skipped /\ b \in 1 .. Len(chain)
                BY <3>2, <2>1, <2>2, <2>3
            <4>2. Covered(b)
                BY <4>1, <2>1 DEF BehindInv
            <4>3. QED BY <4>1, <4>2, CoveredStays
        <3>3. QED BY <3>1, <3>2
    <2>4. QED BY <2>1, <2>3
<1>5. CASE Restart
    BY <1>5 DEF Restart
<1>6. \/ PollHead \/ EndPoll \/ Restart \/ UNCHANGED <<start, lastBlock, skipped>>
    BY StepsOfListener, ScorerLeaves, WorldLeaves
       DEF listener, vars, PassOver, Request, LogsArrive, InsertPosition, CountTrade, Publish,
           NextWindow, FailPoll
<1>7. QED BY <1>2, <1>3, <1>4, <1>5, <1>6

\* In a poll, so are those up to its cursor.
LEMMA PollCovered ==
    ASSUME Shape, PollInv, BehindInv, [Next]_vars
    PROVE  (lpc # "idle" => \A b \in (lastBlock + 1 .. cursor - 1) \ skipped : Covered(b))'
<1>1. ASSUME lpc # "idle", NEW b \in (lastBlock + 1 .. cursor - 1) \ skipped
      PROVE  Covered(b)'
    <2>1. b \in 1 .. Len(chain)
        BY <1>1, InPoll
    <2>2. Covered(b)
        BY <1>1 DEF BehindInv
    <2>3. QED BY <2>1, <2>2, CoveredStays
<1>2. CASE lpc # "idle" /\ UNCHANGED <<lastBlock, cursor, skipped>>
    BY <1>1, <1>2
<1>3. CASE PollHead
    BY <1>3, PlaceAtHead
<1>4. CASE PassOver
    <2>1. ~discovery'
        BY <1>4, ChainStays DEF PassOver
    <2>2. ASSUME NEW b PROVE Covered(b)'
        BY <2>1 DEF Covered
    <2>3. QED BY <2>2
<1>5. CASE NextWindow
    <2>1. /\ lpc # "idle" /\ Writing /\ pending = {} /\ cursor' = ChunkEnd + 1
          /\ lastBlock' = lastBlock /\ skipped' = skipped
        BY <1>5 DEF NextWindow, Writing
    <2>2. /\ lastBlock \in Nat /\ Len(chain) \in Nat /\ cursor \in Nat /\ lastBlock + 1 <= cursor
          /\ ChunkEnd \in Nat /\ cursor <= ChunkEnd /\ ChunkEnd <= Len(chain)
        BY <2>1, InPoll, WindowEnd DEF PollInv
    <2>3. ASSUME NEW b \in (lastBlock + 1 .. ChunkEnd) \ skipped
          PROVE  Covered(b)'
        <3>1. CASE b < cursor
            <4>1. b \in (lastBlock + 1 .. cursor - 1) \ skipped
                BY <3>1, <2>2, <2>3
            <4>2. QED BY <4>1, <2>1, <1>1
        <3>2. CASE ~(b < cursor)
            <4>1. b \in cursor .. ChunkEnd /\ b \in 1 .. Len(chain)
                BY <3>2, <2>2, <2>3
            <4>2. \A x \in Window(cursor, ChunkEnd, followed) : Recorded(x)
                BY <2>1 DEF BehindInv
            <4>3. Covered(b)
                BY <4>1, <4>2, WindowCovered
            <4>4. QED BY <4>1, <4>3, CoveredStays
        <3>3. QED BY <3>1, <3>2
    <2>4. cursor' - 1 = ChunkEnd
        BY <2>1, <2>2
    <2>5. QED BY <2>1, <2>3, <2>4
<1>6. \/ PollHead \/ PassOver \/ NextWindow \/ lpc' = "idle"
      \/ lpc # "idle" /\ UNCHANGED <<lastBlock, cursor, skipped>>
    BY StepsOfListener, ScorerLeaves, WorldLeaves
       DEF listener, vars, Request, LogsArrive, InsertPosition, CountTrade, Publish,
           EndPoll, FailPoll, Restart, ForgetPoll
<1>7. QED BY <1>2, <1>3, <1>4, <1>5, <1>6

\* While a window is being written, its sides stay; the row of the current one is there as
\* soon as it is inserted.
LEMMA SidesStay ==
    ASSUME Shape, PollInv, [Next]_vars, Writing'
    PROVE  \/ LogsArrive
           \/ InsertPosition
           \/ CountTrade \/ Publish
           \/ /\ Writing /\ UNCHANGED <<world, lpc, lastBlock, head, cursor, followed, pending>>
              /\ positions' = positions \/ \E i \in todo : Rate(i)
<1>1. CASE ScorerStep
    BY <1>1, ScorerLeaves, PositionsMove DEF listener, Writing, InsertPosition
<1>2. CASE WorldStep
    BY <1>2, WorldLeaves DEF listener, Writing, AtAwait
<1>3. CASE UNCHANGED vars
    BY <1>3 DEF vars, Writing, world
<1>4. CASE \/ PollHead \/ PassOver \/ Request \/ NextWindow \/ EndPoll \/ FailPoll \/ Restart
    BY <1>4 DEF PollHead, PassOver, Request, NextWindow, EndPoll, FailPoll, Restart, ForgetPoll,
                Writing
<1>5. QED BY <1>1, <1>2, <1>3, <1>4, StepsOfListener

\* What the row just inserted is of.
LEMMA NewRowSeen ==
    ASSUME Shape, PollInv, InsertPosition
    PROVE  Current' = Current /\ Recorded(Current)'
<1>1. /\ Len(positions) + 1 \in DOMAIN positions' /\ positions'[Len(positions) + 1] = NewRow
      /\ pending' = pending
    BY RowInserted DEF InsertPosition
<1>2. Current' = Current
    BY <1>1 DEF Current, Before
<1>3. QED BY <1>1, <1>2 DEF Recorded, NewRow

\* In a window, everything but what is pending is recorded, and so is the current side once
\* its row is inserted.
LEMMA WindowRecorded ==
    ASSUME Shape, PollInv, BehindInv, [Next]_vars
    PROVE  /\ (Writing => \A x \in Window(cursor, ChunkEnd, followed) \ pending : Recorded(x))'
           /\ (Inserted => Recorded(Current))'
<1>1. RowsStay
    BY RowsAlwaysStay
<1>2. CASE ~Writing'
    BY <1>2 DEF Writing, Inserted
<1>3. CASE LogsArrive
    <2>1. pending' = Window(cursor, ChunkEnd, followed)'
        BY <1>3, WindowStays DEF LogsArrive
    <2>2. ~Inserted'
        BY <1>3 DEF LogsArrive, Inserted
    <2>3. QED BY <2>1, <2>2
<1>4. CASE InsertPosition
    <2>1. /\ Writing /\ pending' = pending
          /\ Window(cursor, ChunkEnd, followed)' = Window(cursor, ChunkEnd, followed)
        BY <1>4, WindowStays DEF InsertPosition, Writing
    <2>2. \A x \in Window(cursor, ChunkEnd, followed) \ pending : Recorded(x)'
        BY <1>1, <2>1, RecordedStays DEF BehindInv
    <2>3. QED BY <1>4, <2>1, <2>2, NewRowSeen
<1>5. CASE CountTrade \/ Publish
    <2>1. /\ Writing /\ Inserted /\ Recorded(Current)
          /\ Window(cursor, ChunkEnd, followed)' = Window(cursor, ChunkEnd, followed)
          /\ pending' = pending \/ pending' = pending \ {Current}
          /\ Inserted' => pending' = pending
        BY <1>5, WindowStays DEF CountTrade, Publish, Writing, Inserted, BehindInv
    <2>2. \A x \in Window(cursor, ChunkEnd, followed) \ pending : Recorded(x)'
        BY <1>1, <2>1, RecordedStays DEF BehindInv
    <2>3. Recorded(Current)' \/ pending' # pending
        <3>1. pending' = pending => Current' = Current
            BY DEF Current, Before
        <3>2. QED BY <1>1, <2>1, <3>1, RecordedStays
    <2>4. \A x : x = Current => Recorded(x)'
        BY <1>1, <2>1, RecordedStays
    <2>5. QED BY <2>1, <2>2, <2>3, <2>4
<1>6. CASE Writing /\ UNCHANGED <<world, lpc, lastBlock, head, cursor, followed, pending>>
    <2>1. /\ Window(cursor, ChunkEnd, followed)' = Window(cursor, ChunkEnd, followed)
          /\ pending' = pending /\ (Inserted' => Inserted)
        BY <1>6, WindowStays DEF Inserted
    <2>2. \A x \in Window(cursor, ChunkEnd, followed) \ pending : Recorded(x)'
        BY <1>1, <1>6, RecordedStays DEF BehindInv
    <2>3. Current' = Current
        BY <1>6 DEF Current, Before
    <2>4. Inserted' => Recorded(Current)'
        BY <1>1, <2>1, <2>3, RecordedStays DEF BehindInv
    <2>5. QED BY <2>1, <2>2, <2>4
<1>7. QED BY <1>2, <1>3, <1>4, <1>5, <1>6, SidesStay

\* The events on the bus stay backed by rows.
LEMMA EventsStayBacked ==
    ASSUME Shape, PollInv, BehindInv, [Next]_vars
    PROVE  EventsBacked'
<1>1. RowsStay
    BY RowsAlwaysStay
<1>2. ASSUME NEW e \in published PROVE Recorded(e)'
    BY <1>1, RecordedStays DEF BehindInv, EventsBacked, Recorded
<1>3. CASE UNCHANGED published
    BY <1>2, <1>3 DEF EventsBacked, Recorded
<1>4. CASE Publish
    <2>1. published' = published \cup {EventOf(Current)} /\ Recorded(Current)
        BY <1>4 DEF Publish, BehindInv, Inserted
    <2>2. Recorded(EventOf(Current))
        BY <2>1 DEF Recorded, EventOf
    <2>3. \A e : e = EventOf(Current) => Recorded(e)'
        BY <1>1, <2>2, RecordedStays
    <2>4. \A e \in published' : Recorded(e)'
        BY <1>2, <2>1, <2>3
    <2>5. QED BY <2>4 DEF EventsBacked, Recorded
<1>5. UNCHANGED published \/ Publish
    BY Steps, ListenerLeaves, ScorerLeaves, WorldLeaves DEF vars
<1>6. QED BY <1>3, <1>4, <1>5

\* Every step keeps all of this.
LEMMA BehindHolds ==
    ASSUME Shape, PollInv, BehindInv, [Next]_vars
    PROVE  BehindInv'
BY PassedCovered, PollCovered, WindowRecorded, EventsStayBacked DEF BehindInv

----------------------------------------------------------------------------
(***************************************************************************)
(* Ahead of the listener nothing is recorded, if no pass was cut short.    *)
(***************************************************************************)

\* The parts of AheadInv.
NoRowTwice ==
    \A i, j \in DOMAIN positions : Sees(i, positions[j].block, positions[j].side) => i = j

RowsUpTo(b) == \A i \in DOMAIN positions : positions[i].block <= b

SidesAhead ==
    \A x \in pending : \A i \in DOMAIN positions :
        Sees(i, x.block, x.side) => Inserted /\ x = Current

Ahead ==
    /\ NoRowTwice
    /\ lastBlock = NoBlock => positions = <<>>
    /\ lpc = "idle" => RowsUpTo(lastBlock)
    /\ lpc \in {"scan", "fetch"} => RowsUpTo(cursor - 1)
    /\ Writing => RowsUpTo(ChunkEnd) /\ SidesAhead

\* They are AheadInv: a block below the cursor is one up to the block before it.
LEMMA AheadParts ==
    ASSUME Shape
    PROVE  AheadInv <=> (faults = 0 => Ahead)
<1>1. \A i \in DOMAIN positions : positions[i].block \in Nat
    BY RowFields
<1>2. cursor \in Nat
    BY DEF Shape, ListenerOK
<1>3. RowsUpTo(cursor - 1) <=> \A i \in DOMAIN positions : positions[i].block < cursor
    BY <1>1, <1>2 DEF RowsUpTo
<1>4. QED BY <1>3 DEF AheadInv, Ahead, NoRowTwice, RowsUpTo, SidesAhead

\* So they are after a step.
LEMMA AheadPartsNext ==
    ASSUME Shape', faults' = 0 => Ahead'
    PROVE  AheadInv'
<1>1. positions' \in Seq(Position) /\ cursor' \in Nat
    BY DEF Shape, TablesOK, ListenerOK
<1>2. \A i \in DOMAIN positions' : positions'[i].block \in Nat
    <2>1. \A i \in DOMAIN positions' : positions'[i] \in Position
        BY <1>1
    <2>2. QED BY <2>1 DEF Position
<1>3. RowsUpTo(cursor - 1)' <=> \A i \in DOMAIN positions' : positions'[i].block < cursor'
    BY <1>1, <1>2 DEF RowsUpTo
<1>4. QED BY <1>3 DEF AheadInv, Ahead, NoRowTwice, RowsUpTo, SidesAhead

\* A step that inserts no row leaves the sides and blocks of the rows.
LEMMA SameRows ==
    ASSUME Shape, PollInv, [Next]_vars, ~InsertPosition
    PROVE  /\ DOMAIN positions' = DOMAIN positions
           /\ NoRowTwice => NoRowTwice'
           /\ positions = <<>> => positions' = <<>>
           /\ \A b : RowsUpTo(b) => RowsUpTo(b)'
           /\ \A i \in DOMAIN positions : \A b, s : Sees(i, b, s)' => Sees(i, b, s)
<1>1. DOMAIN positions' = DOMAIN positions
    BY PositionsMove, RowRated
<1>2. RowsStay
    BY RowsAlwaysStay
<1>3. positions = <<>> => positions' = <<>>
    <2>1. positions \in Seq(Position) /\ positions' \in Seq(Position)
        BY PositionsTyped DEF Shape, TablesOK
    <2>2. QED BY <1>1, <2>1
<1>4. QED BY <1>1, <1>2, <1>3 DEF RowsStay, NoRowTwice, RowsUpTo, Sees

\* The row that is inserted is of a side no other row is of.
LEMMA RowInsertedAhead ==
    ASSUME Shape, PollInv, Ahead, InsertPosition
    PROVE  Ahead'
<1> DEFINE x == Current
           n == Len(positions) + 1
<1>1. /\ Writing /\ ~Inserted /\ pending # {} /\ Writing' /\ Inserted' /\ lpc' = "count"
      /\ pending' = pending /\ UNCHANGED <<world, lastBlock, head, cursor, followed>>
      /\ lpc # "idle"
    BY DEF InsertPosition, Writing, Inserted
<1>2. /\ x \in pending /\ x.block \in cursor .. ChunkEnd /\ x.block \in Nat
    BY <1>1, CurrentSide
<1>3. /\ DOMAIN positions' = DOMAIN positions \cup {n} /\ n \notin DOMAIN positions
      /\ positions'[n].block = x.block /\ positions'[n].side = x.side
      /\ \A i \in DOMAIN positions : positions'[i] = positions[i]
    BY RowInserted DEF NewRow
<1>4. x' = x /\ ChunkEnd' = ChunkEnd
    BY <1>1, WindowStays DEF Current, Before
<1>5. \A y \in pending : \A i \in DOMAIN positions : ~Sees(i, y.block, y.side)
    BY <1>1 DEF Ahead, SidesAhead
<1>6. NoRowTwice'
    <2>1. \A i \in DOMAIN positions :
              ~(positions[i].block = x.block /\ positions[i].side = x.side)
        BY <1>2, <1>5 DEF Sees
    <2>2. NoRowTwice
        BY DEF Ahead
    <2> HIDE DEF x, n
    <2>3. QED BY <1>3, <2>1, <2>2 DEF NoRowTwice, Sees
<1>7. lastBlock' # NoBlock
    BY <1>1, InPoll DEF NoBlock
<1>8. RowsUpTo(ChunkEnd)'
    <2>1. RowsUpTo(ChunkEnd) /\ x.block <= ChunkEnd
        BY <1>1, <1>2 DEF Ahead
    <2> HIDE DEF x, n
    <2>2. QED BY <1>3, <1>4, <2>1 DEF RowsUpTo
<1>9. SidesAhead'
    <2>1. ASSUME NEW y \in pending, y.block = x.block, y.side = x.side
          PROVE  y = x
        <3>1. /\ cursor \in Nat /\ 0 < cursor /\ cursor <= head /\ head \in Nat
              /\ head <= Len(chain) /\ Len(chain) \in Nat /\ followed \in SUBSET Wallet
              /\ pending \subseteq Window(cursor, ChunkEnd, followed)
            BY <1>1, InPoll DEF PollInv
        <3>2. ChunkEnd \in Nat /\ ChunkEnd <= Len(chain)
            BY <3>1, WindowEnd
        <3>3. x \in Window(cursor, ChunkEnd, followed) /\ y \in Window(cursor, ChunkEnd, followed)
            BY <1>2, <3>1
        <3> HIDE DEF x
        <3>4. QED BY <2>1, <3>1, <3>2, <3>3, SidesDiffer
    <2>2. \A y \in pending : \A i \in DOMAIN positions :
              ~(positions[i].block = y.block /\ positions[i].side = y.side)
        BY <1>5 DEF Sees
    <2>3. \A y \in pending : \A i \in DOMAIN positions' : Sees(i, y.block, y.side)' => y = x
        <3> HIDE DEF x, n
        <3>1. QED BY <1>3, <2>1, <2>2 DEF Sees
    <2>4. QED BY <1>1, <1>4, <2>3 DEF SidesAhead
<1>10. QED BY <1>1, <1>6, <1>7, <1>8, <1>9 DEF Ahead

\* A poll begins after the last block it has passed, with no row of a later one.
LEMMA PollBeginsAhead ==
    ASSUME Shape, PollInv, Ahead, [Next]_vars, PollHead
    PROVE  Ahead'
<1>1. lpc = "idle" /\ lpc' = "scan" /\ ~Writing' /\ ~InsertPosition
    BY DEF PollHead, Writing, InsertPosition
<1>2. /\ lastBlock' \in Nat /\ cursor' \in Nat /\ lastBlock' + 1 <= cursor'
      /\ lastBlock' = lastBlock \/ lastBlock = NoBlock
    BY PlaceAtHead
<1>3. lastBlock' # NoBlock
    BY <1>2 DEF NoBlock
<1>4. CASE lastBlock = NoBlock
    <2>1. positions = <<>>
        BY <1>4 DEF Ahead
    <2>2. positions' = <<>>
        BY <2>1, <1>1, SameRows
    <2>3. NoRowTwice' /\ RowsUpTo(cursor - 1)'
        BY <2>2 DEF NoRowTwice, RowsUpTo
    <2>4. QED BY <1>1, <1>3, <2>3 DEF Ahead
<1>5. CASE lastBlock # NoBlock
    <2>1. lastBlock' = lastBlock /\ RowsUpTo(lastBlock)
        BY <1>1, <1>2, <1>5 DEF Ahead
    <2>2. \A i \in DOMAIN positions : positions[i].block \in Nat
        BY RowFields
    <2>3. ASSUME NEW c \in Nat, lastBlock + 1 <= c PROVE RowsUpTo(c - 1)'
        <3>1. RowsUpTo(c - 1)
            BY <1>2, <2>1, <2>2, <2>3 DEF RowsUpTo
        <3>2. QED BY <3>1, <1>1, SameRows
    <2>4. RowsUpTo(cursor - 1)'
        BY <1>2, <2>1, <2>3 DEF RowsUpTo
    <2>5. NoRowTwice'
        BY <1>1, SameRows DEF Ahead
    <2>6. QED BY <1>1, <1>3, <2>4, <2>5 DEF Ahead
<1>6. QED BY <1>4, <1>5

\* From window to window, and to the end of the poll.
LEMMA PollGoesAhead ==
    ASSUME Shape, PollInv, Ahead, [Next]_vars, PassOver \/ Request \/ NextWindow \/ EndPoll
    PROVE  Ahead'
<1>1. lpc # "idle" /\ ~InsertPosition
    BY DEF PassOver, Request, NextWindow, EndPoll, InsertPosition
<1>2. /\ lastBlock \in Nat /\ head \in Nat /\ cursor \in Nat /\ cursor \in lastBlock + 1 .. head + 1
    BY <1>1, InPoll
<1>3. cursor <= head => ChunkEnd \in Nat /\ cursor <= ChunkEnd
    BY <1>2, WindowEnd
<1>4. NoRowTwice' /\ \A b : RowsUpTo(b) => RowsUpTo(b)'
    BY <1>1, SameRows DEF Ahead
<1>5. lastBlock' # NoBlock
    BY <1>2 DEF PassOver, Request, NextWindow, EndPoll, NoBlock
<1>6. \A i \in DOMAIN positions : positions[i].block \in Nat
    BY RowFields
<1>7. CASE PassOver
    <2>1. lpc = "scan" /\ lpc' = "scan" /\ cursor' = ChunkEnd + 1 /\ cursor <= head
        BY <1>7 DEF PassOver
    <2>2. RowsUpTo(cursor - 1)
        BY <2>1 DEF Ahead
    <2>3. RowsUpTo(ChunkEnd)
        BY <1>2, <1>3, <1>6, <2>1, <2>2 DEF RowsUpTo
    <2>4. RowsUpTo(cursor - 1)'
        <3>1. cursor' - 1 = ChunkEnd
            BY <2>1, <1>3
        <3>2. RowsUpTo(ChunkEnd) => \A i \in DOMAIN positions' : positions'[i].block <= ChunkEnd
            BY <1>4 DEF RowsUpTo
        <3>3. QED BY <2>3, <3>1, <3>2 DEF RowsUpTo
    <2>5. QED BY <1>4, <1>5, <2>1, <2>4 DEF Ahead, Writing
<1>8. CASE Request
    <2>1. lpc = "scan" /\ lpc' = "fetch" /\ cursor' = cursor
        BY <1>8 DEF Request
    <2>2. RowsUpTo(cursor - 1)
        BY <2>1 DEF Ahead
    <2>3. RowsUpTo(cursor - 1)'
        BY <1>4, <2>1, <2>2 DEF RowsUpTo
    <2>4. QED BY <1>4, <1>5, <2>1, <2>3 DEF Ahead, Writing
<1>9. CASE NextWindow
    <2>1. lpc' = "scan" /\ cursor' = ChunkEnd + 1 /\ cursor <= head /\ Writing
        BY <1>9 DEF NextWindow, Writing, PollInv
    <2>2. RowsUpTo(ChunkEnd)
        BY <2>1 DEF Ahead
    <2>3. RowsUpTo(cursor - 1)'
        <3>1. cursor' - 1 = ChunkEnd
            BY <2>1, <1>3
        <3>2. RowsUpTo(ChunkEnd) => \A i \in DOMAIN positions' : positions'[i].block <= ChunkEnd
            BY <1>4 DEF RowsUpTo
        <3>3. QED BY <2>2, <3>1, <3>2 DEF RowsUpTo
    <2>4. QED BY <1>4, <1>5, <2>1, <2>3 DEF Ahead, Writing
<1>10. CASE EndPoll
    <2>1. /\ lpc = "scan" /\ lpc' = "idle" /\ cursor > head
          /\ lastBlock' = IF lastBlock + 1 <= head THEN head ELSE lastBlock
        BY <1>10 DEF EndPoll, ForgetPoll
    <2>2. RowsUpTo(cursor - 1)
        BY <2>1 DEF Ahead
    <2>3. cursor - 1 <= lastBlock' /\ lastBlock' \in Nat
        BY <1>2, <2>1
    <2>4. ASSUME NEW b \in Nat, cursor - 1 <= b PROVE RowsUpTo(b)'
        <3>1. RowsUpTo(b)
            BY <2>2, <2>4, <1>2, <1>6 DEF RowsUpTo
        <3>2. QED BY <1>4, <3>1
    <2>5. RowsUpTo(lastBlock)'
        BY <2>3, <2>4 DEF RowsUpTo
    <2>6. QED BY <1>4, <1>5, <2>1, <2>5 DEF Ahead, Writing
<1>11. QED BY <1>7, <1>8, <1>9, <1>10

\* The sides of a window are ahead of the table when they arrive, and one after the other
\* stop being so.
LEMMA SidesGoAhead ==
    ASSUME Shape, PollInv, Ahead, [Next]_vars, LogsArrive \/ CountTrade \/ Publish
    PROVE  Ahead'
<1>1. /\ lpc # "idle" /\ Writing' /\ ~InsertPosition /\ cursor <= head
      /\ UNCHANGED <<world, lastBlock, head, cursor, followed>>
    BY DEF LogsArrive, CountTrade, Publish, Writing, InsertPosition, PollInv
<1>2. /\ lastBlock \in Nat /\ head \in Nat /\ cursor \in Nat /\ 0 < cursor /\ head <= Len(chain)
      /\ Len(chain) \in Nat /\ ChunkEnd \in Nat /\ cursor <= ChunkEnd /\ ChunkEnd <= head
      /\ followed \in SUBSET Wallet
    BY <1>1, InPoll, WindowEnd
<1>3. /\ NoRowTwice' /\ \A b : RowsUpTo(b) => RowsUpTo(b)'
      /\ DOMAIN positions' = DOMAIN positions
      /\ \A i \in DOMAIN positions : \A b, s : Sees(i, b, s)' => Sees(i, b, s)
    BY <1>1, SameRows DEF Ahead
<1>4. lastBlock' # NoBlock
    BY <1>1, <1>2 DEF NoBlock
<1>5. \A i \in DOMAIN positions : positions[i].block \in Nat
    BY RowFields
<1>6. ChunkEnd' = ChunkEnd
    BY <1>1, WindowStays
<1>7. ASSUME RowsUpTo(ChunkEnd) PROVE RowsUpTo(ChunkEnd)'
    <2>1. \A i \in DOMAIN positions' : positions'[i].block <= ChunkEnd
        BY <1>3, <1>7 DEF RowsUpTo
    <2>2. QED BY <1>6, <2>1 DEF RowsUpTo
<1>8. CASE LogsArrive
    <2>1. lpc = "fetch" /\ pending' = Window(cursor, ChunkEnd, followed)
        BY <1>8 DEF LogsArrive
    <2>2. RowsUpTo(cursor - 1)
        BY <2>1 DEF Ahead
    <2>3. RowsUpTo(ChunkEnd)
        BY <1>2, <1>5, <2>2 DEF RowsUpTo
    <2>4. ASSUME NEW x \in pending', NEW i \in DOMAIN positions
          PROVE  ~(positions[i].block = x.block /\ positions[i].side = x.side)
        <3>1. x \in Window(cursor, ChunkEnd, followed)
            BY <2>1
        <3>2. x.block \in cursor .. ChunkEnd
            BY <1>2, <3>1, SidesOfWindow
        <3>3. QED BY <1>2, <1>5, <2>2, <3>2 DEF RowsUpTo
    <2>5. SidesAhead'
        BY <1>3, <2>4 DEF SidesAhead, Sees
    <2>6. QED BY <1>1, <1>3, <1>4, <1>7, <2>3, <2>5 DEF Ahead, Writing
<1>9. CASE CountTrade \/ Publish
    <2>1. /\ Writing /\ RowsUpTo(ChunkEnd) /\ SidesAhead
          /\ pending' = pending \/ pending' = pending \ {Current}
          /\ pending' = pending => Inserted' \/ Current \notin pending
        BY <1>9 DEF CountTrade, Publish, Writing, Inserted, Ahead
    <2>2. pending' = pending => Current' = Current
        BY DEF Current, Before
    <2>3. ASSUME NEW x \in pending', NEW i \in DOMAIN positions, Sees(i, x.block, x.side)
          PROVE  Inserted' /\ x = Current /\ Current' = Current
        BY <2>1, <2>2, <2>3 DEF SidesAhead
    <2>4. \A x \in pending' : \A i \in DOMAIN positions' :
              Sees(i, x.block, x.side)' => Inserted' /\ x = Current /\ Current' = Current
        BY <1>3, <2>3 DEF Sees
    <2>5. SidesAhead'
        BY <2>4 DEF SidesAhead, Sees
    <2>6. QED BY <1>1, <1>3, <1>4, <1>7, <2>1, <2>5 DEF Ahead, Writing
<1>10. QED BY <1>8, <1>9

\* The steps of the scorer and of the world do not matter.
LEMMA StaysAhead ==
    ASSUME Shape, PollInv, Ahead, [Next]_vars, ScorerStep \/ WorldStep \/ UNCHANGED vars,
           ~InsertPosition
    PROVE  Ahead'
<1>1. UNCHANGED listener
    BY ScorerLeaves, WorldLeaves DEF vars, listener
<1>2. /\ NoRowTwice' /\ \A b : RowsUpTo(b) => RowsUpTo(b)'
      /\ positions = <<>> => positions' = <<>>
      /\ DOMAIN positions' = DOMAIN positions
      /\ \A i \in DOMAIN positions : \A b, s : Sees(i, b, s)' => Sees(i, b, s)
    BY SameRows DEF Ahead
<1>3. ChunkEnd' = ChunkEnd /\ Current' = Current
    BY <1>1 DEF listener, ChunkEnd, Current, Before
<1>4. SidesAhead => SidesAhead'
    BY <1>1, <1>2, <1>3 DEF listener, SidesAhead, Sees, Inserted
<1>5. RowsUpTo(ChunkEnd) => RowsUpTo(ChunkEnd)'
    BY <1>2, <1>3 DEF RowsUpTo
<1>6. QED BY <1>1, <1>2, <1>4, <1>5 DEF Ahead, listener, Writing, RowsUpTo

\* Ahead of the listener there stays nothing.
LEMMA AheadHolds ==
    ASSUME Shape, PollInv, RatingInv, AheadInv, [Next]_vars
    PROVE  AheadInv'
<1>1. Shape'
    BY ShapeHolds
<1>2. SUFFICES ASSUME faults' = 0 PROVE Ahead'
    BY <1>1, AheadPartsNext
<1>3. ~FailPoll /\ ~Restart /\ faults = 0
    BY <1>2, TroubleTyped DEF Shape, TroubleOK
<1>4. Ahead
    BY <1>3, AheadParts
<1>5. CASE InsertPosition
    BY <1>4, <1>5, RowInsertedAhead
<1>6. CASE PollHead
    BY <1>4, <1>6, PollBeginsAhead
<1>7. CASE PassOver \/ Request \/ NextWindow \/ EndPoll
    BY <1>4, <1>7, PollGoesAhead
<1>8. CASE LogsArrive \/ CountTrade \/ Publish
    BY <1>4, <1>8, SidesGoAhead
<1>9. CASE (ScorerStep \/ WorldStep \/ UNCHANGED vars) /\ ~InsertPosition
    BY <1>4, <1>9, StaysAhead
<1>10. QED BY <1>3, <1>5, <1>6, <1>7, <1>8, <1>9, StepsOfListener

----------------------------------------------------------------------------
(***************************************************************************)
(* The scorer visits positions that have no outcome yet.                   *)
(***************************************************************************)

\* Every step keeps the scorer at such positions.
LEMMA RatingHolds ==
    ASSUME Shape, PollInv, RatingInv, [Next]_vars
    PROVE  RatingInv'
<1>1. CASE InsertPosition
    <2>1. /\ DOMAIN positions \subseteq DOMAIN positions'
          /\ \A i \in DOMAIN positions : positions'[i] = positions[i]
          /\ UNCHANGED scorer
        BY <1>1, RowInserted DEF InsertPosition
    <2>2. QED BY <2>1 DEF RatingInv, Unrated, scorer
<1>2. ASSUME NEW i \in todo, Rate(i) PROVE RatingInv'
    <2>1. /\ DOMAIN positions' = DOMAIN positions /\ i \in DOMAIN positions
          /\ positions'[i].outcome \in {"right", "wrong"}
          /\ \A j \in DOMAIN positions : j # i => positions'[j] = positions[j]
        BY <1>2, RowRated
    <2>2. todo' = todo \ {i} /\ rated' = i
        BY <1>2 DEF Rate
    <2>3. QED BY <2>1, <2>2 DEF RatingInv, Unrated
<1>3. CASE positions' = positions
    <2>1. CASE UNCHANGED scorer \/ Tally \/ EndRating \/ FailRating \/ Restart
        BY <1>3, <2>1 DEF RatingInv, Unrated, scorer, Tally, EndRating, FailRating, Restart
    <2>2. CASE StartRating
        BY <1>3, <2>2 DEF RatingInv, Unrated, StartRating, Batch
    <2>3. ASSUME NEW i \in todo, LeaveUnrated(i) PROVE RatingInv'
        BY <1>3, <2>3 DEF RatingInv, Unrated, LeaveUnrated
    <2>4. ASSUME NEW w, Promote(w) \/ Demote(w) PROVE UNCHANGED scorer
        BY <2>4 DEF Promote, Demote
    <2>5. UNCHANGED scorer \/ Restart \/ ScorerStep
        BY Steps, ListenerLeaves, WorldLeaves DEF vars, scorer
    <2>6. QED BY <1>2, <2>1, <2>2, <2>3, <2>4, <2>5 DEF ScorerStep, Rating
<1>4. QED BY <1>1, <1>2, <1>3, PositionsMove

----------------------------------------------------------------------------
(***************************************************************************)
(* The aggregates account for the rows.                                    *)
(***************************************************************************)

\* Rows are finitely many.
LEMMA RowsFinite ==
    ASSUME Shape
    PROVE  /\ IsFiniteSet(DOMAIN positions)
           /\ \A S \in SUBSET (DOMAIN positions) : IsFiniteSet(S) /\ Cardinality(S) \in Nat
<1>1. 1 \in Int /\ Len(positions) \in Int /\ DOMAIN positions = 1 .. Len(positions)
    BY Numbered
<1>2. IsFiniteSet(DOMAIN positions)
    BY <1>1, FS_Interval
<1>3. QED BY <1>2, FS_Subset, FS_CardinalityType

\* Nothing moves between the aggregates and the rows; what was under way may get lost.
Quiet ==
    /\ positions' = positions
    /\ \A w \in Wallet : /\ stats'[w].trades = stats[w].trades
                         /\ stats'[w].resolved = stats[w].resolved
                         /\ stats'[w].correct = stats[w].correct
    /\ Uncounted' = Uncounted
    /\ Untallied' = Untallied
    /\ lpc' = "count" => lpc = "count" /\ Current' = Current /\ uncounted' = uncounted
    /\ spc' = "tally" => spc = "tally" /\ rated' = rated /\ untallied' = untallied

\* Promoting and demoting a wallet leaves its counts.
LEMMA FollowOnly ==
    ASSUME Shape, NEW w \in Wallet, Promote(w) \/ Demote(w)
    PROVE  \A v \in Wallet : /\ stats'[v].trades = stats[v].trades
                             /\ stats'[v].resolved = stats[v].resolved
                             /\ stats'[v].correct = stats[v].correct
<1>1. stats \in [Wallet -> Aggregate]
    BY DEF Shape, TablesOK
<1>2. ASSUME NEW b \in BOOLEAN, stats' = [stats EXCEPT ![w].tracked = b], NEW v \in Wallet
      PROVE  /\ stats'[v].trades = stats[v].trades
             /\ stats'[v].resolved = stats[v].resolved
             /\ stats'[v].correct = stats[v].correct
    <2>1. stats[v] \in Aggregate
        BY <1>1
    <2>2. stats'[v] = stats[v] \/ stats'[v] = [stats[v] EXCEPT !.tracked = b]
        BY <1>1, <1>2
    <2>3. QED BY <2>1, <2>2 DEF Aggregate
<1>3. QED BY <1>2 DEF Promote, Demote

\* The step that counts an outcome.
TallyListed == Tally /\ Listed(positions[rated].wallet)

\* All steps but four are quiet.
LEMMA QuietSteps ==
    ASSUME Shape, PollInv, [Next]_vars
    PROVE  Quiet \/ InsertPosition \/ CountTrade \/ TallyListed \/ \E i \in todo : Rate(i)
<1>1. spc = "tally" => lpc # "count"
    BY DEF PollInv
<1>2. CASE PollHead \/ PassOver \/ Request \/ LogsArrive \/ Publish \/ NextWindow \/ EndPoll
    <2>1. UNCHANGED <<positions, stats, spc, rated, uncounted, untallied>>
        BY <1>2 DEF PollHead, PassOver, Request, LogsArrive, Publish, NextWindow, EndPoll,
                    scorer, trouble
    <2>2. lpc # "count" /\ lpc' # "count"
        BY <1>2 DEF PollHead, PassOver, Request, LogsArrive, Publish, NextWindow, EndPoll, ForgetPoll
    <2>3. QED BY <2>1, <2>2 DEF Quiet, Uncounted, Untallied
<1>3. CASE FailPoll
    BY <1>3 DEF FailPoll, ForgetPoll, Quiet, Uncounted, Untallied, scorer
<1>4. CASE FailRating
    BY <1>4 DEF FailRating, listener, Quiet, Uncounted, Untallied, Current, Before
<1>5. CASE Restart
    BY <1>5 DEF Restart, ForgetPoll, Quiet, Uncounted, Untallied
<1>6. ASSUME UNCHANGED <<positions, lpc, pending, spc, rated, uncounted, untallied>>
      PROVE  /\ positions' = positions /\ Uncounted' = Uncounted /\ Untallied' = Untallied
             /\ lpc' = "count" => lpc = "count" /\ Current' = Current /\ uncounted' = uncounted
             /\ spc' = "tally" => spc = "tally" /\ rated' = rated /\ untallied' = untallied
    BY <1>6 DEF Uncounted, Untallied, Current, Before
<1>7. CASE WorldStep \/ UNCHANGED vars
    <2>1. UNCHANGED <<positions, stats, lpc, pending, spc, rated, uncounted, untallied>>
        BY <1>7, WorldLeaves DEF vars, listener, scorer, trouble
    <2>2. QED BY <1>6, <2>1 DEF Quiet
<1>8. CASE StartRating \/ EndRating
    <2>1. /\ UNCHANGED <<positions, stats, lpc, pending, uncounted, untallied>>
          /\ spc # "tally" /\ spc' # "tally"
        BY <1>8 DEF StartRating, EndRating, listener, trouble, AtAwait
    <2>2. QED BY <2>1 DEF Quiet, Uncounted, Untallied, Current, Before
<1>9. CASE Tally /\ ~Listed(positions[rated].wallet)
    <2>1. /\ UNCHANGED <<positions, stats, lpc, pending, uncounted>>
          /\ untallied' = Untallied /\ spc' = "rate"
        BY <1>9 DEF Tally, listener
    <2>2. QED BY <2>1 DEF Quiet, Uncounted, Untallied, Current, Before
<1>10. ASSUME NEW i \in todo, LeaveUnrated(i) PROVE Quiet
    <2>1. /\ UNCHANGED <<positions, stats, lpc, pending, uncounted, untallied, spc, rated>>
        BY <1>10 DEF LeaveUnrated, listener, trouble
    <2>2. QED BY <1>6, <2>1 DEF Quiet
<1>11. ASSUME NEW w \in Wallet, Promote(w) \/ Demote(w) PROVE Quiet
    <2>1. /\ UNCHANGED <<positions, lpc, pending, uncounted, untallied, spc, rated>>
        BY <1>11 DEF Promote, Demote, listener, scorer, trouble
    <2>2. QED BY <1>6, <1>11, <2>1, FollowOnly DEF Quiet
<1>12. QED BY <1>2, <1>3, <1>4, <1>5, <1>7, <1>8, <1>9, <1>10, <1>11, StepsOfListener
           DEF ScorerStep, Rating, TallyListed

\* The follow list is right when a pass of the scorer ends, and nothing else changes what it
\* rests on between two passes.
LEMMA FollowListHolds ==
    ASSUME Shape, PollInv, FollowListCurrent, [Next]_vars
    PROVE  FollowListCurrent'
<1>1. SUFFICES ASSUME faults' = 0, spc' = "sleep"
               PROVE  \A w \in Wallet : stats'[w].resolved >= MinResolved =>
                          stats'[w].tracked = ClearsBar(w)'
    BY DEF FollowListCurrent
<1>2. faults = 0 /\ ~FailPoll /\ ~FailRating /\ ~Restart
    BY <1>1, TroubleTyped DEF Shape, TroubleOK
<1>3. CASE EndRating
    <2>1. Promotable = {} /\ Demotable = {} /\ stats' = stats
        BY <1>3 DEF EndRating
    <2>2. ASSUME NEW w \in Wallet, stats[w].resolved >= MinResolved
          PROVE  stats[w].tracked = ClearsBar(w)
        <3>1. stats[w].tracked \in BOOLEAN /\ ClearsBar(w) \in BOOLEAN
            BY DEF Shape, TablesOK, Aggregate, ClearsBar
        <3>2. CASE stats[w].tracked
            BY <2>1, <2>2, <3>1, <3>2 DEF Demotable, Tracked
        <3>3. CASE ~stats[w].tracked
            BY <2>1, <2>2, <3>1, <3>3 DEF Promotable, Tracked
        <3>4. QED BY <3>2, <3>3
    <2>3. QED BY <2>1, <2>2 DEF ClearsBar
<1>4. CASE spc = "sleep" /\ \A w \in Wallet : /\ stats'[w].tracked = stats[w].tracked
                                              /\ stats'[w].resolved = stats[w].resolved
                                              /\ stats'[w].correct = stats[w].correct
    BY <1>2, <1>4 DEF FollowListCurrent, ClearsBar
<1>5. CASE CountTrade
    <2>1. spc = "sleep"
        BY <1>5 DEF CountTrade, PollInv
    <2>2. ASSUME NEW w \in Wallet
          PROVE  /\ stats'[w].tracked = stats[w].tracked
                 /\ stats'[w].resolved = stats[w].resolved
                 /\ stats'[w].correct = stats[w].correct
        <3>1. stats \in [Wallet -> Aggregate] /\ stats[w] \in Aggregate
            BY DEF Shape, TablesOK
        <3>2. stats'[w] = stats[w] \/ stats'[w] = [stats[w] EXCEPT !.trades = @ + 1]
            BY <1>5, <3>1, TradeCounted
        <3>3. QED BY <3>1, <3>2 DEF Aggregate
    <2>3. QED BY <1>4, <2>1, <2>2
<1>6. EndRating \/ CountTrade \/ (spc = "sleep" /\ stats' = stats)
    <2>1. ASSUME NEW i, LeaveUnrated(i) \/ Rate(i) PROVE spc' # "sleep"
        BY <2>1 DEF LeaveUnrated, Rate
    <2>2. ASSUME NEW w, Promote(w) \/ Demote(w) PROVE spc' # "sleep"
        BY <2>2 DEF Promote, Demote, scorer
    <2>3. ~StartRating /\ ~Tally
        BY <1>1 DEF StartRating, Tally
    <2>4. ScorerStep => EndRating
        BY <1>1, <1>2, <2>1, <2>2, <2>3 DEF ScorerStep, Rating
    <2>5. CASE WorldStep \/ UNCHANGED vars
        BY <1>1, <2>5, WorldLeaves DEF vars, scorer
    <2>6. CASE ListenerStep
        <3>1. UNCHANGED scorer
            BY <1>2, <2>6, ListenerLeaves
        <3>2. stats' = stats \/ CountTrade \/ Tally \/ \E w \in Wallet : Promote(w) \/ Demote(w)
            BY StatsMove
        <3>3. QED BY <1>1, <2>2, <2>3, <3>1, <3>2 DEF scorer
    <2>7. QED BY <2>4, <2>5, <2>6, Steps
<1>7. QED BY <1>3, <1>4, <1>5, <1>6

\* The rows of a wallet, sorted by what is counted of them, are finitely many.
LEMMA CountsTyped ==
    ASSUME Shape, NEW w \in Wallet
    PROVE  /\ stats[w] \in Aggregate /\ stats \in [Wallet -> Aggregate]
           /\ stats[w].trades \in Nat /\ stats[w].resolved \in Nat /\ stats[w].correct \in Nat
           /\ \A S \in {CountedRows(w), TalliedRows(w), RightRows(w)} :
                  S \subseteq DOMAIN positions /\ IsFiniteSet(S) /\ Cardinality(S) \in Nat
<1>1. stats[w] \in Aggregate /\ stats \in [Wallet -> Aggregate]
    BY DEF Shape, TablesOK
<1>2. \A S \in {CountedRows(w), TalliedRows(w), RightRows(w)} : S \subseteq DOMAIN positions
    BY DEF CountedRows, TalliedRows, RightRows, RowsOf
<1>3. QED BY <1>1, <1>2, RowsFinite DEF Aggregate

\* A set of rows that gains one is larger by one.
LEMMA OneMore ==
    ASSUME NEW S, IsFiniteSet(S), NEW i, i \notin S
    PROVE  Cardinality(S \cup {i}) = Cardinality(S) + 1
BY FS_AddElement

\* A row is not counted before its wallet is.
LEMMA RowCounted ==
    ASSUME Shape, PollInv, CountsInv, MissingInv, InsertPosition
    PROVE  CountsInv' /\ MissingInv'
<1> DEFINE n == Len(positions) + 1
<1>1. /\ lpc = "write" /\ lpc' = "count" /\ UNCHANGED <<stats, pending, spc, rated>>
      /\ UNCHANGED <<uncounted, untallied>>
    BY DEF InsertPosition, scorer, trouble
<1>2. /\ DOMAIN positions' = DOMAIN positions \cup {n} /\ n \notin DOMAIN positions
      /\ Len(positions') = n
      /\ positions'[n].wallet = Current.wallet /\ positions'[n].outcome = "none"
      /\ \A i \in DOMAIN positions : positions'[i] = positions[i]
    BY RowInserted DEF NewRow
<1>3. Current' = Current
    BY <1>1 DEF Current, Before
<1> HIDE DEF n
<1>4. /\ Uncounted = uncounted /\ Uncounted' = uncounted \cup {n}
      /\ Untallied' = Untallied /\ n \notin uncounted /\ n \notin Untallied
      /\ uncounted \subseteq DOMAIN positions /\ Untallied \subseteq DOMAIN positions \ Unrated
    BY <1>1, <1>2 DEF Uncounted, Untallied, MissingInv
<1>5. ASSUME NEW w \in Wallet
      PROVE  /\ CountedRows(w)' = CountedRows(w) /\ TalliedRows(w)' = TalliedRows(w)
             /\ RightRows(w)' = RightRows(w)
    <2>1. RowsOf(w) \subseteq DOMAIN positions
          /\ RowsOf(w)' \subseteq RowsOf(w) \cup {n} /\ RowsOf(w) \subseteq RowsOf(w)'
        BY <1>2 DEF RowsOf
    <2>2. Unrated' = Unrated \cup {n}
        BY <1>2 DEF Unrated
    <2>3. RightRows(w)' = RightRows(w)
        BY <1>2, <1>4, <2>1 DEF RightRows
    <2>4. QED BY <1>2, <1>4, <2>1, <2>2, <2>3 DEF CountedRows, TalliedRows
<1>6. CountsInv'
    BY <1>1, <1>5 DEF CountsInv
<1>7. MissingInv'
    <2>1. DOMAIN positions \ Unrated \subseteq DOMAIN positions' \ Unrated'
        BY <1>2 DEF Unrated
    <2>2. QED BY <1>1, <1>2, <1>3, <1>4, <2>1 DEF MissingInv
<1>8. QED BY <1>6, <1>7

\* The aggregate of the wallet catches up with the row.
LEMMA TradeTaken ==
    ASSUME Shape, PollInv, CountsInv, MissingInv, CountTrade
    PROVE  CountsInv' /\ MissingInv'
<1> DEFINE v == Current.wallet
           n == Len(positions)
<1>1. /\ lpc = "count" /\ lpc' # "count" /\ UNCHANGED <<positions, spc, rated>>
      /\ UNCHANGED <<uncounted, untallied>>
    BY DEF CountTrade, scorer, trouble
<1>2. /\ v \in Wallet
      /\ stats' = [stats EXCEPT ![v] = [stats[v] EXCEPT !.trades = @ + 1]]
    BY TradeCounted
<1>3. n \notin uncounted /\ n \in DOMAIN positions /\ positions[n].wallet = v
    BY <1>1 DEF MissingInv, Uncounted
<1> HIDE DEF v, n
<1>4. /\ Uncounted = uncounted \cup {n} /\ Uncounted' = uncounted
      /\ Untallied' = Untallied /\ Unrated' = Unrated
    BY <1>1 DEF Uncounted, Untallied, Unrated, n
<1>5. ASSUME NEW w \in Wallet
      PROVE  (/\ stats[w].trades = Cardinality(CountedRows(w))
              /\ stats[w].resolved = Cardinality(TalliedRows(w))
              /\ stats[w].correct = Cardinality(RightRows(w)))'
    <2>1. RowsOf(w)' = RowsOf(w) /\ (n \in RowsOf(w) <=> w = v)
        BY <1>1, <1>3 DEF RowsOf
    <2>2. /\ TalliedRows(w)' = TalliedRows(w) /\ RightRows(w)' = RightRows(w)
          /\ CountedRows(w)' = IF w = v THEN CountedRows(w) \cup {n} ELSE CountedRows(w)
          /\ n \notin CountedRows(w)
        BY <1>1, <1>3, <1>4, <2>1 DEF TalliedRows, RightRows, CountedRows
    <2>3. stats'[w] = IF w = v THEN [stats[w] EXCEPT !.trades = @ + 1] ELSE stats[w]
        BY <1>2, CountsTyped
    <2>4. /\ stats'[w].trades = IF w = v THEN stats[w].trades + 1 ELSE stats[w].trades
          /\ stats'[w].resolved = stats[w].resolved
          /\ stats'[w].correct = stats[w].correct
        BY <2>3, CountsTyped DEF Aggregate
    <2>5. Cardinality(CountedRows(w) \cup {n}) = Cardinality(CountedRows(w)) + 1
        BY <2>2, CountsTyped, OneMore
    <2>6. QED BY <2>2, <2>4, <2>5 DEF CountsInv
<1>6. CountsInv'
    BY <1>5 DEF CountsInv
<1>7. QED BY <1>1, <1>4, <1>6 DEF MissingInv

\* An outcome is not counted before the wallet of its row is.
LEMMA RowOfOutcomeCounted ==
    ASSUME Shape, PollInv, RatingInv, CountsInv, MissingInv, NEW i \in todo, Rate(i)
    PROVE  CountsInv' /\ MissingInv'
<1>1. /\ spc = "rate" /\ spc' = "tally" /\ rated' = i /\ UNCHANGED <<stats, lpc, pending>>
      /\ lpc # "count" /\ UNCHANGED <<uncounted, untallied>>
    BY DEF Rate, listener, PollInv, trouble
<1>2. /\ i \in DOMAIN positions /\ DOMAIN positions' = DOMAIN positions
      /\ positions'[i] = [positions[i] EXCEPT !.outcome = Outcome(positions[i])]
      /\ positions'[i].outcome \in {"right", "wrong"}
      /\ \A j \in DOMAIN positions : j # i => positions'[j] = positions[j]
    BY RowRated
<1>3. i \in Unrated /\ positions'[i].wallet = positions[i].wallet
    <2>1. positions[i] \in Position
        BY <1>2, Numbered
    <2>2. QED BY <1>2, <2>1 DEF RatingInv, Position
<1>4. /\ Uncounted' = Uncounted /\ Untallied = untallied /\ Untallied' = untallied \cup {i}
      /\ untallied \subseteq DOMAIN positions \ Unrated /\ i \notin untallied
      /\ Unrated' = Unrated \ {i}
    <2>1. Uncounted' = Uncounted /\ Untallied = untallied /\ Untallied' = untallied \cup {i}
        BY <1>1 DEF Uncounted, Untallied
    <2>2. Unrated' = Unrated \ {i}
        BY <1>2 DEF Unrated
    <2>3. QED BY <1>3, <2>1, <2>2 DEF MissingInv
<1>5. ASSUME NEW w \in Wallet
      PROVE  /\ CountedRows(w)' = CountedRows(w) /\ TalliedRows(w)' = TalliedRows(w)
             /\ RightRows(w)' = RightRows(w)
    <2>1. RowsOf(w)' = RowsOf(w) /\ RowsOf(w) \subseteq DOMAIN positions
        BY <1>2, <1>3 DEF RowsOf
    <2>2. positions[i].outcome = "none"
        BY <1>3 DEF Unrated
    <2>3. RightRows(w)' = RightRows(w)
        BY <1>2, <1>4, <2>1, <2>2 DEF RightRows
    <2>4. QED BY <1>3, <1>4, <2>1, <2>3 DEF CountedRows, TalliedRows
<1>6. CountsInv'
    BY <1>1, <1>5 DEF CountsInv
<1>7. QED BY <1>1, <1>2, <1>4, <1>6 DEF MissingInv

\* The aggregate of the wallet catches up with the outcome.
LEMMA OutcomeTaken ==
    ASSUME Shape, PollInv, RatingInv, CountsInv, MissingInv, TallyListed
    PROVE  CountsInv' /\ MissingInv'
<1> DEFINE p == positions[rated]
           v == p.wallet
           one == IF p.outcome = "right" THEN 1 ELSE 0
<1>1. /\ spc = "tally" /\ spc' = "rate" /\ UNCHANGED <<positions, lpc, pending>>
      /\ UNCHANGED <<uncounted, untallied>>
    BY DEF TallyListed, Tally, listener
<1>2. /\ v \in Wallet
      /\ stats' = [stats EXCEPT ![v] =
            [stats[v] EXCEPT !.resolved = @ + 1, !.correct = @ + one]]
    BY OutcomeCounted DEF TallyListed
<1>3. /\ rated \notin untallied /\ rated \in DOMAIN positions /\ rated \notin Unrated
      /\ one \in Nat /\ one = IF positions[rated].outcome = "right" THEN 1 ELSE 0
    BY <1>1 DEF MissingInv, Untallied
<1>4. /\ Untallied = untallied \cup {rated} /\ Untallied' = untallied
      /\ Unrated' = Unrated /\ Uncounted' = Uncounted
      /\ lpc' = "count" => lpc = "count" /\ Current' = Current
    BY <1>1 DEF Uncounted, Untallied, Unrated, Current, Before
<1>5. ASSUME NEW w \in Wallet
      PROVE  (/\ stats[w].trades = Cardinality(CountedRows(w))
              /\ stats[w].resolved = Cardinality(TalliedRows(w))
              /\ stats[w].correct = Cardinality(RightRows(w)))'
    <2>1. RowsOf(w)' = RowsOf(w) /\ (rated \in RowsOf(w) <=> w = v)
        BY <1>1, <1>3 DEF RowsOf
    <2>2. /\ CountedRows(w)' = CountedRows(w)
          /\ TalliedRows(w)' = IF w = v THEN TalliedRows(w) \cup {rated} ELSE TalliedRows(w)
          /\ rated \notin TalliedRows(w) /\ rated \notin RightRows(w)
        BY <1>3, <1>4, <2>1 DEF TalliedRows, RightRows, CountedRows
    <2>3. RightRows(w)' = IF w = v /\ p.outcome = "right" THEN RightRows(w) \cup {rated}
                          ELSE RightRows(w)
        BY <1>1, <1>3, <1>4, <2>1 DEF RightRows
    <2>4. stats[w] \in Aggregate /\ stats \in [Wallet -> Aggregate]
        BY CountsTyped
    <2>5. /\ stats'[w].trades = stats[w].trades
          /\ stats'[w].resolved = IF w = v THEN stats[w].resolved + 1 ELSE stats[w].resolved
          /\ stats'[w].correct = IF w = v THEN stats[w].correct + one ELSE stats[w].correct
        <3> DEFINE row == [stats[w] EXCEPT !.resolved = @ + 1, !.correct = @ + one]
        <3>1. /\ row.trades = stats[w].trades
              /\ row.resolved = stats[w].resolved + 1
              /\ row.correct = stats[w].correct + one
            BY <1>3, <2>4, AggregateGrows
        <3> HIDE DEF v, one
        <3>2. stats'[w] = IF w = v THEN row ELSE stats[w]
            BY <1>2, <2>4
        <3> HIDE DEF row
        <3>3. QED BY <3>1, <3>2
    <2>6. /\ Cardinality(TalliedRows(w) \cup {rated}) = Cardinality(TalliedRows(w)) + 1
          /\ Cardinality(RightRows(w) \cup {rated}) = Cardinality(RightRows(w)) + 1
        BY <2>2, CountsTyped, OneMore
    <2>7. stats[w].resolved \in Nat /\ stats[w].correct \in Nat
        BY CountsTyped
    <2>8. stats'[w].trades = Cardinality(CountedRows(w)')
        BY <2>2, <2>5 DEF CountsInv
    <2>9. stats'[w].resolved = Cardinality(TalliedRows(w)')
        BY <2>2, <2>5, <2>6 DEF CountsInv
    <2>10. stats'[w].correct = Cardinality(RightRows(w)')
        <3>1. stats[w].correct = Cardinality(RightRows(w))
            BY DEF CountsInv
        <3>2. CASE w = v /\ p.outcome = "right"
            <4>1. one = 1 /\ w = v
                BY <3>2
            <4>2. RightRows(w)' = RightRows(w) \cup {rated}
                BY <2>3, <3>2
            <4>3. QED BY <2>5, <2>6, <3>1, <4>1, <4>2
        <3>3. CASE w = v /\ p.outcome # "right"
            <4>1. one = 0 /\ w = v
                BY <3>3
            <4>2. RightRows(w)' = RightRows(w)
                BY <2>3, <3>3
            <4>3. QED BY <2>5, <2>7, <3>1, <4>1, <4>2
        <3>4. CASE w # v
            BY <2>3, <2>5, <3>1, <3>4
        <3>5. QED BY <3>2, <3>3, <3>4
    <2>11. QED BY <2>8, <2>9, <2>10
<1>6. CountsInv'
    BY <1>5 DEF CountsInv
<1>7. QED BY <1>1, <1>4, <1>6 DEF MissingInv

\* Nothing moves.
LEMMA CountsQuiet ==
    ASSUME CountsInv, MissingInv, Quiet
    PROVE  CountsInv' /\ MissingInv'
<1>1. Unrated' = Unrated
    BY DEF Quiet, Unrated
<1>2. ASSUME NEW w \in Wallet
      PROVE  /\ CountedRows(w)' = CountedRows(w) /\ TalliedRows(w)' = TalliedRows(w)
             /\ RightRows(w)' = RightRows(w)
    BY <1>1 DEF Quiet, CountedRows, TalliedRows, RightRows, RowsOf
<1>3. CountsInv'
    BY <1>2 DEF CountsInv, Quiet
<1>4. QED BY <1>1, <1>3 DEF MissingInv, Quiet

\* The aggregates of the wallets stay those of their rows.
LEMMA CountsHold ==
    ASSUME Shape, PollInv, RatingInv, CountsInv, MissingInv, [Next]_vars
    PROVE  CountsInv' /\ MissingInv'
BY QuietSteps, CountsQuiet, RowCounted, TradeTaken, RowOfOutcomeCounted, OutcomeTaken

\* Only a wallet none of whose trades was counted has no row.
LEMMA NotListed ==
    ASSUME Shape, PollInv, RatingInv, CountsInv, spc = "tally", ~Listed(positions[rated].wallet)
    PROVE  rated \in uncounted
<1> DEFINE w == positions[rated].wallet
<1>1. rated \in DOMAIN positions /\ w \in Wallet /\ lpc # "count"
    BY RowFields DEF RatingInv, PollInv
<1> HIDE DEF w
<1>2. Cardinality(CountedRows(w)) = 0 /\ IsFiniteSet(CountedRows(w))
    <2>1. stats[w].trades \in Nat /\ IsFiniteSet(CountedRows(w))
        BY <1>1, CountsTyped
    <2>2. stats[w].trades = Cardinality(CountedRows(w))
        BY <1>1 DEF CountsInv
    <2>3. ~(stats[w].trades > 0)
        BY DEF Listed, w
    <2>4. QED BY <2>1, <2>2, <2>3
<1>3. CountedRows(w) = {}
    BY <1>2, FS_EmptySet
<1>4. rated \in RowsOf(w)
    BY <1>1 DEF RowsOf, w
<1>5. QED BY <1>1, <1>3, <1>4 DEF CountedRows, Uncounted

\* A fault costs one row at most, and nothing else does.
LEMMA LossHolds ==
    ASSUME Shape, PollInv, RatingInv, CountsInv, MissingInv, LossInv, [Next]_vars
    PROVE  LossInv'
<1> DEFINE lost == uncounted \cup untallied
<1>1. faults \in Nat /\ lost \subseteq DOMAIN positions
    BY DEF Shape, TroubleOK, MissingInv, Uncounted, Untallied
<1>2. IsFiniteSet(lost) /\ Cardinality(lost) \in Nat /\ Cardinality(lost) <= faults
    BY <1>1, RowsFinite DEF LossInv
<1>3. CASE FailPoll \/ FailRating \/ Restart
    <2>1. faults' = faults + 1
        BY <1>3 DEF FailPoll, FailRating, Restart
    <2>2. \E i : lost' \subseteq lost \cup {i}
        <3>1. lpc # "count" \/ spc # "tally"
            BY DEF PollInv
        <3>2. lost' \subseteq Uncounted \cup Untallied
            BY <1>3 DEF FailPoll, FailRating, Restart, Uncounted, Untallied
        <3>3. CASE lpc # "count"
            <4>1. Uncounted \cup Untallied \subseteq lost \cup {rated}
                BY <3>3 DEF Uncounted, Untallied
            <4>2. QED BY <3>2, <4>1
        <3>4. CASE spc # "tally"
            <4>1. Uncounted \cup Untallied \subseteq lost \cup {Len(positions)}
                BY <3>4 DEF Uncounted, Untallied
            <4>2. QED BY <3>2, <4>1
        <3>5. QED BY <3>1, <3>3, <3>4
    <2>3. PICK i : lost' \subseteq lost \cup {i}
        BY <2>2
    <2> HIDE DEF lost
    <2>4. /\ IsFiniteSet(lost \cup {i})
          /\ Cardinality(lost \cup {i}) <= Cardinality(lost) + 1
          /\ Cardinality(lost \cup {i}) \in Nat
        BY <1>2, FS_AddElement, FS_CardinalityType
    <2>5. Cardinality(lost') <= Cardinality(lost \cup {i}) /\ Cardinality(lost') \in Nat
        BY <2>3, <2>4, FS_Subset, FS_CardinalityType
    <2>6. Cardinality(lost') <= faults'
        BY <1>1, <1>2, <2>1, <2>4, <2>5
    <2>7. QED BY <2>6 DEF LossInv, lost
<1>4. CASE Tally
    <2>1. lost' = lost
        <3>1. CASE Listed(positions[rated].wallet)
            BY <1>4, <3>1 DEF Tally
        <3>2. CASE ~Listed(positions[rated].wallet)
            <4>1. rated \in uncounted
                BY <1>4, <3>2, NotListed DEF Tally
            <4>2. uncounted' = uncounted /\ untallied' = untallied \cup {rated}
                BY <1>4, <3>2 DEF Tally, Untallied
            <4>3. QED BY <4>1, <4>2
        <3>3. QED BY <3>1, <3>2
    <2>2. faults' = faults
        BY <1>4 DEF Tally
    <2>3. QED BY <2>1, <2>2 DEF LossInv
<1>5. ASSUME ~FailPoll, ~FailRating, ~Restart, ~Tally PROVE UNCHANGED trouble
    <2>1. CASE ListenerStep
        BY <1>5, <2>1, ListenerLeaves
    <2>2. CASE Rating
        BY <1>5, <2>2 DEF Rating, StartRating, EndRating, LeaveUnrated, Rate, Promote, Demote
    <2>3. CASE WorldStep \/ UNCHANGED vars
        BY <2>3, WorldLeaves DEF vars, trouble
    <2>4. QED BY <1>5, <2>1, <2>2, <2>3, Steps DEF ScorerStep
<1>6. CASE UNCHANGED trouble
    BY <1>6 DEF LossInv, trouble
<1>7. QED BY <1>3, <1>4, <1>5, <1>6

----------------------------------------------------------------------------
(***************************************************************************)
(* The theorems.                                                           *)
(***************************************************************************)

\* At the start the chain, the tables and both tasks are empty.
LEMMA InitHolds == Init => IInv
<1> SUFFICES ASSUME Init PROVE IInv
    OBVIOUS
<1>1. PICK setup \in Setups :
          /\ discovery = setup.discovery
          /\ stats = [w \in Wallet |-> [tracked |-> w \in setup.follow, trades |-> 0,
                                        resolved |-> 0, correct |-> 0]]
    BY DEF Init
<1>2. discovery \in BOOLEAN
    BY <1>1, WhaleAssumption
<1>3. stats \in [Wallet -> Aggregate]
    BY <1>1 DEF Aggregate
<1>4. positions \in Seq(Position) /\ chain \in Seq(Blocks) /\ DOMAIN positions = {}
      /\ Len(positions) = 0
    BY DEF Init
<1>5. payout \in [OutcomeToken -> Payouts]
    BY WhaleAssumption DEF Init
<1>6. Shape
    BY <1>2, <1>3, <1>4, <1>5
       DEF Init, Shape, WorldOK, TablesOK, ListenerOK, ScorerOK, TroubleOK, NoBlock
<1>7. PollInv /\ BehindInv /\ AheadInv /\ RatingInv
    BY <1>4 DEF Init, PollInv, BehindInv, AheadInv, RatingInv, Writing, Inserted, EventsBacked,
                NoBlock
<1>8. \A w \in Wallet : stats[w].trades = 0 /\ stats[w].resolved = 0 /\ stats[w].correct = 0
    BY <1>1
<1>9. CountsInv /\ MissingInv /\ LossInv
    <2>1. /\ lpc # "count" /\ spc # "tally" /\ Cardinality({}) = 0 /\ faults = 0
          /\ uncounted = {} /\ untallied = {}
        BY FS_EmptySet DEF Init
    <2>2. \A w \in Wallet : CountedRows(w) = {} /\ TalliedRows(w) = {} /\ RightRows(w) = {}
        BY <1>4 DEF CountedRows, TalliedRows, RightRows, RowsOf
    <2>3. CountsInv
        BY <1>8, <2>1, <2>2 DEF CountsInv
    <2>4. MissingInv
        BY <2>1 DEF MissingInv, Uncounted, Untallied
    <2>5. LossInv
        <3>1. uncounted \cup untallied = {}
            BY <2>1
        <3>2. QED BY <2>1, <3>1 DEF LossInv
    <2>6. QED BY <2>3, <2>4, <2>5
<1>10. MissingOK
    BY DEF Init, MissingOK
<1>11. FollowListCurrent
    BY <1>8, WhaleAssumption DEF FollowListCurrent
<1>12. QED BY <1>6, <1>7, <1>9, <1>10, <1>11, TypeParts DEF IInv

\* Every step keeps the invariant.
LEMMA NextHolds == IInv /\ [Next]_vars => IInv'
<1> SUFFICES ASSUME IInv, [Next]_vars PROVE IInv'
    OBVIOUS
<1>1. /\ Shape /\ PollInv /\ BehindInv /\ AheadInv /\ RatingInv /\ CountsInv /\ MissingInv
      /\ LossInv /\ FollowListCurrent
    BY TypeParts DEF IInv
<1>2. Shape' /\ PollInv'
    BY <1>1, ShapeHolds
<1>3. BehindInv' /\ AheadInv' /\ RatingInv'
    BY <1>1, BehindHolds, AheadHolds, RatingHolds
<1>4. CountsInv' /\ MissingInv' /\ LossInv' /\ FollowListCurrent'
    BY <1>1, CountsHold, LossHolds, FollowListHolds
<1>5. MissingOK'
    BY <1>4 DEF MissingInv, MissingOK, Uncounted, Untallied
<1>6. QED BY <1>2, <1>3, <1>4, <1>5, TypeParts DEF IInv

\* The invariant of the listener and the scorer: it holds in every state (ctf_listener.py,
\* whale_scorer.py, wallet_tracker.py).
THEOREM Inductive == Spec => []IInv
BY InitHolds, NextHolds, PTL DEF Spec

\* The tables and the local state of the two tasks keep their shape: in particular no
\* position is of the zero address (ctf_listener.py, wallet_tracker.py).
THEOREM TypeCorrect == Spec => []TypeOK
<1>1. IInv => TypeOK
    BY DEF IInv
<1>2. QED BY <1>1, Inductive, PTL

\* Every large trade in a block the listener has passed is in the table, once as long as no
\* pass was cut short, and so is every transfer that was published (ctf_listener.py).
THEOREM TradesAreRecorded == Spec => []TradesRecorded
<1>1. IInv => TradesRecorded
    <2> SUFFICES ASSUME IInv PROVE TradesRecorded
        OBVIOUS
    <2>1. Shape /\ PollInv /\ BehindInv /\ AheadInv
        BY TypeParts DEF IInv
    <2>2. RecordedOnce
        BY <2>1, AheadParts DEF RecordedOnce, Ahead, NoRowTwice, Sees
    <2>3. NothingMissed
        BY <2>1 DEF BehindInv, NothingMissed, Covered, Sees
    <2>4. EventsBacked
        BY <2>1 DEF BehindInv
    <2>5. QED BY <2>2, <2>3, <2>4 DEF TradesRecorded
<1>2. QED BY <1>1, Inductive, PTL

\* The aggregates of a wallet are those of its positions, less the ones whose wallet
\* statement was cut off or found no row, one position for each fault at most, and the
\* follow list is what the aggregates say (wallet_tracker.py, whale_scorer.py).
THEOREM WalletsAreRated == Spec => []WalletsRated
<1>1. IInv => WalletsRated
    <2> SUFFICES ASSUME IInv PROVE WalletsRated
        OBVIOUS
    <2>1. AggregatesAccount
        BY DEF IInv, CountsInv, CountedRows, TalliedRows, RightRows, LossInv, AggregatesAccount
    <2>2. QED BY <2>1 DEF IInv, WalletsRated
<1>2. QED BY <1>1, Inductive, PTL

----------------------------------------------------------------------------
(***************************************************************************)
(* The trackers, call by call.                                             *)
(***************************************************************************)

\* The trackers, by what they keep.
Kept(micro, sums, mom, last, out) ==
    [micro |-> micro, sums |-> sums, mom |-> mom, last |-> last, out |-> out]

\* What a call makes of a debouncer and of the signals.
Fires(last, holds, key, time, debounce) ==
    holds /\ (last[key] = Never \/ time - last[key] >= debounce)
Spent(last, holds, key, time, debounce) ==
    IF Fires(last, holds, key, time, debounce) THEN [last EXCEPT ![key] = time] ELSE last
Given(out, last, holds, key, time, debounce) ==
    IF Fires(last, holds, key, time, debounce) THEN out \cup {<<key, time>>} ELSE out

\* One window per element of D.
Windows(f, D) == (\E S : f \in [D -> S]) /\ \A x \in D : \E S : f[x] \in Seq(S)

\* Debouncers and signals up to a time.
Signals(last, out, time) ==
    last \in [Key -> {Never} \cup 0 .. time] /\ out \subseteq Key \X (0 .. time)
Debounced(last, out) == \A k \in Key : last[k] = Never \/ <<k, last[k]>> \in out

TrackersOK(st, time) ==
    /\ st = Kept(st.micro, st.sums, st.mom, st.last, st.out)
    /\ Windows(st.micro, Token) /\ Windows(st.sums, Group) /\ Windows(st.mom, Token)
    /\ Signals(st.last, st.out, time)

----------------------------------------------------------------------------
(***************************************************************************)
(* Windows.                                                                *)
(***************************************************************************)

LEMMA LeastOf ==
    ASSUME NEW S \in SUBSET Nat, S # {}
    PROVE  Min(S) \in S /\ \A n \in S : Min(S) <= n
<1>1. \E n \in S : \A m \in S : n <= m
    BY LeastNatural
<1>2. QED BY <1>1 DEF Min

\* A window that holds the new sample and some of those it held.
Joined(new, S, hist, sample) ==
    /\ new \in Seq(S \cup {sample}) /\ Len(new) \in Nat
    /\ Len(new) <= Len(hist) + 1
    /\ \A i \in 1 .. Len(new) :
           new[i] = sample \/ \E j \in 1 .. Len(hist) : new[i] = hist[j]

LEMMA RollKeeps ==
    ASSUME NEW S, NEW hist \in Seq(S), NEW sample, NEW time \in Nat, sample.ts = time,
           NEW window \in Nat
    PROVE  Joined(Roll(hist, sample, time, window), S, hist, sample)
<1> DEFINE all == Append(hist, sample)
           young == {i \in 1 .. Len(all) : time - all[i].ts <= window}
           first == Min(young)
           new == SubSeq(all, first, Len(all))
<1>1. /\ Len(hist) \in Nat /\ all \in Seq(S \cup {sample}) /\ Len(all) = Len(hist) + 1
      /\ all[Len(all)] = sample
      /\ \A i \in 1 .. Len(hist) : all[i] = hist[i]
    BY SeqMonotonic
<1>2. Len(all) \in young
    <2>1. Len(all) \in 1 .. Len(all) /\ all[Len(all)].ts = time /\ time - time <= window
        BY <1>1
    <2> HIDE DEF all
    <2>2. QED BY <2>1
<1> HIDE DEF all
<1>3. young \in SUBSET Nat /\ young \subseteq 1 .. Len(all)
    BY <1>1
<1>4. first \in 1 .. Len(all)
    BY <1>2, <1>3, LeastOf
<1> HIDE DEF young, first
<1>5. /\ new \in Seq(S \cup {sample}) /\ Len(new) = Len(all) - first + 1
      /\ \A i \in 1 .. Len(new) : new[i] = all[first + i - 1] /\ first + i - 1 \in 1 .. Len(all)
    BY <1>1, <1>4
<1>6. new = Roll(hist, sample, time, window)
    BY DEF Roll, all, young, first
<1> HIDE DEF new
<1>7. ASSUME NEW i \in 1 .. Len(new)
      PROVE  new[i] = sample \/ \E j \in 1 .. Len(hist) : new[i] = hist[j]
    <2>1. PICK j \in 1 .. Len(all) : new[i] = all[j]
        BY <1>5
    <2>2. j = Len(all) \/ j \in 1 .. Len(hist)
        BY <1>1
    <2>3. QED BY <1>1, <2>1, <2>2
<1>8. QED BY <1>1, <1>4, <1>5, <1>6, <1>7 DEF Joined

\* A window replaced by another.
LEMMA WindowsReplaced ==
    ASSUME NEW D, NEW f, Windows(f, D), NEW x \in D, NEW S, NEW w \in Seq(S)
    PROVE  /\ Windows([f EXCEPT ![x] = w], D)
           /\ [f EXCEPT ![x] = w][x] = w
           /\ \A y \in D : y # x => [f EXCEPT ![x] = w][y] = f[y]
<1>1. PICK T : f \in [D -> T]
    BY DEF Windows
<1> DEFINE g == [f EXCEPT ![x] = w]
<1>2. g \in [D -> T \cup {w}] /\ g[x] = w /\ \A y \in D : y # x => g[y] = f[y]
    BY <1>1
<1> HIDE DEF g
<1>3. \A y \in D : \E U : g[y] \in Seq(U)
    BY <1>2 DEF Windows
<1>4. Windows(g, D)
    BY <1>2, <1>3 DEF Windows
<1>5. QED BY <1>2, <1>4 DEF g

----------------------------------------------------------------------------
(***************************************************************************)
(* Calls.                                                                  *)
(***************************************************************************)

LEMMA EmitIs ==
    ASSUME NEW a, NEW b, NEW c, NEW d, NEW e, NEW holds, NEW key, NEW time, NEW debounce
    PROVE  Emit(Kept(a, b, c, d, e), holds, key, time, debounce)
               = Kept(a, b, c, Spent(d, holds, key, time, debounce),
                      Given(e, d, holds, key, time, debounce))
<1> DEFINE st == Kept(a, b, c, d, e)
<1>1. st.last = d /\ st.out = e
    BY DEF Kept
<1>2. [st EXCEPT !.last[key] = time, !.out = @ \cup {<<key, time>>}]
          = Kept(a, b, c, [d EXCEPT ![key] = time], e \cup {<<key, time>>})
    <2> DEFINE d1 == [d EXCEPT ![key] = time]
               e1 == e \cup {<<key, time>>}
    <2>1. [st EXCEPT !.last[key] = time, !.out = @ \cup {<<key, time>>}]
              = [st EXCEPT !.last = d1, !.out = e1]
        BY <1>1
    <2> HIDE DEF d1, e1
    <2>2. [st EXCEPT !.last = d1] = Kept(a, b, c, d1, e)
        BY DEF Kept
    <2>3. [Kept(a, b, c, d1, e) EXCEPT !.out = e1] = Kept(a, b, c, d1, e1)
        BY DEF Kept
    <2>4. [st EXCEPT !.last = d1, !.out = e1] = [[st EXCEPT !.last = d1] EXCEPT !.out = e1]
        OBVIOUS
    <2>5. QED BY <2>1, <2>2, <2>3, <2>4 DEF d1, e1
<1>3. CASE Fires(d, holds, key, time, debounce)
    <2>1. Emit(st, holds, key, time, debounce)
              = [st EXCEPT !.last[key] = time, !.out = @ \cup {<<key, time>>}]
        BY <1>1, <1>3 DEF Emit, Fires
    <2>2. QED BY <1>2, <1>3, <2>1 DEF Spent, Given
<1>4. CASE ~ Fires(d, holds, key, time, debounce)
    <2>1. Emit(st, holds, key, time, debounce) = st
        BY <1>1, <1>4 DEF Emit, Fires
    <2>2. QED BY <1>4, <2>1 DEF Spent, Given
<1>5. QED BY <1>3, <1>4

\* A signal that is given is the last of its key.
LEMMA SignalsKeep ==
    ASSUME NEW time \in Nat, NEW d, NEW e, Signals(d, e, time), NEW key \in Key,
           NEW holds, NEW debounce
    PROVE  LET d1 == Spent(d, holds, key, time, debounce)
               e1 == Given(e, d, holds, key, time, debounce)
           IN  Signals(d1, e1, time) /\ (Debounced(d, e) => Debounced(d1, e1))
<1>1. CASE Fires(d, holds, key, time, debounce)
    <2> DEFINE d1 == [d EXCEPT ![key] = time]
               e1 == e \cup {<<key, time>>}
    <2>1. Spent(d, holds, key, time, debounce) = d1 /\ Given(e, d, holds, key, time, debounce) = e1
        BY <1>1 DEF Spent, Given
    <2>2. time \in 0 .. time /\ d \in [Key -> {Never} \cup 0 .. time] /\ e \subseteq Key \X (0 .. time)
        BY DEF Signals
    <2>3. Signals(d1, e1, time)
        BY <2>2 DEF Signals
    <2>4. \A k \in Key : d1[k] = IF k = key THEN time ELSE d[k]
        BY <2>2
    <2>5. Debounced(d, e) => Debounced(d1, e1)
        BY <2>4 DEF Debounced
    <2>6. QED BY <2>1, <2>3, <2>5
<1>2. CASE ~ Fires(d, holds, key, time, debounce)
    BY <1>2 DEF Spent, Given
<1>3. QED BY <1>1, <1>2

LEMMA KeptFields ==
    ASSUME NEW a, NEW b, NEW c, NEW d, NEW e
    PROVE  LET st == Kept(a, b, c, d, e)
           IN  st.micro = a /\ st.sums = b /\ st.mom = c /\ st.last = d /\ st.out = e
BY DEF Kept

\* What one call does to the trackers: one more sample at most in the window of each
\* token, and signals that the debouncers know of.
Called(st, next, time) ==
    /\ TrackersOK(next, time)
    /\ Debounced(st.last, st.out) => Debounced(next.last, next.out)

LEMMA KeysAre ==
    /\ \A t \in Token : {<<"ofi", t>>, <<"liq", t>>, <<"trade", t>>, <<"mom", t>>, <<"bnd", t>>} \subseteq Key
    /\ \A m \in Market : <<"comp", m>> \in Key
    /\ \A g \in Group : <<"psum", g>> \in Key
BY DEF Key

\* A signal or none.
LEMMA EmitDoes ==
    ASSUME NEW time \in Nat, NEW st, TrackersOK(st, time), NEW key \in Key, NEW holds, NEW debounce
    PROVE  LET next == Emit(st, holds, key, time, debounce)
           IN  /\ Called(st, next, time)
               /\ next.micro = st.micro /\ next.sums = st.sums /\ next.mom = st.mom
<1> DEFINE d1 == Spent(st.last, holds, key, time, debounce)
           e1 == Given(st.out, st.last, holds, key, time, debounce)
<1>1. Emit(st, holds, key, time, debounce) = Kept(st.micro, st.sums, st.mom, d1, e1)
    <2> DEFINE kept == Kept(st.micro, st.sums, st.mom, st.last, st.out)
    <2>1. st = kept
        BY DEF TrackersOK
    <2>2. Emit(kept, holds, key, time, debounce) = Kept(st.micro, st.sums, st.mom, d1, e1)
        BY EmitIs
    <2> HIDE DEF kept, d1, e1
    <2>3. QED BY <2>1, <2>2, Zenon
<1>2. Signals(d1, e1, time) /\ (Debounced(st.last, st.out) => Debounced(d1, e1))
    BY SignalsKeep DEF TrackersOK
<1> HIDE DEF d1, e1
<1> DEFINE next == Kept(st.micro, st.sums, st.mom, d1, e1)
<1>3. /\ next.micro = st.micro /\ next.sums = st.sums /\ next.mom = st.mom
      /\ next.last = d1 /\ next.out = e1
    BY DEF Kept
<1>4. next = Kept(next.micro, next.sums, next.mom, next.last, next.out)
    BY <1>3
<1> HIDE DEF next
<1>5. Called(st, next, time)
    BY <1>2, <1>3, <1>4 DEF Called, TrackersOK
<1>6. QED BY <1>1, <1>3, <1>5 DEF next

LEMMA CalledAgain ==
    ASSUME NEW st, NEW mid, NEW next, NEW time, Called(st, mid, time), Called(mid, next, time)
    PROVE  Called(st, next, time)
BY DEF Called

\* Trackers whose debouncers and signals are those of others.
LEMMA SameSignals ==
    ASSUME NEW time, NEW st, TrackersOK(st, time), NEW x, NEW y, NEW z,
           Windows(x, Token), Windows(y, Group), Windows(z, Token)
    PROVE  Called(st, Kept(x, y, z, st.last, st.out), time)
<1> DEFINE next == Kept(x, y, z, st.last, st.out)
<1>1. /\ next.micro = x /\ next.sums = y /\ next.mom = z /\ next.last = st.last
      /\ next.out = st.out
    BY DEF Kept
<1>2. next = Kept(next.micro, next.sums, next.mom, next.last, next.out)
    BY <1>1
<1> HIDE DEF next
<1>3. Called(st, next, time)
    BY <1>1, <1>2 DEF Called, TrackersOK
<1>4. QED BY <1>3 DEF next

\* A sample joins one of the windows.
LEMMA MicroRolled ==
    ASSUME NEW time, NEW st, TrackersOK(st, time), NEW t \in Token, NEW S, NEW h \in Seq(S)
    PROVE  LET next == [st EXCEPT !.micro[t] = h]
           IN  /\ Called(st, next, time) /\ next.sums = st.sums /\ next.mom = st.mom
               /\ next.micro = [st.micro EXCEPT ![t] = h]
<1> DEFINE w == [st.micro EXCEPT ![t] = h]
           next == Kept(w, st.sums, st.mom, st.last, st.out)
<1>1. Windows(w, Token)
    BY WindowsReplaced DEF TrackersOK
<1>2. [st EXCEPT !.micro[t] = h] = [st EXCEPT !.micro = w]
    OBVIOUS
<1> HIDE DEF w
<1>3. Called(st, next, time)
    BY <1>1, SameSignals DEF TrackersOK
<1>4. next.micro = w /\ next.sums = st.sums /\ next.mom = st.mom
    BY DEF Kept
<1>5. [st EXCEPT !.micro = w] = next
    BY DEF TrackersOK, Kept
<1> HIDE DEF next
<1>6. QED BY <1>2, <1>3, <1>4, <1>5 DEF w

LEMMA SumsRolled ==
    ASSUME NEW time, NEW st, TrackersOK(st, time), NEW g \in Group, NEW S, NEW h \in Seq(S)
    PROVE  LET next == [st EXCEPT !.sums[g] = h]
           IN  /\ Called(st, next, time) /\ next.micro = st.micro /\ next.mom = st.mom
               /\ next.sums = [st.sums EXCEPT ![g] = h]
<1> DEFINE w == [st.sums EXCEPT ![g] = h]
           next == Kept(st.micro, w, st.mom, st.last, st.out)
<1>1. Windows(w, Group)
    BY WindowsReplaced DEF TrackersOK
<1>2. [st EXCEPT !.sums[g] = h] = [st EXCEPT !.sums = w]
    OBVIOUS
<1> HIDE DEF w
<1>3. Called(st, next, time)
    BY <1>1, SameSignals DEF TrackersOK
<1>4. next.micro = st.micro /\ next.sums = w /\ next.mom = st.mom
    BY DEF Kept
<1>5. [st EXCEPT !.sums = w] = next
    BY DEF TrackersOK, Kept
<1> HIDE DEF next
<1>6. QED BY <1>2, <1>3, <1>4, <1>5 DEF w

LEMMA MomRolled ==
    ASSUME NEW time, NEW st, TrackersOK(st, time), NEW t \in Token, NEW S, NEW h \in Seq(S)
    PROVE  LET next == [st EXCEPT !.mom[t] = h]
           IN  /\ Called(st, next, time) /\ next.micro = st.micro /\ next.sums = st.sums
               /\ next.mom = [st.mom EXCEPT ![t] = h]
<1> DEFINE w == [st.mom EXCEPT ![t] = h]
           next == Kept(st.micro, st.sums, w, st.last, st.out)
<1>1. Windows(w, Token)
    BY WindowsReplaced DEF TrackersOK
<1>2. [st EXCEPT !.mom[t] = h] = [st EXCEPT !.mom = w]
    OBVIOUS
<1> HIDE DEF w
<1>3. Called(st, next, time)
    BY <1>1, SameSignals DEF TrackersOK
<1>4. next.micro = st.micro /\ next.sums = st.sums /\ next.mom = w
    BY DEF Kept
<1>5. [st EXCEPT !.mom = w] = next
    BY DEF TrackersOK, Kept
<1> HIDE DEF next
<1>6. QED BY <1>2, <1>3, <1>4, <1>5 DEF w

\* Windows that gained a sample at most: of x, if any.
Gained(f, g, D, x, sample) ==
    \A y \in D :
        /\ Len(f[y]) \in Nat /\ Len(g[y]) \in Nat /\ Len(g[y]) <= Len(f[y]) + 1
        /\ \A i \in 1 .. Len(g[y]) :
               \/ \E j \in 1 .. Len(f[y]) : g[y][i] = f[y][j]
               \/ y = x /\ g[y][i] = sample

\* Windows that are longer by one at most.
Grew(f, g, D) ==
    \A y \in D : Len(f[y]) \in Nat /\ Len(g[y]) \in Nat /\ Len(g[y]) <= Len(f[y]) + 1

LEMMA NothingGrew == ASSUME NEW D, NEW f, Windows(f, D) PROVE Grew(f, f, D)
BY DEF Windows, Grew

LEMMA RollGains ==
    ASSUME NEW D, NEW f, Windows(f, D), NEW x \in D,
           NEW time \in Nat, NEW sample, sample.ts = time, NEW window \in Nat
    PROVE  LET h == Roll(f[x], sample, time, window)
           IN  (\E S : h \in Seq(S)) /\ Gained(f, [f EXCEPT ![x] = h], D, x, sample)
<1> DEFINE h == Roll(f[x], sample, time, window)
           g == [f EXCEPT ![x] = h]
<1>1. PICK S : f[x] \in Seq(S)
    BY DEF Windows
<1>2. Joined(h, S, f[x], sample)
    <2> DEFINE old == f[x]
    <2>1. old \in Seq(S)
        BY <1>1
    <2> HIDE DEF old
    <2>2. Joined(Roll(old, sample, time, window), S, old, sample)
        BY <2>1, RollKeeps
    <2>3. QED BY <2>2 DEF old
<1> HIDE DEF h
<1>3. g[x] = h /\ \A y \in D : y # x => g[y] = f[y]
    BY DEF Windows
<1>4. \A y \in D : Len(f[y]) \in Nat
    BY DEF Windows
<1> HIDE DEF g
<1>5. ASSUME NEW y \in D
      PROVE  /\ Len(f[y]) \in Nat /\ Len(g[y]) \in Nat /\ Len(g[y]) <= Len(f[y]) + 1
             /\ \A i \in 1 .. Len(g[y]) :
                    \/ \E j \in 1 .. Len(f[y]) : g[y][i] = f[y][j]
                    \/ y = x /\ g[y][i] = sample
    <2>1. CASE y = x
        BY <1>2, <1>3, <1>4, <2>1 DEF Joined
    <2>2. CASE y # x
        BY <1>3, <1>4, <2>2
    <2>3. QED BY <2>1, <2>2
<1>6. QED BY <1>2, <1>5 DEF Joined, Gained, g, h

LEMMA OnMicroDoes ==
    ASSUME ResearchAssumption, NEW time \in Nat, NEW st, TrackersOK(st, time), NEW t \in Token, NEW view
    PROVE  LET next == OnMicro(st, view, t, time)
           IN  /\ Called(st, next, time) /\ next.sums = st.sums /\ next.mom = st.mom
               /\ Grew(st.micro, next.micro, Token)
<1> DEFINE q == view[t]
           sample == [ts |-> time, mid |-> Mid(q), spread |-> q.ask - q.bid,
                      bd |-> q.bidSize, ad |-> q.askSize]
           hist == Roll(st.micro[t], sample, time, Micro.window)
           rolled == [st EXCEPT !.micro[t] = hist]
           first == OfiPressure(hist)
           second == LiquidityShock(hist)
           once == Emit(rolled, first, <<"ofi", t>>, time, Micro.debounce)
           twice == Emit(once, second, <<"liq", t>>, time, Micro.debounce)
<1>0. <<"ofi", t>> \in Key /\ <<"liq", t>> \in Key
    BY KeysAre
<1>1. Windows(st.micro, Token) /\ Micro.window \in Nat
    BY DEF TrackersOK, ResearchAssumption
<1>2. CASE q = NoQuote
    <2>1. Grew(st.micro, st.micro, Token)
        BY <1>1, NothingGrew
    <2>2. OnMicro(st, view, t, time) = st
        BY <1>2 DEF OnMicro
    <2>3. QED BY <2>1, <2>2 DEF Called
<1>3. CASE q # NoQuote
    <2>1. sample.ts = time
        OBVIOUS
    <2> HIDE DEF sample
    <2>2. (\E S : hist \in Seq(S)) /\ Gained(st.micro, [st.micro EXCEPT ![t] = hist], Token, t, sample)
        BY <1>1, <2>1, RollGains
    <2>3. OnMicro(st, view, t, time) \in {rolled, twice}
        BY <1>3 DEF OnMicro, sample
    <2> HIDE DEF hist
    <2>4. /\ Called(st, rolled, time) /\ rolled.sums = st.sums /\ rolled.mom = st.mom
          /\ rolled.micro = [st.micro EXCEPT ![t] = hist]
        BY <2>2, MicroRolled
    <2> HIDE DEF rolled, first, second
    <2>5. /\ Called(rolled, once, time)
          /\ once.micro = rolled.micro /\ once.sums = rolled.sums /\ once.mom = rolled.mom
        BY <2>4, <1>0, EmitDoes DEF Called
    <2> HIDE DEF once
    <2>6. /\ Called(once, twice, time)
          /\ twice.micro = once.micro /\ twice.sums = once.sums /\ twice.mom = once.mom
        BY <2>5, <1>0, EmitDoes DEF Called
    <2> HIDE DEF twice
    <2>7. Called(st, twice, time)
        BY <2>4, <2>5, <2>6, CalledAgain
    <2>8. Grew(st.micro, rolled.micro, Token)
        BY <2>2, <2>4 DEF Gained, Grew
    <2>9. QED BY <2>3, <2>4, <2>5, <2>6, <2>7, <2>8
<1>4. QED BY <1>2, <1>3

LEMMA OnMomDoes ==
    ASSUME ResearchAssumption, NEW time \in Nat, NEW st, TrackersOK(st, time), NEW t \in Token, NEW view
    PROVE  LET next == OnMom(st, view, t, time)
           IN  /\ Called(st, next, time) /\ next.sums = st.sums /\ next.micro = st.micro
               /\ Inside(view[t]) =>
                      Gained(st.mom, next.mom, Token, t, [ts |-> time, mid |-> Mid(view[t])])
               /\ ~ Inside(view[t]) => next.mom = st.mom
<1> DEFINE q == view[t]
           sample == [ts |-> time, mid |-> Mid(q)]
           hist == Roll(st.mom[t], sample, time, Mom.window)
           mids == [i \in 1 .. Len(hist) |-> hist[i].mid]
           rolled == [st EXCEPT !.mom[t] = hist]
           first == Momentum(mids)
           second == Overshoot(mids)
           once == Emit(rolled, first, <<"mom", t>>, time, Mom.debounce)
           twice == Emit(once, second, <<"bnd", t>>, time, Mom.debounce)
<1>0. <<"mom", t>> \in Key /\ <<"bnd", t>> \in Key
    BY KeysAre
<1>1. Windows(st.mom, Token) /\ Mom.window \in Nat
    BY DEF TrackersOK, ResearchAssumption
<1>2. CASE ~ Inside(q)
    BY <1>2 DEF OnMom, Called
<1>3. CASE Inside(q)
    <2>1. sample.ts = time
        OBVIOUS
    <2> HIDE DEF sample
    <2>2. (\E S : hist \in Seq(S)) /\ Gained(st.mom, [st.mom EXCEPT ![t] = hist], Token, t, sample)
        BY <1>1, <2>1, RollGains
    <2>3. OnMom(st, view, t, time) \in {rolled, twice}
        BY <1>3 DEF OnMom, sample
    <2> HIDE DEF hist, mids
    <2>4. /\ Called(st, rolled, time) /\ rolled.sums = st.sums /\ rolled.micro = st.micro
          /\ rolled.mom = [st.mom EXCEPT ![t] = hist]
        BY <2>2, MomRolled
    <2> HIDE DEF rolled, first, second
    <2>5. /\ Called(rolled, once, time)
          /\ once.micro = rolled.micro /\ once.sums = rolled.sums /\ once.mom = rolled.mom
        BY <2>4, <1>0, EmitDoes DEF Called
    <2> HIDE DEF once
    <2>6. /\ Called(once, twice, time)
          /\ twice.micro = once.micro /\ twice.sums = once.sums /\ twice.mom = once.mom
        BY <2>5, <1>0, EmitDoes DEF Called
    <2> HIDE DEF twice
    <2>7. Called(st, twice, time)
        BY <2>4, <2>5, <2>6, CalledAgain
    <2>8. QED BY <1>3, <2>2, <2>3, <2>4, <2>5, <2>6, <2>7 DEF sample
<1>4. QED BY <1>2, <1>3

LEMMA OnGroupDoes ==
    ASSUME ResearchAssumption, NEW time \in Nat, NEW st, TrackersOK(st, time), NEW g \in Group, NEW view,
           NEW parts
    PROVE  LET next == OnGroup(st, view, g, parts, time)
           IN  Called(st, next, time) /\ next.micro = st.micro /\ next.mom = st.mom
<1> DEFINE sum == MapThenSumSet(LAMBDA m : Mid(view[TokenYes[m]]), parts)
           sample == [ts |-> time, sum |-> sum]
           hist == Roll(st.sums[g], sample, time, Rv.window)
           sums == [i \in 1 .. Len(hist) |-> hist[i].sum]
           rolled == [st EXCEPT !.sums[g] = hist]
           once == Emit(rolled, SumDrift(sums), <<"psum", g>>, time, Rv.debounce)
<1>1. Windows(st.sums, Group) /\ Rv.window \in Nat
    BY DEF TrackersOK, ResearchAssumption
<1>2. OnGroup(st, view, g, parts, time) \in {st, rolled, once}
    BY DEF OnGroup
<1>3. sample.ts = time
    OBVIOUS
<1> HIDE DEF sample
<1>4. \E S : hist \in Seq(S)
    <2> DEFINE f == st.sums
    <2>1. Windows(f, Group)
        BY <1>1
    <2> HIDE DEF f
    <2>2. \E S : Roll(f[g], sample, time, Rv.window) \in Seq(S)
        BY <1>1, <1>3, <2>1, RollGains
    <2>3. QED BY <2>2 DEF f
<1> HIDE DEF hist, sums
<1>5. Called(st, rolled, time) /\ rolled.micro = st.micro /\ rolled.mom = st.mom
    BY <1>4, SumsRolled
<1> HIDE DEF rolled
<1>6. Called(rolled, once, time) /\ once.micro = rolled.micro /\ once.mom = rolled.mom
    BY <1>5, KeysAre, EmitDoes DEF Called
<1> HIDE DEF once
<1>7. Called(st, once, time) /\ Called(st, st, time)
    BY <1>5, <1>6, CalledAgain DEF Called
<1>8. QED BY <1>2, <1>5, <1>6, <1>7

LEMMA OnMarketDoes ==
    ASSUME NEW time \in Nat, NEW st, TrackersOK(st, time), NEW m \in Market, NEW view
    PROVE  LET next == OnMarket(st, view, m, time)
           IN  Called(st, next, time) /\ next.micro = st.micro /\ next.mom = st.mom
<1> DEFINE y == view[TokenYes[m]]
           n == view[TokenNo[m]]
           drift == /\ y # NoQuote /\ n # NoQuote
                    /\ Abs(Mid(y) + Mid(n) - 200) >= Larger(Fee[Mid(y)] + Fee[Mid(n)], Rv.minDev)
<1>0. <<"comp", m>> \in Key
    BY KeysAre
<1>1. OnMarket(st, view, m, time) = Emit(st, drift, <<"comp", m>>, time, Rv.debounce)
    BY DEF OnMarket
<1> HIDE DEF drift
<1>2. QED BY <1>1, <1>0, EmitDoes

LEMMA OnTradeDoes ==
    ASSUME NEW time \in Nat, NEW st, TrackersOK(st, time), NEW t \in Token, NEW view, NEW price
    PROVE  LET next == OnTrade(st, view, t, price, time)
           IN  Called(st, next, time) /\ next.micro = st.micro /\ next.mom = st.mom
<1> DEFINE through ==
               /\ Inside(view[t])
               /\ Abs(2 * price - Mid(view[t])) > Larger(Fee[Mid(view[t])], Micro.tradeFloor)
<1>0. <<"trade", t>> \in Key
    BY KeysAre
<1>1. OnTrade(st, view, t, price, time) = Emit(st, through, <<"trade", t>>, time, Micro.debounce)
    BY DEF OnTrade
<1> HIDE DEF through
<1>2. QED BY <1>1, <1>0, EmitDoes

----------------------------------------------------------------------------
(***************************************************************************)
(* The scanner calls the tracker of the group before that of momentum, the *)
(* replay after it.                                                        *)
(***************************************************************************)

\* Signals of two keys can be given in either order.
LEMMA EmitsCommute ==
    ASSUME NEW time \in Nat, NEW d, NEW e, Signals(d, e, time),
           NEW k1 \in Key, NEW k2 \in Key, k1 # k2,
           NEW h1, NEW h2, NEW b1, NEW b2
    PROVE  /\ Spent(Spent(d, h1, k1, time, b1), h2, k2, time, b2)
                  = Spent(Spent(d, h2, k2, time, b2), h1, k1, time, b1)
           /\ Given(Given(e, d, h1, k1, time, b1), Spent(d, h1, k1, time, b1), h2, k2, time, b2)
                  = Given(Given(e, d, h2, k2, time, b2), Spent(d, h2, k2, time, b2), h1, k1, time, b1)
<1> DEFINE d1 == Spent(d, h1, k1, time, b1)
           d2 == Spent(d, h2, k2, time, b2)
           f1 == Fires(d, h1, k1, time, b1)
           f2 == Fires(d, h2, k2, time, b2)
<1>1. d \in [Key -> {Never} \cup 0 .. time]
    BY DEF Signals
<1>2. d1[k2] = d[k2] /\ d2[k1] = d[k1]
    BY <1>1 DEF Spent
<1>3. d1 = (IF f1 THEN [d EXCEPT ![k1] = time] ELSE d) /\ d2 = (IF f2 THEN [d EXCEPT ![k2] = time] ELSE d)
    BY DEF Spent
<1> HIDE DEF d1, d2
<1>4. Fires(d1, h2, k2, time, b2) = f2 /\ Fires(d2, h1, k1, time, b1) = f1
    BY <1>2 DEF Fires
<1>5. Spent(d1, h2, k2, time, b2) = (IF f2 THEN [d1 EXCEPT ![k2] = time] ELSE d1)
    BY <1>4, Zenon DEF Spent
<1>6. Spent(d2, h1, k1, time, b1) = (IF f1 THEN [d2 EXCEPT ![k1] = time] ELSE d2)
    BY <1>4, Zenon DEF Spent
<1>7. [[d EXCEPT ![k1] = time] EXCEPT ![k2] = time] = [[d EXCEPT ![k2] = time] EXCEPT ![k1] = time]
    BY <1>1
<1> DEFINE p1 == {<<k1, time>>}
           p2 == {<<k2, time>>}
<1>8. /\ Given(e, d, h1, k1, time, b1) = (IF f1 THEN e \cup p1 ELSE e)
      /\ Given(e, d, h2, k2, time, b2) = (IF f2 THEN e \cup p2 ELSE e)
      /\ \A x : /\ Given(x, d1, h2, k2, time, b2) = (IF f2 THEN x \cup p2 ELSE x)
                /\ Given(x, d2, h1, k1, time, b1) = (IF f1 THEN x \cup p1 ELSE x)
    BY <1>4, Zenon DEF Given
<1> HIDE DEF f1, f2, p1, p2
<1>9. Spent(d1, h2, k2, time, b2) = Spent(d2, h1, k1, time, b1)
    BY <1>3, <1>5, <1>6, <1>7
<1>10. Given(Given(e, d, h1, k1, time, b1), d1, h2, k2, time, b2)
           = Given(Given(e, d, h2, k2, time, b2), d2, h1, k1, time, b1)
    <2>1. (e \cup p1) \cup p2 = (e \cup p2) \cup p1
        OBVIOUS
    <2>2. QED BY <1>8, <2>1
<1>11. QED BY <1>9, <1>10 DEF d1, d2

\* What the tracker of a group makes of its windows, and when it gives a signal.
SumWindow(b, view, g, parts, time) ==
    Roll(b[g], [ts |-> time, sum |-> MapThenSumSet(LAMBDA m : Mid(view[TokenYes[m]]), parts)],
         time, Rv.window)
Unquoted(view, parts) == parts = {} \/ \E m \in parts : view[TokenYes[m]] = NoQuote
SumsAfter(b, view, g, parts, time) ==
    IF Unquoted(view, parts) THEN b ELSE [b EXCEPT ![g] = SumWindow(b, view, g, parts, time)]
SumSignal(b, view, g, parts, time) ==
    LET hist == SumWindow(b, view, g, parts, time)
    IN  /\ ~ Unquoted(view, parts) /\ ~ (Len(hist) < Rv.min)
        /\ SumDrift([i \in 1 .. Len(hist) |-> hist[i].sum])

LEMMA NoSignal ==
    ASSUME NEW d, NEW e, NEW holds, ~ holds, NEW key, NEW time, NEW debounce
    PROVE  Spent(d, holds, key, time, debounce) = d /\ Given(e, d, holds, key, time, debounce) = e
BY DEF Spent, Given, Fires

LEMMA GroupIs ==
    ASSUME NEW a, NEW b, NEW c, NEW d, NEW e, NEW view, NEW g, NEW parts, NEW time
    PROVE  LET holds == SumSignal(b, view, g, parts, time)
           IN  OnGroup(Kept(a, b, c, d, e), view, g, parts, time)
                   = Kept(a, SumsAfter(b, view, g, parts, time), c,
                          Spent(d, holds, <<"psum", g>>, time, Rv.debounce),
                          Given(e, d, holds, <<"psum", g>>, time, Rv.debounce))
<1> DEFINE st == Kept(a, b, c, d, e)
           holds == SumSignal(b, view, g, parts, time)
           key == <<"psum", g>>
           hist == SumWindow(b, view, g, parts, time)
           rolled == [st EXCEPT !.sums[g] = hist]
           drift == SumDrift([i \in 1 .. Len(hist) |-> hist[i].sum])
<1>1. st.sums = b
    BY KeptFields
<1> HIDE DEF st
<1>2. OnGroup(st, view, g, parts, time)
          = IF Unquoted(view, parts) THEN st
            ELSE IF Len(hist) < Rv.min THEN rolled
            ELSE Emit(rolled, drift, key, time, Rv.debounce)
    BY <1>1, Zenon DEF OnGroup, Unquoted, SumWindow
<1>3. holds <=> ~ Unquoted(view, parts) /\ ~ (Len(hist) < Rv.min) /\ drift
    BY Zenon DEF SumSignal
<1> HIDE DEF hist, key, holds, drift
<1>4. rolled = Kept(a, [b EXCEPT ![g] = hist], c, d, e)
    BY DEF st, Kept
<1> DEFINE w == [b EXCEPT ![g] = hist]
<1>5. SumsAfter(b, view, g, parts, time) = IF Unquoted(view, parts) THEN b ELSE w
    BY DEF SumsAfter, hist
<1> HIDE DEF rolled, w
<1>6. CASE Unquoted(view, parts) \/ Len(hist) < Rv.min
    <2>1. ~ holds
        BY <1>3, <1>6
    <2>2. /\ Spent(d, holds, key, time, Rv.debounce) = d
          /\ Given(e, d, holds, key, time, Rv.debounce) = e
        BY <2>1, NoSignal
    <2>3. OnGroup(st, view, g, parts, time) = Kept(a, SumsAfter(b, view, g, parts, time), c, d, e)
        BY <1>2, <1>4, <1>5, <1>6, Zenon DEF st, w
    <2>4. QED BY <2>2, <2>3 DEF st, holds, key
<1>7. CASE ~ Unquoted(view, parts) /\ ~ (Len(hist) < Rv.min)
    <2>1. holds <=> drift
        BY <1>3, <1>7
    <2>2. OnGroup(st, view, g, parts, time)
              = Kept(a, w, c, Spent(d, drift, key, time, Rv.debounce),
                     Given(e, d, drift, key, time, Rv.debounce))
        BY <1>2, <1>4, <1>7, EmitIs DEF w
    <2>3. /\ Spent(d, drift, key, time, Rv.debounce) = Spent(d, holds, key, time, Rv.debounce)
          /\ Given(e, d, drift, key, time, Rv.debounce) = Given(e, d, holds, key, time, Rv.debounce)
        BY <2>1, Zenon DEF Spent, Given, Fires
    <2>4. QED BY <1>5, <1>7, <2>2, <2>3 DEF st, holds, key
<1>8. QED BY <1>6, <1>7

\* The same of the tracker of momentum.
MidWindow(c, view, t, time) == Roll(c[t], [ts |-> time, mid |-> Mid(view[t])], time, Mom.window)
MidsAfter(c, view, t, time) ==
    IF Inside(view[t]) THEN [c EXCEPT ![t] = MidWindow(c, view, t, time)] ELSE c
Looks(c, view, t, time) == Inside(view[t]) /\ ~ (Len(MidWindow(c, view, t, time)) < Mom.min)
MidsOf(hist) == [i \in 1 .. Len(hist) |-> hist[i].mid]
DriftSignal(c, view, t, time) == Looks(c, view, t, time) /\ Momentum(MidsOf(MidWindow(c, view, t, time)))
BounceSignal(c, view, t, time) == Looks(c, view, t, time) /\ Overshoot(MidsOf(MidWindow(c, view, t, time)))

LEMMA MomIs ==
    ASSUME NEW a, NEW b, NEW c, NEW d, NEW e, NEW view, NEW t, NEW time
    PROVE  LET h1 == DriftSignal(c, view, t, time)
               h2 == BounceSignal(c, view, t, time)
               d1 == Spent(d, h1, <<"mom", t>>, time, Mom.debounce)
               e1 == Given(e, d, h1, <<"mom", t>>, time, Mom.debounce)
           IN  OnMom(Kept(a, b, c, d, e), view, t, time)
                   = Kept(a, b, MidsAfter(c, view, t, time),
                          Spent(d1, h2, <<"bnd", t>>, time, Mom.debounce),
                          Given(e1, d1, h2, <<"bnd", t>>, time, Mom.debounce))
<1> DEFINE st == Kept(a, b, c, d, e)
           h1 == DriftSignal(c, view, t, time)
           h2 == BounceSignal(c, view, t, time)
           key1 == <<"mom", t>>
           key2 == <<"bnd", t>>
           hist == MidWindow(c, view, t, time)
           rolled == [st EXCEPT !.mom[t] = hist]
           drift == Momentum(MidsOf(hist))
           bounce == Overshoot(MidsOf(hist))
           d1 == Spent(d, h1, key1, time, Mom.debounce)
           e1 == Given(e, d, h1, key1, time, Mom.debounce)
           w == [c EXCEPT ![t] = hist]
<1>1. st.mom = c
    BY KeptFields
<1> HIDE DEF st
<1>2. OnMom(st, view, t, time)
          = IF ~ Inside(view[t]) THEN st
            ELSE IF Len(hist) < Mom.min THEN rolled
            ELSE Emit(Emit(rolled, drift, key1, time, Mom.debounce), bounce, key2, time, Mom.debounce)
    BY <1>1, Zenon DEF OnMom, MidWindow, MidsOf
<1>3. /\ h1 <=> Inside(view[t]) /\ ~ (Len(hist) < Mom.min) /\ drift
      /\ h2 <=> Inside(view[t]) /\ ~ (Len(hist) < Mom.min) /\ bounce
    BY Zenon DEF DriftSignal, BounceSignal, Looks
<1>4. MidsAfter(c, view, t, time) = IF Inside(view[t]) THEN w ELSE c
    BY DEF MidsAfter
<1> HIDE DEF hist, key1, key2, h1, h2, drift, bounce
<1>5. rolled = Kept(a, b, [c EXCEPT ![t] = hist], d, e)
    BY DEF st, Kept
<1> HIDE DEF rolled, w
<1>6. CASE ~ Inside(view[t]) \/ Len(hist) < Mom.min
    <2>1. ~ h1 /\ ~ h2
        BY <1>3, <1>6
    <2>2. d1 = d /\ e1 = e
        BY <2>1, NoSignal
    <2>3. /\ Spent(d, h2, key2, time, Mom.debounce) = d
          /\ Given(e, d, h2, key2, time, Mom.debounce) = e
        BY <2>1, NoSignal
    <2>4. OnMom(st, view, t, time) = Kept(a, b, MidsAfter(c, view, t, time), d, e)
        BY <1>2, <1>4, <1>5, <1>6, Zenon DEF st, w
    <2> HIDE DEF d1, e1
    <2>5. /\ Spent(d1, h2, key2, time, Mom.debounce) = d
          /\ Given(e1, d1, h2, key2, time, Mom.debounce) = e
        BY <2>2, <2>3, Zenon
    <2>6. QED BY <2>4, <2>5, Zenon DEF st, h1, h2, key1, key2, d1, e1
<1>7. CASE Inside(view[t]) /\ ~ (Len(hist) < Mom.min)
    <2>1. (h1 <=> drift) /\ (h2 <=> bounce)
        BY <1>3, <1>7
    <2>2. /\ Spent(d, drift, key1, time, Mom.debounce) = d1
          /\ Given(e, d, drift, key1, time, Mom.debounce) = e1
        BY <2>1, Zenon DEF Spent, Given, Fires
    <2> HIDE DEF d1, e1
    <2>3. /\ Spent(d1, bounce, key2, time, Mom.debounce) = Spent(d1, h2, key2, time, Mom.debounce)
          /\ Given(e1, d1, bounce, key2, time, Mom.debounce) = Given(e1, d1, h2, key2, time, Mom.debounce)
        BY <2>1, Zenon DEF Spent, Given, Fires
    <2>4. rolled = Kept(a, b, w, d, e)
        BY <1>5, Zenon DEF w
    <2>5. Emit(rolled, drift, key1, time, Mom.debounce) = Kept(a, b, w, d1, e1)
        BY <2>2, <2>4, EmitIs
    <2>6. Emit(Kept(a, b, w, d1, e1), bounce, key2, time, Mom.debounce)
              = Kept(a, b, w, Spent(d1, bounce, key2, time, Mom.debounce),
                     Given(e1, d1, bounce, key2, time, Mom.debounce))
        BY EmitIs
    <2>7. OnMom(st, view, t, time)
              = Kept(a, b, w, Spent(d1, h2, key2, time, Mom.debounce),
                     Given(e1, d1, h2, key2, time, Mom.debounce))
        BY <1>2, <1>7, <2>3, <2>5, <2>6
    <2>8. QED BY <1>4, <1>7, <2>7 DEF st, h1, h2, key1, key2, d1, e1
<1>8. QED BY <1>6, <1>7

LEMMA GroupAndMomCommute ==
    ASSUME NEW time \in Nat, NEW st, TrackersOK(st, time), NEW t \in Token, NEW g \in Group, NEW view,
           NEW parts
    PROVE  OnMom(OnGroup(st, view, g, parts, time), view, t, time)
               = OnGroup(OnMom(st, view, t, time), view, g, parts, time)
<1> DEFINE a == st.micro
           b == st.sums
           c == st.mom
           d == st.last
           e == st.out
           k0 == <<"psum", g>>
           k1 == <<"mom", t>>
           k2 == <<"bnd", t>>
           h0 == SumSignal(b, view, g, parts, time)
           h1 == DriftSignal(c, view, t, time)
           h2 == BounceSignal(c, view, t, time)
           b1 == SumsAfter(b, view, g, parts, time)
           c1 == MidsAfter(c, view, t, time)
<1>1. st = Kept(a, b, c, d, e) /\ Signals(d, e, time)
    BY DEF TrackersOK
<1>2. k0 \in Key /\ k1 \in Key /\ k2 \in Key /\ k0 # k1 /\ k0 # k2
    BY KeysAre
<1> DEFINE G(x, y) == Given(x, y, h0, k0, time, Rv.debounce)
           S(y) == Spent(y, h0, k0, time, Rv.debounce)
           G1(x, y) == Given(x, y, h1, k1, time, Mom.debounce)
           S1(y) == Spent(y, h1, k1, time, Mom.debounce)
           G2(x, y) == Given(x, y, h2, k2, time, Mom.debounce)
           S2(y) == Spent(y, h2, k2, time, Mom.debounce)
<1>3. \A x, y, z : OnGroup(Kept(a, b, x, y, z), view, g, parts, time) = Kept(a, b1, x, S(y), G(z, y))
    BY GroupIs
<1>4. \A x, y, z : OnMom(Kept(a, x, c, y, z), view, t, time)
                       = Kept(a, x, c1, S2(S1(y)), G2(G1(z, y), S1(y)))
    BY MomIs
<1>5. /\ \A x, y : Signals(x, y, time) => S1(S(x)) = S(S1(x)) /\ G1(G(y, x), S(x)) = G(G1(y, x), S1(x))
      /\ \A x, y : Signals(x, y, time) => S2(S(x)) = S(S2(x)) /\ G2(G(y, x), S(x)) = G(G2(y, x), S2(x))
    BY <1>2, EmitsCommute
<1>6. Signals(S1(d), G1(e, d), time)
    BY <1>1, <1>2, SignalsKeep
<1> HIDE DEF a, b, c, d, e, b1, c1, G, S, G1, S1, G2, S2
<1>7. OnMom(OnGroup(st, view, g, parts, time), view, t, time)
          = Kept(a, b1, c1, S2(S1(S(d))), G2(G1(G(e, d), S(d)), S1(S(d))))
    <2>1. OnGroup(st, view, g, parts, time) = OnGroup(Kept(a, b, c, d, e), view, g, parts, time)
        BY <1>1
    <2>2. OnGroup(st, view, g, parts, time) = Kept(a, b1, c, S(d), G(e, d))
        BY <1>3, <2>1, Zenon
    <2>3. QED BY <1>4, <2>2, Zenon
<1>8. OnGroup(OnMom(st, view, t, time), view, g, parts, time)
          = Kept(a, b1, c1, S(S2(S1(d))), G(G2(G1(e, d), S1(d)), S2(S1(d))))
    <2>1. OnMom(st, view, t, time) = OnMom(Kept(a, b, c, d, e), view, t, time)
        BY <1>1
    <2>2. OnMom(st, view, t, time) = Kept(a, b, c1, S2(S1(d)), G2(G1(e, d), S1(d)))
        BY <1>4, <2>1, Zenon
    <2>3. QED BY <1>3, <2>2, Zenon
<1>9. /\ S1(S(d)) = S(S1(d)) /\ G1(G(e, d), S(d)) = G(G1(e, d), S1(d))
      /\ S2(S(S1(d))) = S(S2(S1(d)))
      /\ G2(G(G1(e, d), S1(d)), S(S1(d))) = G(G2(G1(e, d), S1(d)), S2(S1(d)))
    BY <1>1, <1>5, <1>6, Zenon
<1>10. QED BY <1>7, <1>8, <1>9, Zenon

----------------------------------------------------------------------------
(***************************************************************************)
(* The replay takes the events one after the other.                        *)
(***************************************************************************)

\* The replays of the first 0 to n events.
ReplaySteps(g, events, n) ==
    g = [i \in 0 .. n |-> IF i = 0 THEN NewReplay ELSE Replayed(g[i - 1], events[i])]

LEMMA StepsExist ==
    ASSUME NEW events
    PROVE  \A n \in Nat : \E g : ReplaySteps(g, events, n)
<1> DEFINE N == {n \in Nat : \E g : ReplaySteps(g, events, n)}
<1>1. 0 \in N
    <2> DEFINE g == [i \in 0 .. 0 |-> NewReplay]
    <2>1. ReplaySteps(g, events, 0)
        BY DEF ReplaySteps
    <2>2. QED BY <2>1
<1>2. ASSUME NEW n \in N PROVE n + 1 \in N
    <2>1. PICK g : ReplaySteps(g, events, n)
        OBVIOUS
    <2> DEFINE F(f, i) == IF i = 0 THEN NewReplay ELSE Replayed(f[i - 1], events[i])
               h == [i \in 0 .. n + 1 |-> F(g, i)]
    <2>2. \A i \in 0 .. n : h[i] = F(g, i) /\ g[i] = F(g, i)
        BY <2>1 DEF ReplaySteps
    <2>3. \A i \in 0 .. n : h[i] = g[i]
        BY <2>2
    <2>4. \A i \in 0 .. n + 1 : i # 0 => i - 1 \in 0 .. n
        OBVIOUS
    <2>5. \A i \in 0 .. n + 1 : F(g, i) = F(h, i)
        BY <2>3, <2>4
    <2>6. h = [i \in 0 .. n + 1 |-> F(h, i)]
        BY <2>5
    <2>7. ReplaySteps(h, events, n + 1)
        BY <2>6 DEF ReplaySteps
    <2>8. QED BY <2>7
<1> HIDE DEF N
<1>3. Nat \subseteq N
    BY <1>1, <1>2, NumberInduction DEF N
<1>4. QED BY <1>3 DEF N

\* What is replayed of the same events is the same.
LEMMA StepsAgree ==
    ASSUME NEW n \in Nat, NEW m \in Nat, n <= m, NEW r, NEW s, \A i \in 1 .. n : r[i] = s[i],
           NEW g, ReplaySteps(g, r, n), NEW h, ReplaySteps(h, s, m)
    PROVE  g[n] = h[n]
<1> DEFINE P == {i \in Nat : i <= n => g[i] = h[i]}
<1>1. /\ \A i \in 0 .. n : g[i] = IF i = 0 THEN NewReplay ELSE Replayed(g[i - 1], r[i])
      /\ \A i \in 0 .. n : h[i] = IF i = 0 THEN NewReplay ELSE Replayed(h[i - 1], s[i])
    <2>1. \A i \in 0 .. n : g[i] = IF i = 0 THEN NewReplay ELSE Replayed(g[i - 1], r[i])
        BY DEF ReplaySteps
    <2>2. \A i \in 0 .. m : h[i] = IF i = 0 THEN NewReplay ELSE Replayed(h[i - 1], s[i])
        BY DEF ReplaySteps
    <2>3. \A i \in 0 .. n : i \in 0 .. m
        OBVIOUS
    <2>4. QED BY <2>1, <2>2, <2>3, Zenon
<1>2. 0 \in P
    BY <1>1
<1>3. ASSUME NEW i \in Nat, i \in P PROVE i + 1 \in P
    <2>1. SUFFICES ASSUME i + 1 <= n PROVE g[i + 1] = h[i + 1]
        OBVIOUS
    <2>2. g[i] = h[i] /\ i + 1 \in 0 .. n /\ i + 1 # 0 /\ i + 1 - 1 = i /\ r[i + 1] = s[i + 1]
        BY <1>3, <2>1
    <2>3. g[i + 1] = Replayed(g[i], r[i + 1]) /\ h[i + 1] = Replayed(h[i], s[i + 1])
        BY <1>1, <2>2
    <2>4. QED BY <2>2, <2>3
<1> HIDE DEF P
<1>4. Nat \subseteq P
    BY <1>2, <1>3, NumberInduction
<1>5. QED BY <1>4 DEF P

LEMMA ReplayIs ==
    ASSUME NEW events, Len(events) \in Nat
    PROVE  \E g : ReplaySteps(g, events, Len(events)) /\ Replay(events) = g[Len(events)]
<1> DEFINE c == CHOOSE g : ReplaySteps(g, events, Len(events))
<1>1. ReplaySteps(c, events, Len(events))
    BY StepsExist
<1>2. Replay(events) = c[Len(events)]
    BY DEF Replay, ReplaySteps
<1> HIDE DEF c
<1>3. QED BY <1>1, <1>2

LEMMA ReplayOfSame ==
    ASSUME NEW r, NEW s, Len(r) \in Nat, Len(s) = Len(r), \A i \in 1 .. Len(r) : r[i] = s[i]
    PROVE  Replay(r) = Replay(s)
<1>1. PICK g : ReplaySteps(g, r, Len(r)) /\ Replay(r) = g[Len(r)]
    BY ReplayIs
<1>2. PICK h : ReplaySteps(h, s, Len(r)) /\ Replay(s) = h[Len(r)]
    BY ReplayIs
<1>3. g[Len(r)] = h[Len(r)]
    <2> DEFINE n == Len(r)
    <2>1. n \in Nat /\ n <= n /\ \A i \in 1 .. n : r[i] = s[i]
        OBVIOUS
    <2>2. ReplaySteps(g, r, n) /\ ReplaySteps(h, s, n)
        BY <1>1, <1>2
    <2> HIDE DEF n
    <2>3. g[n] = h[n]
        BY <2>1, <2>2, StepsAgree
    <2>4. QED BY <2>3 DEF n
<1>4. QED BY <1>1, <1>2, <1>3

\* One event more.
LEMMA ReplayGoesOn ==
    ASSUME NEW S, NEW events \in Seq(S), NEW e
    PROVE  Replay(Append(events, e)) = Replayed(Replay(events), e)
<1> DEFINE n == Len(events)
           more == Append(events, e)
<1>1. n \in Nat /\ Len(more) = n + 1 /\ more[n + 1] = e /\ \A i \in 1 .. n : events[i] = more[i]
    BY SeqMonotonic
<1> HIDE DEF n, more
<1>2. PICK g : ReplaySteps(g, events, n) /\ Replay(events) = g[n]
    BY <1>1, ReplayIs DEF n
<1>3. PICK h : ReplaySteps(h, more, n + 1) /\ Replay(more) = h[n + 1]
    BY <1>1, ReplayIs
<1>4. g[n] = h[n]
    BY <1>1, <1>2, <1>3, StepsAgree
<1>5. h[n + 1] = Replayed(h[n], more[n + 1])
    <2> DEFINE k == n + 1
    <2>1. k \in 0 .. n + 1 /\ k # 0 /\ k - 1 = n
        BY <1>1
    <2>2. \A i \in 0 .. n + 1 : h[i] = IF i = 0 THEN NewReplay ELSE Replayed(h[i - 1], more[i])
        BY <1>3 DEF ReplaySteps
    <2>3. \A i \in 0 .. n + 1 : i # 0 => h[i] = Replayed(h[i - 1], more[i])
        BY <2>2
    <2> HIDE DEF k
    <2>4. h[k] = Replayed(h[n], more[k])
        BY <2>1, <2>3
    <2>5. QED BY <2>4 DEF k
<1>6. QED BY <1>1, <1>2, <1>3, <1>4, <1>5 DEF more

LEMMA ReplayOfNothing == Replay(<<>>) = NewReplay
<1>1. PICK g : ReplaySteps(g, <<>>, 0) /\ Replay(<<>>) = g[0]
    BY ReplayIs
<1>2. QED BY <1>1 DEF ReplaySteps

\* A part of the log, and with one event more.
LEMMA ReplayOfPart ==
    ASSUME NEW S, NEW all \in Seq(S), NEW more \in Seq(S), NEW m \in Nat, NEW n \in Nat,
           m <= n, n <= Len(all), n <= Len(more), \A i \in 1 .. n : all[i] = more[i]
    PROVE  Replay(SubSeq(all, m + 1, n)) = Replay(SubSeq(more, m + 1, n))
<1> DEFINE a == SubSeq(all, m + 1, n)
           b == SubSeq(more, m + 1, n)
<1>1. /\ Len(a) = n - m /\ Len(b) = n - m /\ n - m \in Nat
      /\ \A i \in 1 .. n - m : a[i] = all[m + i] /\ b[i] = more[m + i]
    OBVIOUS
<1>2. \A i \in 1 .. n - m : m + i \in 1 .. n
    OBVIOUS
<1> HIDE DEF a, b
<1>3. Replay(a) = Replay(b)
    BY <1>1, <1>2, ReplayOfSame
<1>4. QED BY <1>3 DEF a, b

LEMMA PartGoesOn ==
    ASSUME NEW S, NEW all \in Seq(S), NEW m \in Nat, NEW n \in Nat, m <= n, n + 1 <= Len(all)
    PROVE  Replay(SubSeq(all, m + 1, n + 1)) = Replayed(Replay(SubSeq(all, m + 1, n)), all[n + 1])
<1> DEFINE a == SubSeq(all, m + 1, n)
           b == SubSeq(all, m + 1, n + 1)
           k == n - m
           e == all[n + 1]
           c == Append(a, e)
<1>1. /\ k \in Nat /\ a \in Seq(S) /\ Len(a) = k /\ \A i \in 1 .. k : a[i] = all[m + i]
    OBVIOUS
<1>2. Len(b) = k + 1 /\ \A i \in 1 .. k + 1 : b[i] = all[m + i]
    OBVIOUS
<1>3. m + (k + 1) = n + 1
    OBVIOUS
<1> HIDE DEF a, b, k
<1>4. b[k + 1] = e
    BY <1>1, <1>2, <1>3
<1> HIDE DEF e
<1>5. Len(c) = k + 1 /\ c[k + 1] = e /\ \A i \in 1 .. k : c[i] = a[i]
    BY <1>1, SeqMonotonic
<1> HIDE DEF c
<1>6. \A i \in 1 .. k + 1 : b[i] = c[i]
    <2>1. \A i \in 1 .. k + 1 : i = k + 1 \/ i \in 1 .. k
        BY <1>1
    <2>2. \A i \in 1 .. k : i \in 1 .. k + 1
        BY <1>1
    <2>3. QED BY <1>1, <1>2, <1>4, <1>5, <2>1, <2>2
<1>7. Replay(b) = Replay(c)
    BY <1>1, <1>2, <1>5, <1>6, ReplayOfSame
<1>8. Replay(c) = Replayed(Replay(a), e)
    BY <1>1, ReplayGoesOn DEF c
<1>9. QED BY <1>7, <1>8 DEF a, b, e

----------------------------------------------------------------------------
(***************************************************************************)
(* What an event does.                                                     *)
(***************************************************************************)

LEMMA MarketOfToken ==
    ASSUME ResearchAssumption, NEW t \in Token
    PROVE  Of(t) \in Market /\ (InGroup(t) => GroupOf[Of(t)] \in Group)
<1>1. \E m \in Market : t \in {TokenYes[m], TokenNo[m]}
    BY DEF ResearchAssumption
<1>2. Of(t) \in Market
    BY <1>1 DEF Of
<1>3. QED BY <1>2 DEF ResearchAssumption, InGroup

\* The calls for a book event, live: each window of the token grows by one at most, and
\* a new sample of momentum is what the view shows.
LEMMA CallsDo ==
    ASSUME ResearchAssumption, now \in Nat, TrackersOK(live, now), NEW t \in Token, NEW view,
           NEW n \in 0 .. 4
    PROVE  LET next == AfterCalls(t, view, n)
           IN  /\ Called(live, next, now)
               /\ Grew(live.micro, next.micro, Token)
               /\ \/ next.mom = live.mom
                  \/ /\ Inside(view[t])
                     /\ Gained(live.mom, next.mom, Token, t, [ts |-> now, mid |-> Mid(view[t])])
<1> DEFINE micro == OnMicro(live, view, t, now)
           market == OnMarket(micro, view, Of(t), now)
           g == GroupOf[Of(t)]
           group == IF InGroup(t) THEN OnGroup(market, view, g, legs[g], now) ELSE market
           mom == OnMom(group, view, t, now)
           sample == [ts |-> now, mid |-> Mid(view[t])]
<1>1. AfterCalls(t, view, n) \in {live, micro, market, group, mom}
    BY DEF AfterCalls
<1>2. /\ Called(live, micro, now) /\ micro.mom = live.mom
      /\ Grew(live.micro, micro.micro, Token)
    <2> DEFINE time == now
               st == live
               called == OnMicro(st, view, t, time)
    <2>1. time \in Nat /\ TrackersOK(st, time)
        OBVIOUS
    <2> HIDE DEF time, st
    <2>2. Called(st, called, time) /\ called.mom = st.mom /\ Grew(st.micro, called.micro, Token)
        BY <2>1, OnMicroDoes
    <2>3. QED BY <2>2 DEF time, st
<1> HIDE DEF micro
<1>3. Called(micro, market, now) /\ market.micro = micro.micro /\ market.mom = micro.mom
    BY <1>2, MarketOfToken, OnMarketDoes DEF Called
<1> HIDE DEF market
<1>4. Called(market, group, now) /\ group.micro = market.micro /\ group.mom = market.mom
    <2>1. CASE InGroup(t)
        BY <1>3, <2>1, MarketOfToken, OnGroupDoes DEF Called
    <2>2. CASE ~ InGroup(t)
        BY <1>3, <2>2 DEF Called
    <2>3. QED BY <2>1, <2>2
<1> HIDE DEF group
<1>5. /\ Called(group, mom, now) /\ mom.micro = group.micro
      /\ \/ mom.mom = group.mom
         \/ Inside(view[t]) /\ Gained(group.mom, mom.mom, Token, t, sample)
    BY <1>4, OnMomDoes DEF Called
<1> HIDE DEF mom, sample
<1>6. /\ Called(live, market, now) /\ Called(live, group, now) /\ Called(live, mom, now)
      /\ Called(live, live, now) /\ Grew(live.micro, live.micro, Token)
    BY <1>2, <1>3, <1>4, <1>5, CalledAgain, NothingGrew DEF Called, TrackersOK
<1>7. ASSUME NEW next \in {live, micro, market, group, mom}
      PROVE  /\ Called(live, next, now)
             /\ Grew(live.micro, next.micro, Token)
             /\ \/ next.mom = live.mom
                \/ Inside(view[t]) /\ Gained(live.mom, next.mom, Token, t, sample)
    BY <1>2, <1>3, <1>4, <1>5, <1>6
<1>8. QED BY <1>1, <1>7 DEF sample

Topic == {"book", "entry", "trade"}

\* The replay of an event.
LEMMA DriveDoes ==
    ASSUME ResearchAssumption, NEW st, NEW view, NEW e, e.topic \in Topic, e.token \in Token,
           e.ts \in Nat, TrackersOK(st, e.ts)
    PROVE  TrackersOK(Drive(st, view, e), e.ts)
<1> DEFINE t == e.token
           g == GroupOf[Of(t)]
           micro == OnMicro(st, view, t, e.ts)
           market == OnMarket(micro, view, Of(t), e.ts)
           mom == OnMom(market, view, t, e.ts)
           group == OnGroup(mom, view, g, Legs(g), e.ts)
           trade == OnTrade(st, view, t, e.price, e.ts)
<1>1. Drive(st, view, e)
          = CASE e.topic = "entry" -> st
              [] e.topic = "trade" -> trade
              [] e.topic = "book" -> IF InGroup(t) THEN group ELSE mom
    BY Zenon DEF Drive, DriveBook
<1>2. TrackersOK(micro, e.ts)
    BY OnMicroDoes DEF Called
<1> HIDE DEF micro
<1>3. TrackersOK(market, e.ts)
    BY <1>2, MarketOfToken, OnMarketDoes DEF Called
<1> HIDE DEF market
<1>4. TrackersOK(mom, e.ts)
    BY <1>3, OnMomDoes DEF Called
<1> HIDE DEF mom
<1>5. InGroup(t) => TrackersOK(group, e.ts)
    BY <1>4, MarketOfToken, OnGroupDoes DEF Called
<1> HIDE DEF group
<1>6. TrackersOK(trade, e.ts)
    BY OnTradeDoes DEF Called
<1> HIDE DEF trade
<1>7. QED BY <1>1, <1>4, <1>5, <1>6 DEF Topic

LEMMA ReplayedIs ==
    ASSUME NEW r, NEW e
    PROVE  LET next == Replayed(r, e)
           IN  /\ next.view = Rebuilt(r.view, e)
               /\ next.trackers = Drive(r.trackers, Rebuilt(r.view, e), e)
               /\ next.series = IF e.topic = "entry" THEN r.series
                                ELSE Sampled(r.series, next.view[e.token], e.token, e.ts)
BY DEF Replayed

----------------------------------------------------------------------------
(***************************************************************************)
(* The invariant.                                                          *)
(***************************************************************************)

Logged ==
    [topic : Topic, token : Token, quote : Quotes \cup {NoQuote}, price : TradePrices \cup {0},
     ts : 0 .. MaxTime]

EventOK(e) == e \in Logged /\ e.ts <= now

LogInv ==
    /\ now \in 0 .. MaxTime /\ troubles \in 0 .. MaxTroubles
    /\ log \in Seq(Logged) /\ Len(log) <= MaxEvents
    /\ \A i \in 1 .. Len(log) : EventOK(log[i])

\* As long as the scanner is in step, its queue is what it has not taken up of the log.
QueueInv ==
    /\ queue \in Seq(Logged) /\ Len(queue) <= QueueSize
    /\ handled \in Nat /\ handled + Len(queue) <= Len(log)
    /\ started \in 0 .. handled
    /\ inStep \in BOOLEAN
    /\ inStep => /\ handled + Len(queue) = Len(log)
                 /\ \A i \in 1 .. Len(queue) : queue[i] = log[handled + i]

\* What the scanner knows of markets and groups.
MetaInv ==
    open \subseteq Market /\ index \subseteq Market /\ loadedAt \in 0 .. now /\ legs \in FoundLegs

\* The events that say something of the book of a token.
Said(t) == {j \in 1 .. Len(log) : log[j].topic # "trade" /\ log[j].token = t}

\* A book is what the last event that says something of it says.
BookInv ==
    /\ stale \subseteq Token
    /\ book \in [Token -> Quotes \cup {NoQuote}]
    /\ \A t \in Token : book[t] = NoQuote
                         \/ \E j \in Said(t) : log[j].quote = book[t] /\ \A k \in Said(t) : k <= j

LiveInv ==
    /\ TrackersOK(live, now)
    /\ \A t \in Token : Len(live.micro[t]) <= handled /\ Len(live.mom[t]) <= handled
    /\ Debounced(live.last, live.out) \/ troubles > 0

\* A sample was what the book showed.
WasShown(s, t) ==
    \E j \in Said(t) : /\ log[j].ts <= s.ts /\ Mid(log[j].quote) = s.mid
                       /\ \A k \in Said(t) : k > j => log[k].ts >= s.ts
SampleInv ==
    \A t \in Token : \A i \in 1 .. Len(live.mom[t]) :
        live.mom[t][i].ts \in 0 .. now /\ WasShown(live.mom[t][i], t)

\* The samples of the replay: in the order of their times, and none of them later than an
\* event that leaves the book with a quote by more than the interval.
Covers(s, e) == s.ts <= e.ts /\ e.ts - s.ts < MidSample
Series(series, t, events, time) ==
    /\ series[t] \in Seq([ts : 0 .. time, mid : Int])
    /\ \A i, j \in 1 .. Len(series[t]) : i <= j => series[t][i].ts <= series[t][j].ts
    /\ \A j \in 1 .. Len(events) :
          events[j].topic = "book" /\ events[j].token = t /\ events[j].quote # NoQuote
              => \E i \in 1 .. Len(series[t]) : Covers(series[t][i], events[j])
ReplayInv ==
    LET r == Replay(log)
    IN  /\ r.view \in [Token -> Quotes \cup {NoQuote}]
        /\ TrackersOK(r.trackers, now)
        /\ (\E S : r.series \in [Token -> S]) /\ \A t \in Token : Series(r.series, t, log, now)

\* What was logged since the engine started leads to its books.
RunInv == Replay(SubSeq(log, started + 1, Len(log))).view = book

ResearchInv ==
    /\ LogInv /\ QueueInv /\ MetaInv /\ BookInv /\ LiveInv /\ SampleInv
    /\ ReplayInv /\ RunInv /\ ReplayAgrees

LEMMA NewTrackersOK == TrackersOK(NewTrackers, 0) /\ Debounced(NewTrackers.last, NewTrackers.out)
<1> DEFINE a == [t \in Token |-> <<>>]
           b == [g \in Group |-> <<>>]
           d == [k \in Key |-> Never]
<1>1. NewTrackers = Kept(a, b, a, d, {})
    BY DEF NewTrackers, Kept
<1>2. Windows(a, Token) /\ Windows(b, Group)
    <2>1. a \in [Token -> Seq({})] /\ b \in [Group -> Seq({})]
        OBVIOUS
    <2>2. QED BY <2>1 DEF Windows
<1>3. Signals(d, {}, 0) /\ Debounced(d, {})
    BY DEF Signals, Debounced
<1> HIDE DEF a, b, d
<1> DEFINE k == Kept(a, b, a, d, {})
<1>4. k.micro = a /\ k.sums = b /\ k.mom = a /\ k.last = d /\ k.out = {}
    BY KeptFields
<1>5. k = Kept(k.micro, k.sums, k.mom, k.last, k.out)
    BY <1>4
<1> HIDE DEF k
<1>6. TrackersOK(k, 0) /\ Debounced(k.last, k.out)
    BY <1>2, <1>3, <1>4, <1>5 DEF TrackersOK
<1>7. QED BY <1>1, <1>6 DEF k

LEMMA ResearchInvInit == ASSUME ResearchAssumption, ResearchInit PROVE ResearchInv
<1>1. /\ now = 0 /\ book = [t \in Token |-> NoQuote] /\ stale = {} /\ queue = <<>>
      /\ live = NewTrackers /\ log = <<>> /\ handled = 0 /\ started = 0 /\ inStep = TRUE
      /\ troubles = 0
      /\ open = Market /\ index = open /\ loadedAt = 0 /\ legs \in FoundLegs
    BY DEF ResearchInit
<1>2. TrackersOK(NewTrackers, 0) /\ Debounced(NewTrackers.last, NewTrackers.out)
    BY NewTrackersOK
<1>3. \A t \in Token : NewTrackers.micro[t] = <<>> /\ NewTrackers.mom[t] = <<>>
    BY DEF NewTrackers
<1>4. LogInv
    BY <1>1 DEF LogInv, ResearchAssumption
<1>5. QueueInv /\ MetaInv
    BY <1>1 DEF QueueInv, MetaInv, ResearchAssumption
<1>6. BookInv
    BY <1>1 DEF BookInv
<1>7. LiveInv
    BY <1>1, <1>2, <1>3 DEF LiveInv
<1>8. SampleInv
    BY <1>1, <1>3 DEF SampleInv
<1>9. Replay(log) = NewReplay
    BY <1>1, ReplayOfNothing
<1>10. ReplayInv
    <2>1. /\ NewReplay.view = [t \in Token |-> NoQuote] /\ NewReplay.trackers = NewTrackers
          /\ NewReplay.series = [t \in Token |-> <<>>]
        BY DEF NewReplay
    <2>2. [t \in Token |-> <<>>] \in [Token -> {<<>>}]
        OBVIOUS
    <2>3. \A t \in Token : Series([u \in Token |-> <<>>], t, log, now)
        BY <1>1 DEF Series
    <2>4. [t \in Token |-> NoQuote] \in [Token -> Quotes \cup {NoQuote}]
        OBVIOUS
    <2>5. QED BY <1>1, <1>2, <1>9, <2>1, <2>2, <2>3, <2>4 DEF ReplayInv
<1>11. RunInv /\ ReplayAgrees
    <2>1. SubSeq(log, started + 1, handled) = <<>> /\ SubSeq(log, started + 1, Len(log)) = <<>>
        BY <1>1
    <2>2. /\ Replay(SubSeq(log, started + 1, handled)) = NewReplay
          /\ Replay(SubSeq(log, started + 1, Len(log))) = NewReplay
        BY <2>1, ReplayOfNothing, Zenon
    <2>3. NewReplay.trackers = NewTrackers /\ NewReplay.view = [t \in Token |-> NoQuote]
        BY DEF NewReplay
    <2>4. QED BY <1>1, <2>2, <2>3, Zenon DEF ReplayAgrees, RunInv
<1>12. QED BY <1>4, <1>5, <1>6, <1>7, <1>8, <1>10, <1>11 DEF ResearchInv

\* What the invariant says of the properties.
LEMMA InvIsTyped == ASSUME ResearchAssumption, ResearchInv PROVE ResearchTypeOK
<1>1. Debounced(live.last, live.out) =>
          \A k \in Key : live.last[k] = Never \/ <<k, live.last[k]>> \in live.out
    BY DEF Debounced
<1>2. QED BY <1>1 DEF ResearchInv, LogInv, QueueInv, MetaInv, BookInv, LiveInv, ResearchTypeOK

LEMMA InvIsCurrent == ASSUME ResearchInv PROVE SamplesCurrent
BY DEF ResearchInv, SampleInv, WasShown, Said, SamplesCurrent

\* An index that is found is the first whose element passes.
LEMMA FirstFound ==
    ASSUME NEW S, NEW seq \in Seq(S), NEW after \in Int, \A i \in 1 .. Len(seq) : seq[i].ts \in Int,
           NEW i \in 1 .. Len(seq), seq[i].ts >= after
    PROVE  LET k == SelectInSeq(seq, LAMBDA s : s.ts >= after)
           IN  k \in 1 .. i /\ seq[k].ts >= after
<1> DEFINE I == {k \in 1 .. Len(seq) : seq[k].ts >= after}
<1>1. I \in SUBSET Nat /\ i \in I
    OBVIOUS
<1>2. Min(I) \in I /\ Min(I) <= i
    BY <1>1, LeastOf
<1>3. SelectInSeq(seq, LAMBDA s : s.ts >= after) = IF I # {} THEN Min(I) ELSE 0
    BY DEF SelectInSeq
<1>4. QED BY <1>1, <1>2, <1>3

LEMMA InvForwardMids == ASSUME ResearchAssumption, ResearchInv PROVE ForwardMidsSound
<1> DEFINE r == Replay(log)
<1>1. /\ r.trackers.out \subseteq Key \X (0 .. now) /\ now \in Nat /\ Horizon \in Nat /\ MidSample \in Nat
      /\ \A t \in Token : Series(r.series, t, log, now)
    BY DEF ResearchInv, LogInv, ReplayInv, TrackersOK, Signals, ResearchAssumption
<1> HIDE DEF r
<1>2. ASSUME NEW s \in r.trackers.out, NEW t \in Token, NEW j \in 1 .. Len(log),
             log[j].topic = "book", log[j].token = t, log[j].quote # NoQuote,
             log[j].ts >= s[2] + Horizon + MidSample
      PROVE  ForwardMid(r.series, t, s[2] + Horizon).ts \in s[2] + Horizon .. log[j].ts
    <2> DEFINE after == s[2] + Horizon
               seq == r.series[t]
               k == SelectInSeq(seq, LAMBDA x : x.ts >= after)
    <2>1. s[2] \in Nat /\ after \in Int
        BY <1>1
    <2>2. log[j].ts \in Nat
        BY DEF ResearchInv, LogInv, EventOK, Logged
    <2>3. /\ seq \in Seq([ts : 0 .. now, mid : Int])
          /\ \A a, b \in 1 .. Len(seq) : a <= b => seq[a].ts <= seq[b].ts
          /\ \E i \in 1 .. Len(seq) : Covers(seq[i], log[j])
        BY <1>1, <1>2 DEF Series
    <2> HIDE DEF seq
    <2>4. \A i \in 1 .. Len(seq) : seq[i].ts \in Int
        <3>1. \A i \in 1 .. Len(seq) : seq[i] \in [ts : 0 .. now, mid : Int]
            BY <2>3, ElementOfSeq
        <3>2. QED BY <3>1
    <2>5. PICK i \in 1 .. Len(seq) : seq[i].ts <= log[j].ts /\ log[j].ts - seq[i].ts < MidSample
        BY <2>3 DEF Covers
    <2>6. seq[i].ts >= after
        <3>1. log[j].ts >= after + MidSample
            BY <1>2
        <3> HIDE DEF after
        <3>2. seq[i].ts \in Int
            BY <2>4
        <3>3. \A a, b, c, d \in Int : a >= b + d /\ a - c < d => c >= b
            OBVIOUS
        <3>4. MidSample \in Int /\ log[j].ts \in Int
            BY <1>1, <2>2
        <3>5. QED BY <2>1, <2>5, <3>1, <3>2, <3>3, <3>4
    <2> HIDE DEF after
    <2>7. k \in 1 .. i /\ seq[k].ts >= after
        BY <2>1, <2>3, <2>4, <2>6, FirstFound
    <2>8. ForwardMid(r.series, t, after) = IF k = 0 THEN [ts |-> Never, mid |-> NoMid] ELSE seq[k]
        BY DEF ForwardMid, seq
    <2> HIDE DEF k
    <2>9. k # 0 /\ k \in 1 .. Len(seq) /\ k <= i
        <3>1. Len(seq) \in Nat /\ k \in 1 .. i
            BY <2>3, <2>7
        <3>2. QED BY <3>1
    <2>10. ForwardMid(r.series, t, after) = seq[k] /\ seq[k].ts <= seq[i].ts
        BY <2>3, <2>8, <2>9
    <2>11. seq[k].ts \in Int /\ seq[i].ts \in Int
        BY <2>4, <2>9
    <2>12. seq[k].ts \in after .. log[j].ts
        <3>1. \A a, b, c, d \in Int : c >= a /\ c <= d /\ d <= b => c \in a .. b
            OBVIOUS
        <3>2. log[j].ts \in Int
            BY <2>2
        <3>3. QED BY <2>1, <2>5, <2>7, <2>10, <2>11, <3>1, <3>2
    <2>13. QED BY <2>10, <2>12 DEF after
<1>3. QED BY <1>2 DEF ForwardMidsSound, r

----------------------------------------------------------------------------
(***************************************************************************)
(* What happens outside keeps the invariant.                               *)
(***************************************************************************)

\* An event, and what it does to the books.
Occurs(e) ==
    /\ Happens(e) /\ EventOK(e) /\ e.ts = now
    /\ now' = now /\ troubles' = troubles /\ live' = live /\ handled' = handled
    /\ started' = started /\ metaVars' = metaVars
    /\ stale' \subseteq Token
    /\ book' = IF e.topic = "trade" THEN book ELSE [book EXCEPT ![e.token] = e.quote]

LEMMA EventFields ==
    ASSUME NEW e, EventOK(e)
    PROVE  /\ e \in Logged /\ e.topic \in Topic /\ e.token \in Token /\ e.ts \in Nat
           /\ e.quote \in Quotes \cup {NoQuote}
BY DEF EventOK, Logged

LEMMA LogGrows ==
    ASSUME LogInv, NEW e, Occurs(e)
    PROVE  LET n == Len(log)
           IN  /\ n \in Nat /\ log' = Append(log, e) /\ Len(log') = n + 1
               /\ log'[n + 1] = e /\ \A i \in 1 .. n : log'[i] = log[i]
               /\ log' \in Seq(Logged)
BY SeqMonotonic, EventFields DEF LogInv, Occurs, Happens

LEMMA OccursLog == ASSUME ResearchAssumption, LogInv, NEW e, Occurs(e) PROVE LogInv'
<1> DEFINE n == Len(log)
<1>1. /\ n \in Nat /\ Len(log') = n + 1 /\ log'[n + 1] = e /\ \A i \in 1 .. n : log'[i] = log[i]
      /\ log' \in Seq(Logged)
    BY LogGrows
<1>2. n < MaxEvents /\ MaxEvents \in Nat
    BY DEF Occurs, Happens, ResearchAssumption
<1>3. EventOK(e) /\ now' = now /\ troubles' = troubles /\ \A i \in 1 .. n : EventOK(log[i])
    BY DEF Occurs, LogInv
<1> HIDE DEF n
<1>4. ASSUME NEW i \in 1 .. Len(log') PROVE EventOK(log[i])'
    <2>1. i = n + 1 \/ i \in 1 .. n
        BY <1>1
    <2>2. log'[i] \in Logged /\ log'[i].ts <= now
        BY <1>1, <1>3, <2>1 DEF EventOK
    <2>3. QED BY <1>3, <2>2 DEF EventOK
<1>5. QED BY <1>1, <1>2, <1>3, <1>4 DEF LogInv

LEMMA OccursQueue ==
    ASSUME ResearchAssumption, LogInv, QueueInv, NEW e, Occurs(e) PROVE QueueInv'
<1> DEFINE n == Len(log)
           kept == IF Len(queue) >= QueueSize THEN Tail(queue) ELSE queue
<1>1. /\ n \in Nat /\ Len(log') = n + 1 /\ log'[n + 1] = e /\ \A i \in 1 .. n : log'[i] = log[i]
    BY LogGrows
<1>2. /\ queue' = Append(kept, e) /\ inStep' = (inStep /\ Len(queue) < QueueSize)
      /\ handled' = handled /\ started' = started /\ e \in Logged
    BY EventFields DEF Occurs, Happens
<1>3. /\ queue \in Seq(Logged) /\ Len(queue) \in Nat /\ Len(queue) <= QueueSize
      /\ handled \in Nat /\ handled + Len(queue) <= n /\ inStep \in BOOLEAN
      /\ started \in 0 .. handled
      /\ inStep => handled + Len(queue) = n /\ \A i \in 1 .. Len(queue) : queue[i] = log[handled + i]
    <2>1. queue \in Seq(Logged)
        BY DEF QueueInv
    <2>2. Len(queue) \in Nat
        BY <2>1
    <2>3. QED BY <2>1, <2>2, Zenon DEF QueueInv
<1>4. QueueSize \in Nat /\ QueueSize > 0
    BY DEF ResearchAssumption
<1> HIDE DEF n
<1>5. /\ kept \in Seq(Logged) /\ Len(kept) \in Nat /\ Len(kept) < QueueSize /\ Len(kept) <= Len(queue)
      /\ Len(queue) < QueueSize => kept = queue
    BY <1>3, <1>4
<1> HIDE DEF kept
<1>6. /\ queue' \in Seq(Logged) /\ Len(queue') = Len(kept) + 1 /\ queue'[Len(kept) + 1] = e
      /\ \A i \in 1 .. Len(kept) : queue'[i] = kept[i]
    BY <1>2, <1>5, SeqMonotonic
<1>7. Len(queue') <= QueueSize /\ handled' + Len(queue') <= Len(log') /\ handled' \in Nat
    BY <1>1, <1>2, <1>3, <1>4, <1>5, <1>6
<1>8. ASSUME inStep'
      PROVE  /\ handled' + Len(queue') = Len(log')
             /\ \A i \in 1 .. Len(queue') : queue'[i] = log'[handled' + i]
    <2>1. inStep /\ kept = queue
        BY <1>2, <1>5, <1>8
    <2>2. handled + Len(queue) = n
        BY <1>3, <2>1
    <2>3. handled' + Len(queue') = Len(log')
        <3>1. Len(queue') = Len(queue) + 1 /\ handled' = handled /\ Len(log') = n + 1
            BY <1>1, <1>2, <1>6, <2>1
        <3>2. handled \in Nat /\ Len(queue) \in Nat
            BY <1>3
        <3>3. QED BY <2>2, <3>1, <3>2
    <2>4. ASSUME NEW i \in 1 .. Len(queue') PROVE queue'[i] = log'[handled' + i]
        <3>1. CASE i = Len(queue) + 1
            <4> DEFINE q == Len(queue)
            <4>0. q \in Nat /\ handled \in Nat /\ handled' = handled /\ handled + q = n /\ i = q + 1
                BY <1>2, <1>3, <2>2, <3>1
            <4> HIDE DEF q
            <4>1. handled' + i = n + 1
                BY <4>0
            <4>2. QED BY <1>1, <1>6, <2>1, <3>1, <4>1
        <3>2. CASE i # Len(queue) + 1
            <4>1. i \in 1 .. Len(queue) /\ handled + i \in 1 .. n
                BY <1>1, <1>3, <1>6, <2>1, <2>2, <3>2
            <4>2. QED BY <1>1, <1>2, <1>3, <1>6, <2>1, <4>1
        <3>3. QED BY <3>1, <3>2
    <2>5. QED BY <2>3, <2>4
<1>9. inStep' \in BOOLEAN /\ started' \in 0 .. handled'
    BY <1>2, <1>3
<1>10. QED BY <1>6, <1>7, <1>8, <1>9 DEF QueueInv

\* The events that say something of a book, before and after.
LEMMA SaidGrows ==
    ASSUME LogInv, NEW e, Occurs(e), NEW t
    PROVE  /\ Said(t) \subseteq 1 .. Len(log)
           /\ Said(t)' = IF e.topic # "trade" /\ e.token = t THEN Said(t) \cup {Len(log) + 1} ELSE Said(t)
           /\ \A j \in Said(t) : log'[j] = log[j]
<1> DEFINE n == Len(log)
<1>1. /\ n \in Nat /\ Len(log') = n + 1 /\ log'[n + 1] = e /\ \A i \in 1 .. n : log'[i] = log[i]
    BY LogGrows
<1>2. 1 .. n + 1 = (1 .. n) \cup {n + 1}
    BY <1>1
<1>3. Said(t)' = {j \in 1 .. n + 1 : log'[j].topic # "trade" /\ log'[j].token = t}
    BY <1>1 DEF Said
<1>4. Said(t) = {j \in 1 .. n : log[j].topic # "trade" /\ log[j].token = t}
    BY DEF Said
<1> HIDE DEF n
<1>5. QED BY <1>1, <1>2, <1>3, <1>4 DEF n

LEMMA OccursBook ==
    ASSUME ResearchAssumption, LogInv, BookInv, NEW e, Occurs(e) PROVE BookInv'
<1>1. /\ e.token \in Token /\ e.quote \in Quotes \cup {NoQuote} /\ stale' \subseteq Token
      /\ book' = IF e.topic = "trade" THEN book ELSE [book EXCEPT ![e.token] = e.quote]
    BY EventFields DEF Occurs
<1>2. book \in [Token -> Quotes \cup {NoQuote}]
    BY DEF BookInv
<1>3. book' \in [Token -> Quotes \cup {NoQuote}]
    BY <1>1, <1>2
<1>4. Len(log) \in Nat /\ log'[Len(log) + 1] = e
    BY LogGrows
<1>5. ASSUME NEW t \in Token, book'[t] # NoQuote
      PROVE  \E j \in Said(t)' : log'[j].quote = book'[t] /\ \A k \in Said(t)' : k <= j
    <2>1. CASE e.topic # "trade" /\ e.token = t
        <3>1. book'[t] = e.quote
            BY <1>1, <1>2, <2>1
        <3>2. Len(log) + 1 \in Said(t)' /\ \A k \in Said(t)' : k <= Len(log) + 1
            BY <1>4, <2>1, SaidGrows
        <3>3. QED BY <1>4, <3>1, <3>2
    <2>2. CASE ~ (e.topic # "trade" /\ e.token = t)
        <3>1. book'[t] = book[t]
            BY <1>1, <1>2, <2>2
        <3>2. Said(t)' = Said(t) /\ \A j \in Said(t) : log'[j] = log[j]
            BY <2>2, SaidGrows
        <3>3. \E j \in Said(t) : log[j].quote = book[t] /\ \A k \in Said(t) : k <= j
            BY <1>5, <3>1 DEF BookInv
        <3>4. QED BY <3>1, <3>2, <3>3
    <2>3. QED BY <2>1, <2>2
<1>6. QED BY <1>1, <1>3, <1>5 DEF BookInv

LEMMA OccursSamples ==
    ASSUME LogInv, SampleInv, NEW e, Occurs(e) PROVE SampleInv'
<1>1. now' = now /\ live' = live /\ e.ts = now /\ now \in Nat
    BY DEF Occurs, LogInv
<1>2. Len(log) \in Nat /\ log'[Len(log) + 1] = e
    BY LogGrows
<1>3. ASSUME NEW t \in Token, NEW i \in 1 .. Len(live.mom[t])
      PROVE  live.mom[t][i].ts \in 0 .. now /\ WasShown(live.mom[t][i], t)'
    <2> DEFINE s == live.mom[t][i]
    <2>1. s.ts \in 0 .. now
        BY DEF SampleInv
    <2>2. PICK j \in Said(t) : /\ log[j].ts <= s.ts /\ Mid(log[j].quote) = s.mid
                              /\ \A k \in Said(t) : k > j => log[k].ts >= s.ts
        BY DEF SampleInv, WasShown
    <2>3. live' = live
        BY <1>1
    <2>4. j \in Said(t)' /\ log'[j] = log[j]
        BY SaidGrows
    <2>5. \A k \in Said(t)' : k > j => log'[k].ts >= s.ts
        <3>1. \A k \in Said(t)' : k = Len(log) + 1 \/ (k \in Said(t) /\ log'[k] = log[k])
            BY SaidGrows
        <3>2. e.ts >= s.ts
            BY <1>1, <2>1
        <3>3. QED BY <1>2, <2>2, <3>1, <3>2
    <2>6. QED BY <2>1, <2>2, <2>3, <2>4, <2>5 DEF WasShown
<1>4. QED BY <1>1, <1>3 DEF SampleInv

\* The samples of the replay, after one more event.
LEMMA SampledDoes ==
    ASSUME LogInv, MidSample \in Nat \ {0},
           NEW series, \E S : series \in [Token -> S], \A t \in Token : Series(series, t, log, now),
           NEW e, Occurs(e), NEW q, q \in Quotes \cup {NoQuote}, 
           e.topic = "book" /\ e.quote # NoQuote => q # NoQuote, \A x \in Quotes : Mid(x) \in Int
    PROVE  LET next == IF e.topic = "entry" THEN series ELSE Sampled(series, q, e.token, e.ts)
           IN  (\E S : next \in [Token -> S]) /\ \A t \in Token : Series(next, t, log', now')
<1> DEFINE u == e.token
           next == IF e.topic = "entry" THEN series ELSE Sampled(series, q, u, e.ts)
           n == Len(log)
<1>1. /\ n \in Nat /\ Len(log') = n + 1 /\ log'[n + 1] = e /\ \A i \in 1 .. n : log'[i] = log[i]
    BY LogGrows
<1>2. u \in Token /\ now' = now /\ e.ts = now /\ now \in Nat
    BY EventFields DEF Occurs, LogInv
<1> HIDE DEF n
\* The events there were are covered by the samples there were.
<1>3. ASSUME NEW t \in Token, NEW seq, seq \in Seq([ts : 0 .. now, mid : Int]),
             \A i, j \in 1 .. Len(seq) : i <= j => seq[i].ts <= seq[j].ts,
             \A i \in 1 .. Len(series[t]) : i \in 1 .. Len(seq) /\ seq[i] = series[t][i],
             e.topic = "book" /\ u = t /\ e.quote # NoQuote => \E i \in 1 .. Len(seq) : Covers(seq[i], e),
             next[t] = seq
      PROVE  Series(next, t, log', now')
    <2>1. \A j \in 1 .. n : log[j].topic = "book" /\ log[j].token = t /\ log[j].quote # NoQuote
                               => \E i \in 1 .. Len(series[t]) : Covers(series[t][i], log[j])
        BY DEF Series, n
    <2>2. ASSUME NEW j \in 1 .. Len(log'), log'[j].topic = "book", log'[j].token = t,
                 log'[j].quote # NoQuote
          PROVE  \E i \in 1 .. Len(seq) : Covers(seq[i], log'[j])
        <3>1. CASE j = n + 1
            BY <1>1, <1>3, <2>2, <3>1
        <3>2. CASE j # n + 1
            <4>1. j \in 1 .. n /\ log'[j] = log[j]
                BY <1>1, <3>2
            <4>2. PICK i \in 1 .. Len(series[t]) : Covers(series[t][i], log[j])
                BY <2>1, <2>2, <4>1
            <4>3. QED BY <1>3, <4>1, <4>2
        <3>3. QED BY <3>1, <3>2
    <2> HIDE DEF next
    <2>3. /\ next[t] \in Seq([ts : 0 .. now', mid : Int])
          /\ \A i, j \in 1 .. Len(next[t]) : i <= j => next[t][i].ts <= next[t][j].ts
          /\ \A j \in 1 .. Len(log') : /\ log'[j].topic = "book" /\ log'[j].token = t
                                        /\ log'[j].quote # NoQuote
                                        => \E i \in 1 .. Len(next[t]) : Covers(next[t][i], log'[j])
        BY <1>2, <1>3, <2>2
    <2>4. QED BY <2>3 DEF Series, Covers
\* The samples of a token whose samples stay as they are.
<1>4. ASSUME NEW t \in Token, next[t] = series[t],
             e.topic = "book" /\ u = t /\ e.quote # NoQuote
                 => \E i \in 1 .. Len(series[t]) : Covers(series[t][i], e)
      PROVE  Series(next, t, log', now')
    <2>1. /\ series[t] \in Seq([ts : 0 .. now, mid : Int])
          /\ \A i, j \in 1 .. Len(series[t]) : i <= j => series[t][i].ts <= series[t][j].ts
        BY DEF Series
    <2> HIDE DEF next
    <2>2. QED BY <1>3, <1>4, <2>1
<1>5. CASE next = series
    <2>1. e.topic = "book" /\ e.quote # NoQuote
              => \E i \in 1 .. Len(series[u]) : Covers(series[u][i], e)
        <3>1. SUFFICES ASSUME e.topic = "book", e.quote # NoQuote PROVE \E i \in 1 .. Len(series[u]) : Covers(series[u][i], e)
            OBVIOUS
        <3> DEFINE seq == series[u]
        <3>2. seq \in Seq([ts : 0 .. now, mid : Int])
            BY <1>2 DEF Series
        <3>3. seq # <<>> /\ e.ts - Last(seq).ts < MidSample
            <4>1. SUFFICES ASSUME ~ (seq # <<>> /\ e.ts - Last(seq).ts < MidSample) PROVE FALSE
                OBVIOUS
            <4>2. next = [series EXCEPT ![u] = Append(@, [ts |-> e.ts, mid |-> Mid(q)])]
                BY <3>1, <4>1 DEF Sampled
            <4>3. next[u] = Append(seq, [ts |-> e.ts, mid |-> Mid(q)])
                BY <1>2, <4>2
            <4>4. Len(next[u]) = Len(seq) + 1 /\ Len(seq) \in Nat
                BY <3>2, <4>3
            <4>5. QED BY <1>5, <4>4
        <3> HIDE DEF seq
        <3>4. Len(seq) \in 1 .. Len(seq) /\ Last(seq) = seq[Len(seq)]
            BY <3>2, <3>3 DEF Last
        <3>5. seq[Len(seq)] \in [ts : 0 .. now, mid : Int]
            BY <3>2, <3>4, ElementOfSeq
        <3>6. Covers(seq[Len(seq)], e)
            BY <1>2, <3>3, <3>4, <3>5 DEF Covers
        <3>7. QED BY <3>4, <3>6 DEF seq
    <2>2. ASSUME NEW t \in Token PROVE Series(next, t, log', now')
        BY <1>4, <1>5, <2>1
    <2>3. QED BY <1>5, <2>2
<1>6. CASE next # series
    <2> DEFINE s == [ts |-> e.ts, mid |-> Mid(q)]
               seq == Append(series[u], s)
    <2>1. next = [series EXCEPT ![u] = seq] /\ q # NoQuote
        BY <1>6 DEF Sampled
    <2>2. PICK S : series \in [Token -> S]
        OBVIOUS
    <2>3. s \in [ts : 0 .. now, mid : Int]
        BY <1>2, <2>1
    <2>4. /\ series[u] \in Seq([ts : 0 .. now, mid : Int])
          /\ \A i, j \in 1 .. Len(series[u]) : i <= j => series[u][i].ts <= series[u][j].ts
        BY <1>2 DEF Series
    <2> DEFINE m == Len(series[u])
    <2>5. /\ m \in Nat /\ seq \in Seq([ts : 0 .. now, mid : Int]) /\ Len(seq) = m + 1 /\ seq[m + 1] = s
          /\ \A i \in 1 .. m : seq[i] = series[u][i]
        <3> HIDE DEF s
        <3>1. QED BY <2>3, <2>4, SeqMonotonic
    <2>6. s.ts = now /\ e.ts = now
        BY <1>2
    <2> HIDE DEF seq, s, next
    <2>7. ASSUME NEW i \in 1 .. Len(seq), NEW j \in 1 .. Len(seq), i <= j
          PROVE  seq[i].ts <= seq[j].ts
        <3>1. seq[i] \in [ts : 0 .. now, mid : Int]
            BY <2>5, ElementOfSeq
        <3>2. CASE j = m + 1
            BY <1>2, <2>5, <2>6, <3>1, <3>2
        <3>3. CASE j # m + 1
            <4> HIDE DEF m
            <4>1. i \in 1 .. m /\ j \in 1 .. m
                BY <2>5, <2>7, <3>3
            <4> USE DEF m
            <4>2. series[u][i].ts <= series[u][j].ts
                BY <2>4, <2>7, <4>1
            <4>3. QED BY <2>5, <4>1, <4>2
        <3>4. QED BY <3>2, <3>3
    <2>8. Covers(seq[m + 1], e) /\ m + 1 \in 1 .. Len(seq)
        BY <1>2, <2>5, <2>6 DEF Covers
    <2>9. next[u] = seq /\ \A t \in Token : t # u => next[t] = series[t]
        BY <1>2, <2>1, <2>2
    <2>10. next \in [Token -> S \cup {seq}]
        BY <1>2, <2>1, <2>2
    <2>11. Series(next, u, log', now')
        <3>1. \A i \in 1 .. Len(series[u]) : i \in 1 .. Len(seq) /\ seq[i] = series[u][i]
            BY <2>5
        <3>2. \E i \in 1 .. Len(seq) : Covers(seq[i], e)
            BY <2>8
        <3>3. QED BY <1>2, <1>3, <2>5, <2>7, <2>9, <3>1, <3>2
    <2>12. ASSUME NEW t \in Token, t # u PROVE Series(next, t, log', now')
        BY <1>4, <2>9, <2>12
    <2>13. QED BY <2>10, <2>11, <2>12 DEF next
<1>7. QED BY <1>5, <1>6

LEMMA QuotesAre ==
    ASSUME ResearchAssumption, NEW q \in Quotes
    PROVE  Mid(q) \in Int /\ q # NoQuote
<1>1. q \in [bid : 0 .. 100, ask : 0 .. 100, bidSize : Nat \ {0}, askSize : Nat \ {0}]
    BY DEF ResearchAssumption
<1>2. q # NoQuote
    BY DEF Quotes
<1>3. QED BY <1>1, <1>2 DEF Mid

LEMMA OccursReplay ==
    ASSUME ResearchAssumption, LogInv, ReplayInv, NEW e, Occurs(e) PROVE ReplayInv'
<1> DEFINE r == Replay(log)
           next == Replayed(r, e)
<1>1. /\ e.token \in Token /\ e.topic \in Topic /\ e.ts \in Nat /\ e.ts = now /\ now' = now
      /\ e.quote \in Quotes \cup {NoQuote}
    BY EventFields DEF Occurs
<1>2. r.view \in [Token -> Quotes \cup {NoQuote}]
    BY DEF ReplayInv
<1>3. /\ TrackersOK(r.trackers, e.ts)
      /\ \E S : r.series \in [Token -> S]
      /\ \A t \in Token : Series(r.series, t, log, now)
    BY <1>1 DEF ReplayInv
<1>4. Replay(log') = next
    <2>1. log \in Seq(Logged) /\ log' = Append(log, e)
        BY LogGrows DEF LogInv
    <2>2. QED BY <2>1, ReplayGoesOn
<1> HIDE DEF r
<1>5. TrackersOK(next.trackers, now')
    <2>1. next.trackers = Drive(r.trackers, Rebuilt(r.view, e), e)
        BY ReplayedIs
    <2>2. QED BY <1>1, <1>3, <2>1, DriveDoes
<1>6. next.view = IF e.topic = "trade" THEN r.view ELSE [r.view EXCEPT ![e.token] = e.quote]
    BY ReplayedIs DEF Rebuilt
<1> DEFINE q == next.view[e.token]
<1>7. next.series = IF e.topic = "entry" THEN r.series ELSE Sampled(r.series, q, e.token, e.ts)
    BY ReplayedIs
<1> HIDE DEF next
<1>8. /\ next.view \in [Token -> Quotes \cup {NoQuote}] /\ q \in Quotes \cup {NoQuote}
      /\ e.topic = "book" /\ e.quote # NoQuote => q # NoQuote
    <2>1. CASE e.topic = "trade"
        BY <1>1, <1>2, <1>6, <2>1
    <2>2. CASE e.topic # "trade"
        BY <1>1, <1>2, <1>6, <2>2
    <2>3. QED BY <2>1, <2>2
<1> HIDE DEF q
<1>9. /\ MidSample \in Nat \ {0}
      /\ \A x \in Quotes : Mid(x) \in Int
    BY QuotesAre DEF ResearchAssumption
<1> DEFINE series == r.series
           after == IF e.topic = "entry" THEN series ELSE Sampled(series, q, e.token, e.ts)
<1>10. (\E S : series \in [Token -> S]) /\ \A t \in Token : Series(series, t, log, now)
    BY <1>3
<1>11. next.series = after
    BY <1>7
<1> HIDE DEF series
<1>12. (\E S : after \in [Token -> S]) /\ \A t \in Token : Series(after, t, log', now')
    BY <1>8, <1>9, <1>10, SampledDoes
<1> HIDE DEF after
<1>13. (\E S : next.series \in [Token -> S]) /\ \A t \in Token : Series(next.series, t, log', now')
    BY <1>11, <1>12
<1>14. QED BY <1>4, <1>5, <1>8, <1>13 DEF ReplayInv

LEMMA OccursAgrees ==
    ASSUME LogInv, QueueInv, RunInv, ReplayAgrees, NEW e, Occurs(e) PROVE RunInv' /\ ReplayAgrees'
<1> DEFINE n == Len(log)
           m == started
           h == handled
<1>1. /\ n \in Nat /\ Len(log') = n + 1 /\ log'[n + 1] = e /\ \A i \in 1 .. n : log'[i] = log[i]
      /\ log' \in Seq(Logged) /\ log \in Seq(Logged)
    BY LogGrows DEF LogInv
<1>2. m \in Nat /\ h \in Nat /\ m <= h /\ h <= n
    <2>1. Len(queue) \in Nat /\ h \in Nat /\ h + Len(queue) <= n /\ m \in 0 .. h
        BY DEF QueueInv
    <2>2. QED BY <1>1, <2>1
<1>3. /\ started' = m /\ handled' = h /\ live' = live
      /\ book' = IF e.topic = "trade" THEN book ELSE [book EXCEPT ![e.token] = e.quote]
    BY DEF Occurs
<1> HIDE DEF n, m, h
<1>4. ASSUME NEW k \in Nat, m <= k, k <= n
      PROVE  Replay(SubSeq(log', m + 1, k)) = Replay(SubSeq(log, m + 1, k))
    BY <1>1, <1>2, <1>4, ReplayOfPart DEF n
<1>5. RunInv'
    <2> DEFINE r == Replay(SubSeq(log, m + 1, n))
    <2>1. Replay(SubSeq(log', m + 1, n)) = r
        BY <1>1, <1>2, <1>4
    <2>2. Replay(SubSeq(log', m + 1, n + 1)) = Replayed(r, e)
        BY <1>1, <1>2, <2>1, PartGoesOn
    <2>3. r.view = book
        BY DEF RunInv, m, n
    <2> HIDE DEF r
    <2>4. Replayed(r, e).view = book'
        BY <1>3, <2>3, ReplayedIs DEF Rebuilt
    <2>5. QED BY <1>1, <1>3, <2>2, <2>4 DEF RunInv
<1>6. ReplayAgrees'
    <2>1. SUFFICES ASSUME inStep' PROVE (Replay(SubSeq(log, started + 1, handled)).trackers = live)'
        BY DEF ReplayAgrees
    <2>2. inStep
        BY <2>1 DEF Occurs, Happens
    <2>3. Replay(SubSeq(log, m + 1, h)).trackers = live
        BY <2>2 DEF ReplayAgrees, m, h
    <2>4. QED BY <1>2, <1>3, <1>4, <2>3
<1>7. QED BY <1>5, <1>6

LEMMA OccursKeeps ==
    ASSUME ResearchAssumption, ResearchInv, NEW e, Occurs(e) PROVE ResearchInv'
<1>1. LiveInv' /\ MetaInv'
    BY DEF ResearchInv, LiveInv, MetaInv, Occurs, metaVars
<1>2. QED BY <1>1, OccursLog, OccursQueue, OccursBook, OccursSamples, OccursReplay, OccursAgrees
          DEF ResearchInv

\* What was right at a time is right later.
LEMMA TrackersStayOK ==
    ASSUME NEW st, NEW a \in Nat, NEW b \in Nat, a <= b, TrackersOK(st, a)
    PROVE  TrackersOK(st, b)
<1>1. 0 .. a \subseteq 0 .. b
    OBVIOUS
<1>2. Signals(st.last, st.out, b)
    BY <1>1 DEF TrackersOK, Signals
<1>3. QED BY <1>2 DEF TrackersOK

LEMMA TickKeeps == ASSUME ResearchAssumption, ResearchInv, Tick PROVE ResearchInv'
<1>1. /\ now' = now + 1 /\ now \in Nat /\ now' \in Nat /\ now <= now' /\ now' \in 0 .. MaxTime
      /\ 0 .. now \subseteq 0 .. now'
    BY DEF ResearchInv, LogInv, Tick, ResearchAssumption
<1>2. /\ book' = book /\ stale' = stale /\ queue' = queue /\ live' = live /\ log' = log
      /\ handled' = handled /\ started' = started /\ inStep' = inStep /\ troubles' = troubles
      /\ open' = open /\ index' = index /\ loadedAt' = loadedAt /\ legs' = legs
    BY DEF Tick, metaVars
<1>3. LogInv'
    <2>1. ASSUME NEW i \in 1 .. Len(log) PROVE EventOK(log[i])'
        <3>1. EventOK(log[i]) /\ log[i].ts \in Nat
            BY EventFields DEF ResearchInv, LogInv
        <3>2. log[i].ts <= now'
            BY <1>1, <3>1 DEF EventOK
        <3>3. QED BY <1>2, <3>1, <3>2 DEF EventOK
    <2>2. QED BY <1>1, <1>2, <2>1 DEF ResearchInv, LogInv
<1>4. QueueInv' /\ BookInv' /\ RunInv' /\ MetaInv'
    <2>1. QueueInv' /\ BookInv' /\ RunInv'
        BY <1>2 DEF ResearchInv, QueueInv, BookInv, Said, RunInv
    <2>2. loadedAt \in 0 .. now'
        BY <1>1 DEF ResearchInv, MetaInv
    <2>3. MetaInv'
        BY <1>2, <2>2 DEF ResearchInv, MetaInv
    <2>4. QED BY <2>1, <2>3
<1>5. LiveInv'
    <2>1. TrackersOK(live, now')
        BY <1>1, TrackersStayOK DEF ResearchInv, LiveInv
    <2>2. QED BY <1>2, <2>1 DEF ResearchInv, LiveInv
<1>6. SampleInv'
    <2>1. ASSUME NEW t \in Token, NEW i \in 1 .. Len(live.mom[t])
          PROVE  live.mom[t][i].ts \in 0 .. now' /\ WasShown(live.mom[t][i], t)'
        <3>1. live.mom[t][i].ts \in 0 .. now /\ WasShown(live.mom[t][i], t)
            BY DEF ResearchInv, SampleInv
        <3>2. WasShown(live.mom[t][i], t)'
            BY <1>2, <3>1 DEF WasShown, Said
        <3>3. QED BY <1>1, <3>1, <3>2
    <2>2. QED BY <1>2, <2>1 DEF SampleInv
<1>7. ReplayInv'
    <2> DEFINE r == Replay(log)
    <2>1. /\ r.view \in [Token -> Quotes \cup {NoQuote}] /\ TrackersOK(r.trackers, now)
          /\ \E S : r.series \in [Token -> S]
        BY DEF ResearchInv, ReplayInv
    <2>2. TrackersOK(r.trackers, now')
        BY <1>1, <2>1, TrackersStayOK
    <2>3. ASSUME NEW t \in Token PROVE Series(r.series, t, log, now')
        <3>1. Series(r.series, t, log, now)
            BY DEF ResearchInv, ReplayInv
        <3> DEFINE seq == r.series[t]
        <3>2. seq \in Seq([ts : 0 .. now, mid : Int])
            BY <3>1 DEF Series
        <3> HIDE DEF r
        <3>3. seq \in Seq([ts : 0 .. now', mid : Int])
            <4>1. Len(seq) \in Nat /\ seq = [i \in 1 .. Len(seq) |-> seq[i]]
                BY <3>2
            <4>2. \A i \in 1 .. Len(seq) : seq[i] \in [ts : 0 .. now, mid : Int]
                BY <3>2, ElementOfSeq
            <4>3. [ts : 0 .. now, mid : Int] \subseteq [ts : 0 .. now', mid : Int]
                BY <1>1
            <4> HIDE DEF seq
            <4>4. \A i \in 1 .. Len(seq) : seq[i] \in [ts : 0 .. now', mid : Int]
                BY <4>2, <4>3
            <4> DEFINE T == [ts : 0 .. now', mid : Int]
            <4> HIDE DEF T
            <4>5. seq \in [1 .. Len(seq) -> T]
                BY <4>1, <4>4 DEF T
            <4>6. seq \in Seq(T)
                <5> DEFINE n == Len(seq)
                <5>1. n \in Nat /\ seq \in [1 .. n -> T]
                    BY <4>1, <4>5
                <5> HIDE DEF n
                <5>2. QED BY <5>1, SeqDef
            <4>7. QED BY <4>6 DEF T
        <3>4. QED BY <3>1, <3>3 DEF Series
    <2> HIDE DEF r
    <2>4. QED BY <1>2, <2>1, <2>2, <2>3 DEF ReplayInv, r
<1>8. ReplayAgrees'
    BY <1>2 DEF ResearchInv, ReplayAgrees
<1>9. QED BY <1>3, <1>4, <1>5, <1>6, <1>7, <1>8 DEF ResearchInv

\* What leaves time, books, queue, log and trackers alone.
LEMMA QuietKeeps ==
    ASSUME ResearchAssumption, ResearchInv, MetaInv', UNCHANGED <<now, book, queue, live, log>>,
           UNCHANGED <<started, handled, inStep>>,
           stale' \subseteq Token, troubles' = troubles \/ Troubled
    PROVE  ResearchInv'
<1>1. /\ now' = now /\ book' = book /\ queue' = queue /\ live' = live /\ log' = log
      /\ started' = started /\ handled' = handled /\ inStep' = inStep
    OBVIOUS
<1>2. LogInv' /\ (troubles > 0 => troubles' > 0)
    <2>1. troubles' \in 0 .. MaxTroubles /\ (troubles > 0 => troubles' > 0)
        BY DEF Troubled, ResearchInv, LogInv, ResearchAssumption
    <2>2. QED BY <1>1, <2>1 DEF ResearchInv, LogInv, EventOK
<1>3. QueueInv' /\ SampleInv'
    <2>1. QueueInv'
        BY <1>1 DEF ResearchInv, QueueInv
    <2>2. \A u, s : WasShown(s, u)' <=> WasShown(s, u)
        BY <1>1 DEF WasShown, Said
    <2>3. SampleInv'
        BY <1>1, <2>2 DEF ResearchInv, SampleInv
    <2>4. QED BY <2>1, <2>3
<1>4. BookInv'
    <2>1. \A u \in Token : Said(u)' = Said(u)
        BY <1>1 DEF Said
    <2>2. QED BY <1>1, <2>1 DEF ResearchInv, BookInv
<1>5. LiveInv' /\ ReplayInv' /\ RunInv' /\ ReplayAgrees'
    <2>1. LiveInv'
        BY <1>1, <1>2 DEF ResearchInv, LiveInv
    <2>2. ReplayInv'
        BY <1>1 DEF ResearchInv, ReplayInv
    <2>3. RunInv' /\ ReplayAgrees'
        BY <1>1 DEF ResearchInv, RunInv, ReplayAgrees
    <2>4. QED BY <2>1, <2>2, <2>3
<1>6. QED BY <1>2, <1>3, <1>4, <1>5 DEF ResearchInv

LEMMA GoStaleKeeps ==
    ASSUME ResearchAssumption, ResearchInv, NEW t \in Token, GoStale(t) PROVE ResearchInv'
<1>1. MetaInv'
    BY DEF GoStale, ResearchInv, MetaInv, metaVars
<1>2. stale' \subseteq Token
    BY DEF GoStale, ResearchInv, BookInv
<1>3. QED BY <1>1, <1>2, QuietKeeps DEF GoStale

LEMMA MarketChangesKeeps ==
    ASSUME ResearchAssumption, ResearchInv, NEW m \in Market, MarketChanges(m) PROVE ResearchInv'
<1>1. MetaInv'
    BY DEF MarketChanges, ResearchInv, MetaInv
<1>2. stale' \subseteq Token
    BY DEF MarketChanges, ResearchInv, BookInv
<1>3. QED BY <1>1, <1>2, QuietKeeps DEF MarketChanges

LEMMA GroupsChangeKeeps == ASSUME ResearchAssumption, ResearchInv, GroupsChange PROVE ResearchInv'
<1>1. MetaInv'
    BY DEF GroupsChange, ResearchInv, MetaInv
<1>2. stale' \subseteq Token
    BY DEF GroupsChange, ResearchInv, BookInv
<1>3. QED BY <1>1, <1>2, QuietKeeps DEF GroupsChange

\* The index that is reloaded is one of markets.
LEMMA ReloadKeeps == ASSUME LogInv, MetaInv, Reload, now' = now PROVE MetaInv'
BY DEF LogInv, MetaInv, Reload, Index

LEMMA RefreshKeeps == ASSUME ResearchAssumption, ResearchInv, Refresh PROVE ResearchInv'
<1>1. MetaInv'
    BY ReloadKeeps DEF Refresh, ResearchInv
<1>2. stale' \subseteq Token
    BY DEF Refresh, ResearchInv, BookInv
<1>3. QED BY <1>1, <1>2, QuietKeeps DEF Refresh

\* After a restart the trackers, the books and the part of the log to replay are empty.
LEMMA EngineRestartsKeeps ==
    ASSUME ResearchAssumption, ResearchInv, EngineRestarts PROVE ResearchInv'
<1> DEFINE n == Len(log)
<1>1. /\ now' = now /\ log' = log /\ troubles' = troubles + 1 /\ troubles < MaxTroubles
      /\ book' = [t \in Token |-> NoQuote] /\ stale' = {} /\ queue' = <<>> /\ live' = NewTrackers
      /\ open' = open /\ index' = open /\ loadedAt' = now /\ legs' \in FoundLegs
      /\ started' = n /\ handled' = n /\ inStep' = TRUE
    BY DEF EngineRestarts, Troubled
<1>2. /\ now \in Nat /\ n \in Nat /\ troubles \in Nat /\ log \in Seq(Logged)
      /\ open \subseteq Market
    BY DEF ResearchInv, LogInv, MetaInv
<1>3. LogInv' /\ troubles' > 0
    <2>1. troubles' \in 0 .. MaxTroubles /\ troubles' > 0
        BY <1>1, <1>2 DEF ResearchAssumption
    <2>2. QED BY <1>1, <2>1 DEF ResearchInv, LogInv, EventOK
<1>4. QueueInv' /\ MetaInv'
    <2>1. MetaInv'
        BY <1>1, <1>2 DEF MetaInv
    <2>2. queue' \in Seq(Logged) /\ Len(queue') = 0
        BY <1>1
    <2>3. QueueSize \in Nat
        BY DEF ResearchAssumption
    <2>4. QED BY <1>1, <1>2, <2>1, <2>2, <2>3 DEF QueueInv
<1>5. BookInv'
    BY <1>1 DEF BookInv
<1>6. \A t \in Token : NewTrackers.micro[t] = <<>> /\ NewTrackers.mom[t] = <<>>
    BY DEF NewTrackers
<1>7. LiveInv'
    <2>1. TrackersOK(NewTrackers, now)
        BY <1>2, NewTrackersOK, TrackersStayOK
    <2>2. QED BY <1>1, <1>2, <1>6, <2>1, NewTrackersOK DEF LiveInv
<1>8. SampleInv'
    BY <1>1, <1>6 DEF SampleInv
<1>9. ReplayInv'
    BY <1>1 DEF ResearchInv, ReplayInv
<1>10. RunInv' /\ ReplayAgrees'
    <2>1. SubSeq(log, n + 1, n) = <<>>
        BY <1>2
    <2>2. Replay(SubSeq(log, n + 1, n)) = NewReplay
        BY <2>1, ReplayOfNothing, Zenon
    <2>3. NewReplay.trackers = NewTrackers /\ NewReplay.view = [t \in Token |-> NoQuote]
        BY DEF NewReplay
    <2>4. QED BY <1>1, <2>2, <2>3 DEF RunInv, ReplayAgrees
<1>11. QED BY <1>3, <1>4, <1>5, <1>7, <1>8, <1>9, <1>10 DEF ResearchInv

----------------------------------------------------------------------------
(***************************************************************************)
(* The scanner keeps the invariant.                                        *)
(***************************************************************************)

LEMMA TakeKeeps ==
    ASSUME ResearchAssumption, LogInv, QueueInv, NEW e \in ToSet(queue), Take(e), log' = log,
           started' = started, inStep' \in BOOLEAN, inStep' => inStep
    PROVE  QueueInv' /\ e \in Logged /\ queue # <<>>
<1> DEFINE n == Len(queue)
           l == Len(log)
<1>1. /\ queue \in Seq(Logged) /\ handled \in Nat /\ handled + n <= l /\ n <= QueueSize
      /\ started \in 0 .. handled
    BY DEF QueueInv
<1>2. n \in Nat /\ l \in Nat
    BY <1>1 DEF LogInv
<1>3. queue # <<>>
    BY <1>1 DEF ToSet
<1>4. n > 0
    BY <1>1, <1>3
<1>5. queue' = Tail(queue) /\ handled' = handled + 1 /\ e = Head(queue)
    BY DEF Take
<1>6. /\ queue' \in Seq(Logged) /\ Len(queue') = n - 1
      /\ \A i \in 1 .. n - 1 : queue'[i] = queue[i + 1]
    BY <1>1, <1>3, <1>5
<1>7. e \in Logged
    BY <1>1, <1>3, <1>5
<1>8. inStep => handled + n = l /\ \A i \in 1 .. n : queue[i] = log[handled + i]
    BY Zenon DEF QueueInv
<1> HIDE DEF n, l
<1>9. ASSUME inStep'
      PROVE  handled' + Len(queue') = l /\ \A i \in 1 .. n - 1 : queue'[i] = log[handled' + i]
    <2>1. handled + n = l /\ \A i \in 1 .. n : queue[i] = log[handled + i]
        BY <1>8, <1>9
    <2>2. handled' + Len(queue') = l
        <3>1. \A h \in Nat, k \in Nat : h + 1 + (k - 1) = h + k
            OBVIOUS
        <3>2. handled + 1 + (n - 1) = l
            BY <1>1, <1>2, <2>1, <3>1
        <3>3. QED BY <1>5, <1>6, <3>2, Zenon
    <2>3. ASSUME NEW i \in 1 .. n - 1 PROVE queue'[i] = log[handled' + i]
        <3>1. i + 1 \in 1 .. n /\ handled + (i + 1) = handled' + i
            BY <1>1, <1>2, <1>5
        <3>2. QED BY <1>6, <2>1, <3>1
    <2>4. QED BY <2>2, <2>3
<1>10. handled' \in Nat /\ handled' + Len(queue') <= l /\ Len(queue') <= QueueSize
    <2>1. n - 1 <= QueueSize
        BY <1>1, <1>2 DEF ResearchAssumption
    <2>2. QED BY <1>1, <1>2, <1>4, <1>5, <1>6, <2>1
<1>11. started' \in 0 .. handled'
    BY <1>1, <1>5
<1>12. QED BY <1>3, <1>6, <1>7, <1>9, <1>10, <1>11 DEF QueueInv, l

\* What calls may make of the trackers: each window grows by one at most, and a new sample
\* of momentum is what a book shows.
Moves(next) ==
    /\ TrackersOK(next, now)
    /\ Grew(live.micro, next.micro, Token)
    /\ \/ next.mom = live.mom
       \/ \E t \in Token : /\ Inside(Shown[t])
                           /\ Gained(live.mom, next.mom, Token, t, [ts |-> now, mid |-> Mid(Shown[t])])

LEMMA MovesKeep ==
    ASSUME LogInv, QueueInv, BookInv, LiveInv, SampleInv, Moves(live'),
           now' = now, log' = log, handled' = handled + 1,
           Debounced(live'.last, live'.out) \/ troubles' > 0
    PROVE  LiveInv' /\ SampleInv'
<1>1. /\ TrackersOK(live', now') /\ Grew(live.micro, live'.micro, Token)
      /\ handled \in Nat /\ now \in Nat
      /\ \A t \in Token : Len(live.micro[t]) <= handled /\ Len(live.mom[t]) <= handled
      /\ \A t \in Token : Len(live.mom[t]) \in Nat
    <2>1. \A t \in Token : Len(live.mom[t]) \in Nat
        BY NothingGrew DEF LiveInv, TrackersOK, Grew
    <2>2. QED BY <2>1 DEF Moves, LogInv, QueueInv, LiveInv
<1>2. \A t \in Token : Len(live'.micro[t]) <= handled'
    BY <1>1 DEF Grew
<1>3. \A t, s : WasShown(s, t)' <=> WasShown(s, t)
    BY DEF WasShown, Said
<1>4. \A t \in Token : \A i \in 1 .. Len(live.mom[t]) :
          live.mom[t][i].ts \in 0 .. now /\ WasShown(live.mom[t][i], t)
    BY DEF SampleInv
<1>5. CASE live'.mom = live.mom
    <2>1. \A t \in Token : Len(live'.mom[t]) <= handled'
        BY <1>1, <1>5
    <2>2. LiveInv'
        BY <1>1, <1>2, <2>1 DEF LiveInv
    <2>3. SampleInv'
        BY <1>3, <1>4, <1>5 DEF SampleInv
    <2>4. QED BY <2>2, <2>3
<1>6. ASSUME NEW t \in Token, Inside(Shown[t]),
             Gained(live.mom, live'.mom, Token, t, [ts |-> now, mid |-> Mid(Shown[t])])
      PROVE  LiveInv' /\ SampleInv'
    <2> DEFINE s == [ts |-> now, mid |-> Mid(Shown[t])]
    <2>1. \A u \in Token : Len(live'.mom[u]) <= handled'
        BY <1>1, <1>6 DEF Gained
    <2>2. LiveInv'
        BY <1>1, <1>2, <2>1 DEF LiveInv
    <2>3. s.ts \in 0 .. now /\ WasShown(s, t)
        <3>1. Shown[t] = book[t] /\ book[t] # NoQuote
            BY <1>6 DEF Inside, Shown
        <3>2. PICK j \in Said(t) : log[j].quote = book[t] /\ \A k \in Said(t) : k <= j
            BY <3>1 DEF BookInv
        <3>3. j \in 1 .. Len(log) /\ Said(t) \subseteq 1 .. Len(log) /\ Len(log) \in Nat
            BY DEF Said, LogInv
        <3>4. log[j].ts <= now
            BY <3>3 DEF LogInv, EventOK
        <3>5. \A k \in Said(t) : ~ (k > j)
            BY <3>2, <3>3
        <3>6. s.ts = now /\ s.mid = Mid(log[j].quote)
            BY <3>1, <3>2
        <3> HIDE DEF s
        <3>7. WasShown(s, t)
            BY <3>4, <3>5, <3>6 DEF WasShown
        <3>8. QED BY <1>1, <3>6, <3>7
    <2> HIDE DEF s
    <2>4. ASSUME NEW u \in Token, NEW i \in 1 .. Len(live'.mom[u])
          PROVE  live'.mom[u][i].ts \in 0 .. now /\ WasShown(live'.mom[u][i], u)
        <3>1. \/ \E j \in 1 .. Len(live.mom[u]) : live'.mom[u][i] = live.mom[u][j]
              \/ u = t /\ live'.mom[u][i] = s
            BY <1>6 DEF Gained, s
        <3>2. QED BY <1>4, <2>3, <3>1
    <2>5. SampleInv'
        BY <1>3, <2>4 DEF SampleInv
    <2>6. QED BY <2>2, <2>5
<1>7. QED BY <1>5, <1>6 DEF Moves

LEMMA TradeMoves ==
    ASSUME LogInv, LiveInv, NEW t \in Token, NEW view, NEW price
    PROVE  LET next == OnTrade(live, view, t, price, now)
           IN  Moves(next) /\ (Debounced(live.last, live.out) => Debounced(next.last, next.out))
<1> DEFINE next == OnTrade(live, view, t, price, now)
<1>1. now \in Nat /\ TrackersOK(live, now)
    BY DEF LogInv, LiveInv
<1>2. Called(live, next, now) /\ next.micro = live.micro /\ next.mom = live.mom
    BY <1>1, OnTradeDoes
<1> HIDE DEF next
<1>3. Grew(live.micro, live.micro, Token)
    BY <1>1, NothingGrew DEF TrackersOK
<1>4. QED BY <1>2, <1>3 DEF Moves, Called, next

LEMMA BookMoves ==
    ASSUME ResearchAssumption, LogInv, LiveInv, NEW t \in Token, NEW n \in 0 .. 4
    PROVE  LET next == AfterCalls(t, Shown, n)
           IN  Moves(next) /\ (Debounced(live.last, live.out) => Debounced(next.last, next.out))
<1> DEFINE next == AfterCalls(t, Shown, n)
           view == Shown
<1>1. now \in Nat /\ TrackersOK(live, now)
    BY DEF LogInv, LiveInv
<1>2. /\ Called(live, next, now) /\ Grew(live.micro, next.micro, Token)
      /\ \/ next.mom = live.mom
         \/ /\ Inside(view[t])
            /\ Gained(live.mom, next.mom, Token, t, [ts |-> now, mid |-> Mid(view[t])])
    BY <1>1, CallsDo
<1> HIDE DEF next
<1>3. QED BY <1>2 DEF Moves, Called, next

LEMMA CallsMove ==
    ASSUME ResearchAssumption, LogInv, LiveInv, NEW e \in Logged
    PROVE  LET next == Calls(e, Shown)
           IN  Moves(next) /\ (Debounced(live.last, live.out) => Debounced(next.last, next.out))
<1>1. e.topic \in Topic /\ e.token \in Token
    BY DEF Logged
<1>2. CASE e.topic = "trade" /\ Of(e.token) \in Index
    <2>1. Calls(e, Shown) = OnTrade(live, Shown, e.token, e.price, now)
        BY <1>2, Zenon DEF Calls
    <2>2. QED BY <1>1, <2>1, TradeMoves
<1>3. CASE e.topic = "book" /\ Of(e.token) \in Index
    <2>1. Calls(e, Shown) = AfterCalls(e.token, Shown, 4)
        BY <1>3 DEF Calls
    <2>2. QED BY <1>1, <2>1, BookMoves
<1>4. CASE e.topic = "entry" \/ Of(e.token) \notin Index
    <2>1. Calls(e, Shown) = live
        BY <1>4, Zenon DEF Calls
    <2>2. Moves(live)
        BY NothingGrew DEF LiveInv, TrackersOK, Moves
    <2>3. QED BY <2>1, <2>2
<1>5. QED BY <1>1, <1>2, <1>3, <1>4 DEF Topic

\* In step, the replay of an event is what the scanner did with it.
LEMMA CallsAreReplayed ==
    ASSUME ResearchAssumption, LogInv, LiveInv, NEW r, r.trackers = live, NEW e \in Logged, e.ts = now,
           Indexed(e), Replayed(r, e).view = Shown
    PROVE  Replayed(r, e).trackers = Calls(e, Shown)
<1> DEFINE t == e.token
           g == GroupOf[Of(t)]
           view == Shown
           micro == OnMicro(live, view, t, now)
           market == OnMarket(micro, view, Of(t), now)
           group == OnGroup(market, view, g, Legs(g), now)
           mom == OnMom(market, view, t, now)
<1>1. t \in Token /\ now \in Nat /\ TrackersOK(live, now) /\ e.topic \in Topic
    BY DEF Logged, LogInv, LiveInv
<1>2. Replayed(r, e).trackers = Drive(live, Shown, e)
    BY ReplayedIs
<1>3. e.topic # "entry" => Of(t) \in Index /\ (InGroup(t) => legs[g] = Legs(g))
    BY DEF Indexed
<1>4. CASE e.topic = "trade"
    BY <1>2, <1>3, <1>4, Zenon DEF Drive, Calls
<1>5. CASE e.topic = "entry"
    BY <1>2, <1>5, Zenon DEF Drive, Calls
<1>6. CASE e.topic = "book"
    <2>1. Drive(live, Shown, e) = IF InGroup(t) THEN OnGroup(mom, view, g, Legs(g), now) ELSE mom
        <3>1. Drive(live, Shown, e) = DriveBook(live, Shown, e)
            BY <1>6, Zenon DEF Drive
        <3>2. e.ts = now
            OBVIOUS
        <3>3. QED BY <3>1, <3>2, Zenon DEF DriveBook
    <2>2. Calls(e, view)
              = OnMom(IF InGroup(t) THEN OnGroup(market, view, g, legs[g], now) ELSE market, view, t, now)
        BY <1>3, <1>6 DEF Calls, AfterCalls
    <2>3. TrackersOK(market, now)
        <3>1. TrackersOK(micro, now)
            BY <1>1, OnMicroDoes DEF Called
        <3> HIDE DEF micro
        <3>2. QED BY <1>1, <3>1, MarketOfToken, OnMarketDoes DEF Called
    <2> HIDE DEF market, view
    <2>4. CASE InGroup(t)
        <3>1. g \in Group /\ legs[g] = Legs(g)
            BY <1>1, <1>3, <1>6, <2>4, MarketOfToken
        <3> HIDE DEF g
        <3>2. OnMom(group, view, t, now) = OnGroup(mom, view, g, Legs(g), now)
            BY <1>1, <2>3, <3>1, GroupAndMomCommute
        <3>3. Calls(e, view) = OnMom(group, view, t, now)
            BY <2>2, <2>4, <3>1
        <3>4. QED BY <1>2, <2>1, <2>4, <3>2, <3>3 DEF view
    <2>5. CASE ~ InGroup(t)
        BY <1>2, <2>1, <2>2, <2>5 DEF view
    <2>6. QED BY <2>4, <2>5
<1>7. QED BY <1>1, <1>4, <1>5, <1>6 DEF Topic

LEMMA HandleAgrees ==
    ASSUME ResearchAssumption, ResearchInv, NEW e \in ToSet(queue), Handle(e) PROVE ReplayAgrees'
<1>1. SUFFICES ASSUME inStep' PROVE (Replay(SubSeq(log, started + 1, handled)).trackers = live)'
    BY DEF ReplayAgrees
<1>2. /\ inStep /\ AtOnce(e) /\ Indexed(e) /\ log' = log /\ started' = started
      /\ handled' = handled + 1 /\ live' = Calls(e, Shown) /\ e = Head(queue)
    BY <1>1 DEF Handle, Take
<1>3. Len(queue) = 1 /\ e.ts = now /\ stale = {}
    BY <1>2 DEF AtOnce
<1> DEFINE n == handled
           m == started
           r == Replay(SubSeq(log, m + 1, n))
<1>4. n \in Nat /\ m \in Nat /\ m <= n /\ Len(log) = n + 1 /\ log \in Seq(Logged) /\ queue \in Seq(Logged)
    <2>1. inStep => handled + Len(queue) = Len(log)
        BY DEF ResearchInv, QueueInv
    <2>2. n \in Nat /\ m \in 0 .. n /\ log \in Seq(Logged) /\ queue \in Seq(Logged)
        BY DEF ResearchInv, QueueInv, LogInv
    <2>3. QED BY <1>2, <1>3, <2>1, <2>2
<1>5. e = log[n + 1] /\ e \in Logged
    <2>1. e = queue[1]
        BY <1>2, <1>3, <1>4
    <2>2. queue[1] = log[n + 1]
        BY <1>2, <1>3 DEF ResearchInv, QueueInv
    <2>3. QED BY <1>4, <2>1, <2>2, ElementOfSeq
<1>6. r.trackers = live
    BY <1>2 DEF ResearchInv, ReplayAgrees
<1>7. Replay(SubSeq(log, m + 1, Len(log))).view = book
    BY DEF ResearchInv, RunInv
<1> HIDE DEF n, m
<1>8. Replay(SubSeq(log, m + 1, n + 1)) = Replayed(r, e)
    <2>1. n + 1 <= Len(log)
        BY <1>4
    <2>2. QED BY <1>4, <1>5, <2>1, PartGoesOn
<1> HIDE DEF r
<1>9. Replayed(r, e).view = Shown
    <2>1. book \in [Token -> Quotes \cup {NoQuote}]
        BY DEF ResearchInv, BookInv
    <2>2. Shown = book
        BY <1>3, <2>1 DEF Shown
    <2>3. QED BY <1>4, <1>7, <1>8, <2>2
<1>10. Replayed(r, e).trackers = Calls(e, Shown)
    BY <1>2, <1>3, <1>5, <1>6, <1>9, CallsAreReplayed DEF ResearchInv
<1>11. QED BY <1>2, <1>8, <1>10 DEF n, m

LEMMA HandleKeeps ==
    ASSUME ResearchAssumption, ResearchInv, NEW e \in ToSet(queue), Handle(e) PROVE ResearchInv'
<1>1. /\ Take(e) /\ CountsTrouble(e) /\ live' = Calls(e, Shown) /\ Reload
      /\ inStep' = (inStep /\ AtOnce(e) /\ Indexed(e)) /\ handled' = handled + 1
      /\ now' = now /\ book' = book /\ stale' = stale /\ log' = log /\ started' = started
    BY DEF Handle, Take
<1>2. inStep' \in BOOLEAN /\ (inStep' => inStep)
    BY <1>1
<1>3. QueueInv' /\ e \in Logged
    BY <1>1, <1>2, TakeKeeps DEF ResearchInv
<1>4. troubles' \in 0 .. MaxTroubles /\ (troubles > 0 => troubles' > 0)
    BY <1>1 DEF CountsTrouble, Troubled, ResearchInv, LogInv, ResearchAssumption
<1>5. LogInv'
    BY <1>1, <1>4 DEF ResearchInv, LogInv, EventOK
<1>6. Moves(live') /\ (Debounced(live.last, live.out) => Debounced(live'.last, live'.out))
    <2> DEFINE next == Calls(e, Shown)
    <2>1. Moves(next) /\ (Debounced(live.last, live.out) => Debounced(next.last, next.out))
        BY <1>3, CallsMove DEF ResearchInv
    <2> HIDE DEF next
    <2>2. live' = next
        BY <1>1 DEF next
    <2>3. QED BY <2>1, <2>2
<1>7. LiveInv' /\ SampleInv'
    <2>1. Debounced(live'.last, live'.out) \/ troubles' > 0
        BY <1>4, <1>6 DEF ResearchInv, LiveInv
    <2>2. QED BY <1>1, <1>6, <2>1, MovesKeep DEF ResearchInv
<1>8. BookInv' /\ ReplayInv' /\ RunInv' /\ MetaInv'
    <2>1. BookInv' /\ ReplayInv' /\ RunInv'
        BY <1>1 DEF ResearchInv, BookInv, Said, ReplayInv, RunInv
    <2>2. QED BY <1>1, <2>1, ReloadKeeps DEF ResearchInv
<1>9. ReplayAgrees'
    BY HandleAgrees
<1>10. QED BY <1>3, <1>5, <1>7, <1>8, <1>9 DEF ResearchInv

\* Signals that are lost do not matter to the windows.
LEMMA MovesWithout ==
    ASSUME LogInv, LiveInv, NEW next, Moves(next), NEW lost
    PROVE  Moves([next EXCEPT !.out = @ \ lost])
<1> DEFINE a == next.micro
           b == next.sums
           c == next.mom
           d == next.last
           x == next.out \ lost
           left == [next EXCEPT !.out = @ \ lost]
<1>1. next = Kept(next.micro, next.sums, next.mom, next.last, next.out) /\ TrackersOK(next, now)
    BY DEF Moves, TrackersOK
<1>2. left = Kept(a, b, c, d, x)
    <2>1. left = [next EXCEPT !.out = x]
        OBVIOUS
    <2> HIDE DEF x, left
    <2>2. [Kept(a, b, c, d, next.out) EXCEPT !.out = x] = Kept(a, b, c, d, x)
        BY DEF Kept
    <2>3. QED BY <1>1, <2>1, <2>2
<1> HIDE DEF left
<1>3. left.micro = a /\ left.sums = b /\ left.mom = c /\ left.last = d /\ left.out = x
    BY <1>2, KeptFields
<1>4. Signals(d, x, now)
    BY <1>1 DEF TrackersOK, Signals
<1> HIDE DEF x
<1>5. left = Kept(left.micro, left.sums, left.mom, left.last, left.out)
    BY <1>2, <1>3
<1>6. TrackersOK(left, now)
    BY <1>1, <1>3, <1>4, <1>5 DEF TrackersOK
<1>7. Moves(left)
    BY <1>3, <1>6 DEF Moves
<1>8. QED BY <1>7 DEF left

\* What a failure leaves of the trackers.
LEMMA FailureMoves ==
    ASSUME ResearchAssumption, LogInv, LiveInv, NEW e \in Logged, HandleFails(e)
    PROVE  Moves(live')
<1>1. CASE live' = live
    <2>1. Moves(live)
        BY NothingGrew DEF LiveInv, TrackersOK, Moves
    <2>2. QED BY <1>1, <2>1
<1>2. CASE live' # live
    <2>1. PICK n \in 1 .. 4 :
              LET after == IF e.topic = "book" THEN AfterCalls(e.token, Shown, n) ELSE Calls(e, Shown)
              IN  \E lost : live' = [after EXCEPT !.out = @ \ lost]
        BY <1>2 DEF HandleFails
    <2> DEFINE after == IF e.topic = "book" THEN AfterCalls(e.token, Shown, n) ELSE Calls(e, Shown)
    <2>2. e.token \in Token /\ n \in 0 .. 4
        BY DEF Logged
    <2>3. Moves(AfterCalls(e.token, Shown, n)) /\ Moves(Calls(e, Shown))
        BY <2>2, BookMoves, CallsMove
    <2>4. Moves(after)
        BY <2>3
    <2>5. PICK lost : live' = [after EXCEPT !.out = @ \ lost]
        BY <2>1
    <2> HIDE DEF after
    <2>6. Moves([after EXCEPT !.out = @ \ lost])
        BY <2>4, MovesWithout
    <2>7. QED BY <2>5, <2>6
<1>3. QED BY <1>1, <1>2

LEMMA HandleFailsKeeps ==
    ASSUME ResearchAssumption, ResearchInv, NEW e \in ToSet(queue), HandleFails(e) PROVE ResearchInv'
<1>1. /\ Take(e) /\ Reload /\ inStep' = FALSE /\ handled' = handled + 1
      /\ now' = now /\ book' = book /\ stale' = stale /\ log' = log /\ started' = started
      /\ troubles' = troubles + 1 /\ troubles < MaxTroubles
    <2>1. Take(e) /\ Troubled /\ inStep' = FALSE /\ UNCHANGED <<now, book, stale, log, started>>
        BY Zenon DEF HandleFails
    <2>2. QED BY <2>1 DEF Take, Troubled
<1>2. QueueInv' /\ e \in Logged
    BY <1>1, TakeKeeps DEF ResearchInv
<1>3. troubles' \in 0 .. MaxTroubles /\ troubles' > 0
    BY <1>1 DEF ResearchInv, LogInv, ResearchAssumption
<1>4. LogInv'
    BY <1>1, <1>3 DEF ResearchInv, LogInv, EventOK
<1>5. Moves(live')
    BY <1>2, FailureMoves DEF ResearchInv
<1>6. LiveInv' /\ SampleInv'
    BY <1>1, <1>3, <1>5, MovesKeep DEF ResearchInv
<1>7. BookInv' /\ ReplayInv' /\ RunInv' /\ MetaInv'
    <2>1. BookInv' /\ ReplayInv' /\ RunInv'
        BY <1>1 DEF ResearchInv, BookInv, Said, ReplayInv, RunInv
    <2>2. QED BY <1>1, <2>1, ReloadKeeps DEF ResearchInv
<1>8. ReplayAgrees'
    BY <1>1 DEF ReplayAgrees
<1>9. QED BY <1>2, <1>4, <1>6, <1>7, <1>8 DEF ResearchInv

----------------------------------------------------------------------------
(***************************************************************************)
(* The theorems.                                                           *)
(***************************************************************************)

LEMMA UpdateOccurs ==
    ASSUME ResearchAssumption, ResearchInv, NEW t \in Token, NEW q \in Quotes \cup {NoQuote},
           NEW topic \in {"book", "entry"}, Update(t, q, topic)
    PROVE  \E e : Occurs(e)
<1> DEFINE e == [topic |-> topic, token |-> t, quote |-> q, price |-> 0, ts |-> now]
<1>1. /\ Happens(e) /\ now' = now /\ troubles' = troubles /\ live' = live /\ handled' = handled
      /\ started' = started /\ metaVars' = metaVars
      /\ stale' = stale \ {t} /\ book' = [book EXCEPT ![t] = q]
    BY DEF Update
<1>2. EventOK(e)
    BY DEF EventOK, Logged, Topic, ResearchInv, LogInv
<1>3. e.topic # "trade" /\ e.token = t /\ e.quote = q /\ e.ts = now
    OBVIOUS
<1> HIDE DEF e
<1>4. Occurs(e)
    BY <1>1, <1>2, <1>3 DEF Occurs, ResearchInv, BookInv
<1>5. QED BY <1>4

LEMMA TradeOccurs ==
    ASSUME ResearchAssumption, ResearchInv, NEW t \in Traded, NEW price \in TradePrices,
           TradeEvent(t, price)
    PROVE  \E e : Occurs(e)
<1> DEFINE e == [topic |-> "trade", token |-> t, quote |-> NoQuote, price |-> price, ts |-> now]
<1>1. /\ Happens(e) /\ now' = now /\ troubles' = troubles /\ live' = live /\ handled' = handled
      /\ started' = started /\ metaVars' = metaVars
      /\ stale' = stale /\ book' = book
    BY DEF TradeEvent
<1>2. EventOK(e)
    BY DEF EventOK, Logged, Topic, ResearchInv, LogInv, ResearchAssumption
<1>3. e.topic = "trade" /\ e.ts = now
    OBVIOUS
<1> HIDE DEF e
<1>4. Occurs(e)
    BY <1>1, <1>2, <1>3 DEF Occurs, ResearchInv, BookInv
<1>5. QED BY <1>4

LEMMA ResearchInvNext ==
    ASSUME ResearchAssumption, ResearchInv, [ResearchNext]_researchVars PROVE ResearchInv'
<1>1. \A t \in Token : QuotesOf[t] \cup EntriesOf[t] \subseteq Quotes \cup {NoQuote}
    <2>1. ASSUME NEW t \in Token, NEW q \in QuotesOf[t] \cup EntriesOf[t]
          PROVE  q \in Quotes \cup {NoQuote}
        <3>1. q \in UNION {QuotesOf[u] \cup EntriesOf[u] : u \in Token}
            BY Zenon
        <3>2. QED BY <3>1 DEF Quotes
    <2>2. QED BY <2>1
<1>2. ASSUME NEW t \in Token, NEW q \in QuotesOf[t], Update(t, q, "book") PROVE ResearchInv'
    BY <1>1, <1>2, UpdateOccurs, OccursKeeps
<1>3. ASSUME NEW t \in Token, NEW q \in EntriesOf[t], Update(t, q, "entry") PROVE ResearchInv'
    BY <1>1, <1>3, UpdateOccurs, OccursKeeps
<1>4. ASSUME NEW t \in Traded, NEW p \in TradePrices, TradeEvent(t, p) PROVE ResearchInv'
    BY <1>4, TradeOccurs, OccursKeeps
<1>5. CASE UNCHANGED researchVars
    <2>1. /\ now' = now /\ book' = book /\ stale' = stale /\ queue' = queue /\ live' = live
          /\ log' = log /\ started' = started /\ handled' = handled /\ inStep' = inStep
          /\ troubles' = troubles /\ metaVars' = metaVars
        BY <1>5 DEF researchVars
    <2>2. MetaInv' /\ stale' \subseteq Token
        BY <2>1 DEF ResearchInv, MetaInv, metaVars, BookInv
    <2>3. QED BY <2>1, <2>2, QuietKeeps
<1>6. QED BY <1>2, <1>3, <1>4, <1>5, GoStaleKeeps, MarketChangesKeeps, GroupsChangeKeeps, TickKeeps,
             RefreshKeeps, HandleKeeps, HandleFailsKeeps, EngineRestartsKeeps DEF ResearchNext

\* ResearchInv is an inductive invariant of the scanner, the event log and the replay
\* (scan_task.py, signal_replay.py).
THEOREM ResearchInductive == ResearchSpec => []ResearchInv
<1>1. ResearchInit => ResearchInv
    BY ResearchInvInit, ResearchAssumption
<1>2. ResearchInv /\ [ResearchNext]_researchVars => ResearchInv'
    BY ResearchInvNext, ResearchAssumption
<1>3. QED BY <1>1, <1>2, PTL DEF ResearchSpec

\* ResearchTypeOK always holds: no window has more samples than events were taken up, and a
\* debouncer is only spent on a signal, unless a signal could not be persisted
\* (microstructure.py, relative_value.py, momentum.py).
THEOREM ResearchTypeCorrect == ResearchSpec => []ResearchTypeOK
<1>1. ResearchInv => ResearchTypeOK
    BY InvIsTyped, ResearchAssumption
<1>2. QED BY <1>1, ResearchInductive, PTL

\* ReplayAgrees always holds: while, since the engine started, the scanner takes up each
\* event before the next thing happens and knows its market and all legs of its group, the
\* replay of what was logged since then leaves every tracker as the scanner left it,
\* whatever the books, the thresholds and the order of the trackers (signal_replay.py:1-16).
THEOREM ReplayAlwaysAgrees == ResearchSpec => []ReplayAgrees
<1>1. ResearchInv => ReplayAgrees
    BY DEF ResearchInv
<1>2. QED BY <1>1, ResearchInductive, PTL

\* SamplesSound always holds: a sample of momentum is what the book showed at its time, and
\* a forward mid comes no later than any event that leaves the book with a quote one
\* sampling interval after the horizon (momentum.py, signal_replay.py).
THEOREM SamplesAreSound == ResearchSpec => []SamplesSound
<1>1. ResearchInv => SamplesSound
    BY InvIsCurrent, InvForwardMids, ResearchAssumption DEF SamplesSound
<1>2. QED BY <1>1, ResearchInductive, PTL
=============================================================================
