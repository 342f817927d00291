---------------------------- MODULE PaperTrader ----------------------------
(***************************************************************************)
(* The paper trader (pm/execution/paper.py): one task that wakes up every  *)
(* poll interval and runs a pass over its SQLite tables,                   *)
(*                                                                         *)
(*     mark_and_settle();  process_new_signals();  summary()               *)
(*                                                                         *)
(* The connection is in autocommit mode (db.py:154), so every statement is *)
(* durable on its own and each statement is a step here.  A pass has no    *)
(* await, so the other tasks of the engine (new signals, book updates,     *)
(* market metadata) only run between passes; but an SQLite error or a kill *)
(* of the process may cut a pass after any statement (Abort).              *)
(*                                                                         *)
(* Abstractions.  Money is an integer.  A position costs exactly PerTrade  *)
(* (budget = min(per_trade, cash) and cash >= per_trade; the fee comes out *)
(* of the shares), so prices and fees appear only through the number of    *)
(* shares an entry buys and the proceeds of an exit.  A book is the set of *)
(* its usable sides: {} is a missing or stale book.  Elapsed hold time is  *)
(* a flag of the trade.  Rounding to four decimals is left out.            *)
(***************************************************************************)
EXTENDS PaperMoney, Sequences, FiniteSets, Functions

CONSTANTS
    Market,       \* binary markets, each with a "yes" and a "no" token
    One,          \* value of a winning share, in money units
    SharesBought, \* the numbers of shares an entry may buy
    BatchLimit,   \* LIMIT of the signal query
    LoggedSignals,\* the kinds of signals the scanners log
    BookStates,   \* the sets of usable sides a book may have
    Unresolved,   \* model value: _payout_for_token() returned None
    MaxSignals,   \* bound of the model: signals logged
    MaxAborts     \* bound of the model: passes cut short

Token == Market \X {"yes", "no"}

Complement(t) == <<t[1], IF t[2] = "yes" THEN "no" ELSE "yes">>

\* A signal_log row as the trader reads it: its first leg, and whether its strategy
\* is one the trader follows. Side "none" stands for legs it cannot use.
Signal == [leg : Token, side : {"BUY", "SELL", "none"}, followed : BOOLEAN]

Proceeds == UNION {0 .. One * n : n \in SharesBought}

Trade == [signal : Nat, token : Token, shares : SharesBought, overdue : BOOLEAN,
          status : {"open", "closed", "settled"}, pnl : Int]

ASSUME PaperAssumption ==
    /\ One \in Nat \ {0}
    /\ SharesBought \subseteq Nat \ {0}
    /\ BatchLimit \in Nat \ {0}
    /\ LoggedSignals \subseteq Signal
    /\ BookStates \subseteq SUBSET {"ask", "bid"}
    /\ Unresolved \notin Nat
    /\ MaxSignals \in Nat
    /\ MaxAborts \in Nat

VARIABLES
    cash, realized, nTrades, cursor, \* the paper_account row (cursor: last_signal_id)
    trades,    \* the paper_trades table, in rowid order
    log,       \* the signal_log table, in signal_id order
    payout,    \* what a "yes" share of each market pays, once its metadata says closed
    book,      \* usable sides of each token's book
    pc,        \* where the task is in its pass
    todo,      \* row ids the current loop of the pass has still to visit
    proceeds,  \* proceeds of the exit being written
    maxId,     \* max_id of process_new_signals()
    aborts,    \* number of passes cut short
    slips,     \* those cut between the two statements of an opening or of an exit
    tried      \* history: signals _try_open() was called for

account == <<cash, realized, nTrades>>
world == <<log, payout, book>>
task == <<pc, todo, proceeds, maxId, tried>>
vars == <<cash, realized, nTrades, cursor, trades, log, payout, book,
          pc, todo, proceeds, maxId, aborts, slips, tried>>

faults == <<aborts, slips>>

OpenIds == {i \in DOMAIN trades : trades[i].status = "open"}

\* _payout_for_token(): whatever outcome price a closed market carries.
Payout(t) ==
    LET yes == payout[t[1]]
    IN  IF yes = Unresolved THEN Unresolved ELSE IF t[2] = "yes" THEN yes ELSE One - yes

\* A SELL view is expressed by buying the other token of the market.
Held(s) == IF s.side = "BUY" THEN s.leg ELSE Complement(s.leg)

\* The row the loop visits next.
First(i) == i \in todo /\ \A j \in todo : i <= j

\* The signal query: followed strategies after the cursor, oldest first, at most
\* BatchLimit of them.
Candidates == {i \in DOMAIN log : i > cursor /\ log[i].followed}

Batch == {i \in Candidates : Cardinality({j \in Candidates : j < i}) < BatchLimit}

----------------------------------------------------------------------------

Init ==
    /\ cash = Bankroll
    /\ realized = 0
    /\ nTrades = 0
    /\ cursor = 0
    /\ trades = <<>>
    /\ log = <<>>
    /\ payout = [m \in Market |-> Unresolved]
    /\ book = [t \in Token |-> {}]
    /\ pc = "sleep"
    /\ todo = {}
    /\ proceeds = 0
    /\ maxId = 0
    /\ aborts = 0
    /\ slips = 0
    /\ tried = {}

(***************************************************************************)
(* The rest of the engine, between two passes.                             *)
(***************************************************************************)

\* A scanner persists a signal (log_signal).
LogSignal(s) ==
    /\ pc = "sleep"
    /\ Len(log) < MaxSignals
    /\ log' = Append(log, s)
    /\ UNCHANGED <<account, cursor, trades, payout, book, task, faults>>

\* The book of a token changes, goes stale or comes back.
BookChanges(t, sides) ==
    /\ pc = "sleep"
    /\ book' = [book EXCEPT ![t] = sides]
    /\ UNCHANGED <<account, cursor, trades, log, payout, task, faults>>

\* metadata_sync rewrites the market row: the market closes at some price, or a
\* stale row of the open feed reopens it.
MetadataSync(m, yes) ==
    /\ pc = "sleep"
    /\ payout' = [payout EXCEPT ![m] = yes]
    /\ UNCHANGED <<account, cursor, trades, log, book, task, faults>>

\* The hold horizon of an open trade passes.
HoldExpires(i) ==
    /\ pc = "sleep"
    /\ i \in OpenIds
    /\ ~trades[i].overdue
    /\ trades' = [trades EXCEPT ![i].overdue = TRUE]
    /\ UNCHANGED <<account, cursor, world, task, faults>>

(***************************************************************************)
(* mark_and_settle()                                                       *)
(***************************************************************************)

\* SELECT * FROM paper_trades WHERE status='open'
StartPass ==
    /\ pc = "sleep"
    /\ pc' = "mark"
    /\ todo' = OpenIds
    /\ UNCHANGED <<account, cursor, trades, world, proceeds, maxId, tried, faults>>

\* First statement of _close(): the trade row.
CloseRow(i, status, x) ==
    /\ trades' = [trades EXCEPT ![i].status = status, ![i].pnl = x - PerTrade]
    /\ proceeds' = x
    /\ pc' = "credit"
    /\ todo' = todo \ {i}
    /\ UNCHANGED <<account, cursor, world, maxId, tried, faults>>

\* The market resolved: settle at the payout, without a fee.
Settle(i) ==
    /\ pc = "mark"
    /\ First(i)
    /\ Payout(trades[i].token) # Unresolved
    /\ CloseRow(i, "settled", trades[i].shares * Payout(trades[i].token))

\* The hold expired and there is a bid: sell at the bid, less the taker fee.
Exit(i, x) ==
    /\ pc = "mark"
    /\ First(i)
    /\ Payout(trades[i].token) = Unresolved
    /\ trades[i].overdue
    /\ "bid" \in book[trades[i].token]
    /\ x \in 0 .. One * trades[i].shares
    /\ CloseRow(i, "closed", x)

\* Still within its hold, or no bid to sell at: try again on the next pass.
Keep(i) ==
    /\ pc = "mark"
    /\ First(i)
    /\ Payout(trades[i].token) = Unresolved
    /\ ~trades[i].overdue \/ "bid" \notin book[trades[i].token]
    /\ todo' = todo \ {i}
    /\ UNCHANGED <<account, cursor, trades, world, pc, proceeds, maxId, tried, faults>>

\* A bug for the account properties to find: the cost is not deducted from the result.
CreditProceedsOnly ==
    /\ pc = "credit"
    /\ cash' = cash + proceeds
    /\ realized' = realized + proceeds
    /\ proceeds' = 0
    /\ pc' = "mark"
    /\ UNCHANGED <<nTrades, cursor, trades, world, todo, maxId, tried, faults>>

\* Second statement of _close(): the account row.
Credit ==
    /\ pc = "credit"
    /\ cash' = cash + proceeds
    /\ realized' = realized + proceeds - PerTrade
    /\ proceeds' = 0
    /\ pc' = "mark"
    /\ UNCHANGED <<nTrades, cursor, trades, world, todo, maxId, tried, faults>>

(***************************************************************************)
(* process_new_signals()                                                   *)
(***************************************************************************)

\* Read the account row and the batch of new signals.
ReadSignals ==
    /\ pc = "mark"
    /\ todo = {}
    /\ pc' = "open"
    /\ todo' = Batch
    /\ maxId' = cursor
    /\ UNCHANGED <<account, cursor, trades, world, proceeds, tried, faults>>

\* A bug for OnePositionPerToken to find: open positions are not looked up.
TradableTwice(i) ==
    LET s == log[i]
    IN  /\ cash >= PerTrade
        /\ s.side # "none"
        /\ Payout(s.leg) = Unresolved
        /\ "ask" \in book[Held(s)]

\* A bug for TypeOK to find: the cash is not checked.
TradableUnfunded(i) ==
    LET s == log[i]
    IN  /\ s.side # "none"
        /\ Payout(s.leg) = Unresolved
        /\ "ask" \in book[Held(s)]
        /\ \A j \in OpenIds : trades[j].token # Held(s)

\* The checks of _try_open(), in one predicate: cash for one more trade, a usable leg,
\* an unresolved market, an ask for the token to hold, and no open position in it.
Tradable(i) ==
    LET s == log[i]
    IN  /\ cash >= PerTrade
        /\ s.side # "none"
        /\ Payout(s.leg) = Unresolved
        /\ "ask" \in book[Held(s)]
        /\ \A j \in OpenIds : trades[j].token # Held(s)

\* _try_open() up to its INSERT into paper_trades.
OpenRow(i, n) ==
    /\ pc = "open"
    /\ First(i)
    /\ Tradable(i)
    /\ trades' = Append(trades, [signal |-> i, token |-> Held(log[i]), shares |-> n,
                                 overdue |-> FALSE, status |-> "open", pnl |-> 0])
    /\ pc' = "debit"
    /\ todo' = todo \ {i}
    /\ maxId' = i
    /\ tried' = tried \cup {i}
    /\ UNCHANGED <<account, cursor, world, proceeds, faults>>

\* _try_open() returns False.
Skip(i) ==
    /\ pc = "open"
    /\ First(i)
    /\ ~Tradable(i)
    /\ todo' = todo \ {i}
    /\ maxId' = i
    /\ tried' = tried \cup {i}
    /\ UNCHANGED <<account, cursor, trades, world, pc, proceeds, faults>>

\* The UPDATE of paper_account that ends _try_open().
Debit ==
    /\ pc = "debit"
    /\ cash' = cash - PerTrade
    /\ nTrades' = nTrades + 1
    /\ pc' = "open"
    /\ UNCHANGED <<realized, cursor, trades, world, todo, proceeds, maxId, tried, faults>>

\* A bug for OneTradePerSignal and SignalsConsidered to find: the cursor is not written.
EndPassForgetsCursor ==
    /\ pc = "open"
    /\ todo = {}
    /\ pc' = "sleep"
    /\ UNCHANGED <<account, cursor, trades, world, todo, proceeds, maxId, tried, faults>>

\* The cursor is written once, after the whole batch; summary() and the heartbeat
\* that follow change nothing the trader reads.
EndPass ==
    /\ pc = "open"
    /\ todo = {}
    /\ cursor' = maxId
    /\ pc' = "sleep"
    /\ UNCHANGED <<account, trades, world, todo, proceeds, maxId, tried, faults>>

\* An exception (retried after 30 s) or a kill and a restart: what the pass had in
\* memory is gone, what it had written stays.
Abort ==
    /\ pc # "sleep"
    /\ aborts < MaxAborts
    /\ aborts' = aborts + 1
    /\ slips' = slips + (IF pc \in {"debit", "credit"} THEN 1 ELSE 0)
    /\ pc' = "sleep"
    /\ todo' = {}
    /\ proceeds' = 0
    /\ UNCHANGED <<account, cursor, trades, world, maxId, tried>>

----------------------------------------------------------------------------

Environment ==
    \/ \E s \in LoggedSignals : LogSignal(s)
    \/ \E t \in Token, sides \in BookStates : BookChanges(t, sides)
    \/ \E m \in Market, yes \in {Unresolved} \cup 0 .. One : MetadataSync(m, yes)
    \/ \E i \in OpenIds : HoldExpires(i)

Pass ==
    \/ StartPass
    \/ \E i \in todo : Settle(i) \/ Keep(i) \/ Skip(i)
    \/ \E i \in todo, x \in Proceeds : Exit(i, x)
    \/ Credit
    \/ ReadSignals
    \/ \E i \in todo, n \in SharesBought : OpenRow(i, n)
    \/ Debit
    \/ EndPass

Next == Environment \/ Pass \/ Abort

Spec == Init /\ [][Next]_vars

\* The task is a loop that never ends: it sleeps, then runs a pass, and it survives
\* every exception (paper.py:328-332).
FairSpec == Spec /\ WF_vars(Pass)

----------------------------------------------------------------------------

\* The shape of the account, of the tables and of the task's local state.
TypeOK ==
    /\ cash \in Nat
    /\ realized \in Int
    /\ nTrades \in Nat
    /\ cursor \in 0 .. Len(log)
    /\ trades \in Seq(Trade)
    /\ log \in Seq(Signal)
    /\ payout \in [Market -> {Unresolved} \cup 0 .. One]
    /\ book \in [Token -> SUBSET {"ask", "bid"}]
    /\ pc \in {"sleep", "mark", "credit", "open", "debit"}
    /\ todo \in SUBSET Nat
    /\ proceeds \in Nat
    /\ maxId \in Nat
    /\ aborts \in Nat
    /\ tried \in SUBSET Nat

\* "One position per token at a time" (paper.py:198): whatever is cut short and retried,
\* the table never holds two open trades on the same token.
OnePositionPerToken ==
    \A i, j \in OpenIds : trades[i].token = trades[j].token => i = j

\* A signal buys at most once as long as no pass was cut short: the cursor, written only
\* at the end of the batch, is enough to keep the trader from reading a signal twice.
OneTradePerSignal ==
    aborts = 0 => \A i, j \in DOMAIN trades : trades[i].signal = trades[j].signal => i = j

\* The cursor never passes over a signal of a followed strategy that was not tried,
\* in spite of the LIMIT on the query and of the signals of other strategies in between.
NoSignalPassedOver == \A i \in 1 .. cursor : log[i].followed => i \in tried

\* The cursor and the open positions together: whatever is cut short and retried, a
\* signal is read in time, buys at most once, and never into a token already held
\* (paper.py, process_new_signals).
TradesOnce == OnePositionPerToken /\ OneTradePerSignal /\ NoSignalPassedOver

\* Between passes, and as long as no opening or exit was cut in half, the account row
\* agrees with the trade table: every trade is counted, and the realised result is the sum of the
\* results of the trades that ended.
AccountMatchesTrades ==
    (slips = 0 /\ pc = "sleep") =>
        /\ nTrades = Len(trades)
        /\ realized = SumFunction([i \in DOMAIN trades |-> trades[i].pnl])

\* Every signal of a followed strategy is eventually considered: none stays beyond the
\* cursor forever, in spite of the LIMIT and of the passes cut short.
Waiting(n) == n \in DOMAIN log /\ log[n].followed /\ cursor < n

SignalsConsidered == \A n \in 1 .. MaxSignals : ~<>[]Waiting(n)

\* The bankroll recycles (paper.py:17-18): no trade stays open forever past its hold
\* while there is a bid for it.
Stuck(n) == n \in OpenIds /\ trades[n].overdue /\ "bid" \in book[trades[n].token]

OverdueTradesClose == \A n \in 1 .. MaxSignals : ~<>[]Stuck(n)

\* Signals get in and trades get out (paper.py, paper_trader_task).
Recycles == SignalsConsidered /\ OverdueTradesClose

(***************************************************************************)
(* The trader implements PaperLedger: the second statement of an opening   *)
(* or of an exit does not change the abstract account, which is what the   *)
(* account row will be once that statement is executed.                    *)
(***************************************************************************)
LedgerCash ==
    CASE pc = "debit"  -> cash - PerTrade
      [] pc = "credit" -> cash + proceeds
      [] OTHER         -> cash

LedgerRealized == IF pc = "credit" THEN realized + proceeds - PerTrade ELSE realized

LedgerPositions == {trades[i].token : i \in OpenIds}

Ledger == INSTANCE PaperLedger
    WITH cash <- LedgerCash, realized <- LedgerRealized, positions <- LedgerPositions

\* Every step of the trader, aborts included, is a step of the abstract account: an
\* opening or an exit takes effect once, at its first statement, and the only thing an
\* abort can do to the account is to lose the second statement of one operation.
ImplementsLedger == Ledger!Spec

\* Money is conserved by the rows of the two tables, whenever the task is asleep and no
\* operation was cut in half.
CashConserved ==
    (slips = 0 /\ pc = "sleep") =>
        cash + PerTrade * Cardinality(OpenIds) = Bankroll + realized

\* The account row agrees with the table of trades in its count, its result and its cash
\* (paper.py, _try_open and _close).
MoneyAccounted == AccountMatchesTrades /\ CashConserved

\* TUTORIAL.md:314-315: after a crash "just restart the engine", the state database is
\* "recoverable". It would make the same equation hold also after aborts.
CashRecovered ==
    pc = "sleep" => cash + PerTrade * Cardinality(OpenIds) = Bankroll + realized
============================================================================
