------------------------- MODULE PaperTraderProofs -------------------------
(***************************************************************************)
(* What the paper trader keeps, for every number of markets, signals and   *)
(* cut passes: the shape of its tables, the trades it may make, the        *)
(* abstract account it implements and the balance of its money.            *)
(***************************************************************************)
EXTENDS PaperTrader, SumProofs, SequenceTheorems

\* The second half of a pass, from the reading of the batch to the writing of the cursor.
Opening == pc \in {"open", "debit"}

\* What the task knows of the rows it is about to visit.
TaskInv ==
    /\ slips \in Nat
    /\ pc = "debit" => cash >= PerTrade
    /\ pc = "sleep" => todo = {}
    /\ pc \in {"mark", "credit"} => todo \subseteq OpenIds
    /\ Opening => /\ cursor <= maxId /\ maxId <= Len(log)
                  /\ todo \subseteq (maxId + 1) .. Len(log)

\* The last signal the trader is done with.
Reached == IF Opening THEN maxId ELSE cursor

\* What makes the cursor enough: no trade is on a signal that may still be read.
SignalInv == aborts = 0 =>
    /\ \A i, j \in DOMAIN trades : trades[i].signal = trades[j].signal => i = j
    /\ \A i \in DOMAIN trades : trades[i].signal <= Reached

\* What makes the batch enough: it has every followed signal up to its last.
ConsideredInv ==
    /\ NoSignalPassedOver
    /\ \A i \in 1 .. Reached : log[i].followed => i \in tried
    /\ Opening => \A i \in todo : \A j \in (maxId + 1) .. i : log[j].followed => j \in todo

\* The results in the table of trades.
Pnl == [i \in DOMAIN trades |-> trades[i].pnl]

\* The account row at every step, with what the second statement of the operation being
\* written has still to add to it.
MatchInv ==
    /\ \A i \in OpenIds : trades[i].pnl = 0
    /\ slips = 0 =>
         /\ nTrades = Len(trades) - (IF pc = "debit" THEN 1 ELSE 0)
         /\ realized = SumFunctionOnSet(Pnl, DOMAIN trades)
                       - (IF pc = "credit" THEN proceeds - PerTrade ELSE 0)

IInv ==
    /\ TypeOK
    /\ TaskInv
    /\ OnePositionPerToken
    /\ SignalInv
    /\ ConsideredInv
    /\ MatchInv

----------------------------------------------------------------------------

\* The token bought for a signal is a token.
LEMMA HeldType == ASSUME NEW s \in Signal PROVE Held(s) \in Token
<1>1. s.leg \in Token
    BY DEF Signal
<1>2. s.leg[1] \in Market /\ s.leg[2] \in {"yes", "no"}
    BY <1>1 DEF Token
<1>3. Complement(s.leg) \in Token
    BY <1>2 DEF Complement, Token
<1>4. QED BY <1>1, <1>3 DEF Held

\* What the shares of a trade pay when its market has resolved.
LEMMA PayoutType ==
    ASSUME TypeOK, NEW t \in Token, Payout(t) # Unresolved
    PROVE  Payout(t) \in Nat
<1>1. t[1] \in Market
    BY DEF Token
<1>2. payout[t[1]] \in {Unresolved} \cup 0 .. One
    BY <1>1 DEF TypeOK
<1>3. One \in Nat
    BY PaperAssumption DEF PaperAssumption
<1>4. CASE payout[t[1]] = Unresolved
    BY <1>4 DEF Payout
<1>5. CASE payout[t[1]] \in 0 .. One
    <2>1. payout[t[1]] \in Nat /\ One - payout[t[1]] \in Nat
        BY <1>3, <1>5
    <2>2. QED BY <2>1 DEF Payout
<1>6. QED BY <1>2, <1>4, <1>5

\* A trade row.
LEMMA TradeFields ==
    ASSUME NEW r
    PROVE  r \in Trade <=>
             /\ r = [signal |-> r.signal, token |-> r.token, shares |-> r.shares,
                     overdue |-> r.overdue, status |-> r.status, pnl |-> r.pnl]
             /\ r.signal \in Nat /\ r.token \in Token /\ r.shares \in SharesBought
             /\ r.overdue \in BOOLEAN /\ r.status \in {"open", "closed", "settled"}
             /\ r.pnl \in Int
BY DEF Trade

\* The open trades are rows of the table, and there are finitely many.
LEMMA OpenRows ==
    ASSUME trades \in Seq(Trade)
    PROVE  /\ OpenIds \subseteq DOMAIN trades
           /\ DOMAIN trades = 1 .. Len(trades) /\ Len(trades) \in Nat
           /\ IsFiniteSet(DOMAIN trades) /\ IsFiniteSet(OpenIds)
<1>1. DOMAIN trades = 1 .. Len(trades) /\ Len(trades) \in Nat
    BY LenProperties
<1>2. IsFiniteSet(1 .. Len(trades))
    BY <1>1, FS_Interval
<1>3. OpenIds \subseteq DOMAIN trades
    BY DEF OpenIds
<1>4. QED BY <1>1, <1>2, <1>3, FS_Subset

\* Either way out of a trade: its row is written, with some proceeds (paper.py, _close).
Closes(i) ==
    /\ pc = "mark"
    /\ i \in OpenIds
    /\ First(i)
    /\ \E x \in Nat, status \in {"closed", "settled"} : CloseRow(i, status, x)

\* Settling and exiting are those two ways.
LEMMA TwoWaysOut ==
    ASSUME TypeOK, TaskInv, NEW i \in todo, Settle(i) \/ \E x \in Proceeds : Exit(i, x)
    PROVE  Closes(i)
<1>1. pc = "mark" /\ First(i) /\ i \in OpenIds
    BY DEF Settle, Exit, TaskInv
<1>2. trades[i] \in Trade
    BY <1>1, OpenRows, ElementOfSeq DEF TypeOK
<1>3. trades[i].shares \in Nat /\ trades[i].token \in Token /\ One \in Nat
    BY <1>2, TradeFields, PaperAssumption DEF PaperAssumption
<1>4. \A a, b \in Nat : a * b \in Nat
    OBVIOUS
<1>5. CASE Settle(i)
    <2>1. trades[i].shares * Payout(trades[i].token) \in Nat
        BY <1>3, <1>4, <1>5, PayoutType DEF Settle
    <2>2. QED BY <1>1, <1>5, <2>1 DEF Settle, Closes
<1>6. ASSUME NEW x \in Proceeds, Exit(i, x) PROVE Closes(i)
    <2>1. x \in Nat
        BY <1>3, <1>4, <1>6 DEF Exit
    <2>2. QED BY <1>1, <1>6, <2>1 DEF Exit, Closes
<1>7. QED BY <1>5, <1>6

\* The steps of the trader and of what surrounds it.
LEMMA Steps ==
    TypeOK /\ TaskInv /\ [Next]_vars =>
        \/ \E s \in Signal : LogSignal(s)
        \/ \E t \in Token, sides \in SUBSET {"ask", "bid"} : BookChanges(t, sides)
        \/ \E m \in Market, yes \in {Unresolved} \cup 0 .. One : MetadataSync(m, yes)
        \/ \E i \in OpenIds : HoldExpires(i)
        \/ StartPass
        \/ \E i \in todo : Closes(i) \/ Keep(i) \/ Skip(i)
        \/ Credit
        \/ ReadSignals
        \/ \E i \in todo, n \in SharesBought : OpenRow(i, n)
        \/ Debit
        \/ EndPass
        \/ Abort
        \/ UNCHANGED vars
<1>1. LoggedSignals \subseteq Signal /\ BookStates \subseteq SUBSET {"ask", "bid"}
    BY PaperAssumption DEF PaperAssumption
<1>2. QED BY <1>1, TwoWaysOut DEF Next, Environment, Pass

\* The table of trades after a row is closed.
LEMMA ClosedRow ==
    ASSUME TypeOK, NEW i \in OpenIds, NEW x \in Nat, NEW status \in {"closed", "settled"},
           CloseRow(i, status, x)
    PROVE  /\ trades' \in Seq(Trade) /\ Len(trades') = Len(trades)
           /\ DOMAIN trades' = DOMAIN trades
           /\ OpenIds' = OpenIds \ {i}
           /\ \A j \in DOMAIN trades \ {i} : trades'[j] = trades[j]
           /\ \A j \in DOMAIN trades : /\ trades'[j].signal = trades[j].signal
                                       /\ trades'[j].token = trades[j].token
           /\ trades'[i].pnl = x - PerTrade
<1> DEFINE r == [trades[i] EXCEPT !.status = status, !.pnl = x - PerTrade]
<1>1. i \in DOMAIN trades /\ trades[i] \in Trade
    BY OpenRows, ElementOfSeq DEF TypeOK
<1>2. x - PerTrade \in Int
    BY MoneyAssumption DEF MoneyAssumption
<1>3. r \in Trade /\ r.status = status /\ r.pnl = x - PerTrade
      /\ r.signal = trades[i].signal /\ r.token = trades[i].token
    BY <1>1, <1>2 DEF Trade
<1>4. trades' = [trades EXCEPT ![i] = r]
    BY DEF CloseRow
<1> HIDE DEF r
<1>5. trades' \in Seq(Trade) /\ Len(trades') = Len(trades) /\ DOMAIN trades' = DOMAIN trades
    BY <1>1, <1>3, <1>4, ExceptSeq DEF TypeOK
<1>6. trades'[i] = r /\ \A j \in DOMAIN trades \ {i} : trades'[j] = trades[j]
    BY <1>1, <1>4, <1>5
<1>7. OpenIds' = OpenIds \ {i}
    BY <1>3, <1>5, <1>6 DEF OpenIds
<1>8. QED BY <1>3, <1>5, <1>6, <1>7

\* The table of trades after a row is inserted.
LEMMA OpenedRow ==
    ASSUME TypeOK, TaskInv, NEW i \in todo, NEW n \in SharesBought, OpenRow(i, n)
    PROVE  LET k == Len(trades) + 1
           IN  /\ trades' \in Seq(Trade) /\ Len(trades') = k
               /\ k \notin DOMAIN trades /\ DOMAIN trades' = DOMAIN trades \cup {k}
               /\ OpenIds' = OpenIds \cup {k}
               /\ \A j \in DOMAIN trades : trades'[j] = trades[j]
               /\ trades'[k].signal = i /\ trades'[k].pnl = 0
               /\ trades'[k].token = Held(log[i]) /\ Held(log[i]) \in Token
<1> DEFINE k == Len(trades) + 1
           r == [signal |-> i, token |-> Held(log[i]), shares |-> n,
                 overdue |-> FALSE, status |-> "open", pnl |-> 0]
<1>1. i \in Nat /\ i \in DOMAIN log
    <2>1. i \in (maxId + 1) .. Len(log) /\ Len(log) \in Nat /\ maxId \in Nat
        BY LenProperties DEF OpenRow, TaskInv, Opening, TypeOK
    <2>2. QED BY <2>1, LenProperties DEF TypeOK
<1>2. log[i] \in Signal
    BY <1>1, LenProperties, ElementOfSeq DEF TypeOK
<1>3. Held(log[i]) \in Token
    BY <1>2, HeldType
<1>4. r \in Trade /\ r.signal = i /\ r.pnl = 0 /\ r.token = Held(log[i]) /\ r.status = "open"
    BY <1>1, <1>3 DEF Trade
<1>5. trades' = Append(trades, r) /\ trades \in Seq(Trade)
    BY DEF OpenRow, TypeOK
<1> HIDE DEF r
<1>6. /\ trades' \in Seq(Trade) /\ Len(trades') = k
      /\ \A j \in 1 .. Len(trades) : trades'[j] = trades[j]
      /\ trades'[k] = r
    BY <1>4, <1>5, AppendProperties
<1>7. DOMAIN trades = 1 .. Len(trades) /\ DOMAIN trades' = 1 .. k /\ Len(trades) \in Nat
    BY <1>5, <1>6, LenProperties
<1>8. k \notin DOMAIN trades /\ DOMAIN trades' = DOMAIN trades \cup {k}
    BY <1>7
<1> HIDE DEF k
<1>9. OpenIds' = OpenIds \cup {k}
    BY <1>4, <1>6, <1>7, <1>8 DEF OpenIds
<1>10. QED BY <1>3, <1>4, <1>6, <1>7, <1>8, <1>9 DEF k

\* The table of trades after the hold of a trade expires.
LEMMA ExpiredRow ==
    ASSUME TypeOK, NEW i \in OpenIds, HoldExpires(i)
    PROVE  /\ trades' \in Seq(Trade) /\ Len(trades') = Len(trades)
           /\ DOMAIN trades' = DOMAIN trades
           /\ OpenIds' = OpenIds
           /\ \A j \in DOMAIN trades : /\ trades'[j].signal = trades[j].signal
                                       /\ trades'[j].token = trades[j].token
                                       /\ trades'[j].pnl = trades[j].pnl
<1> DEFINE r == [trades[i] EXCEPT !.overdue = TRUE]
<1>1. i \in DOMAIN trades /\ trades[i] \in Trade
    BY OpenRows, ElementOfSeq DEF TypeOK
<1>2. r \in Trade /\ r.status = trades[i].status /\ r.pnl = trades[i].pnl
      /\ r.signal = trades[i].signal /\ r.token = trades[i].token
    BY <1>1 DEF Trade
<1>3. trades' = [trades EXCEPT ![i] = r]
    BY DEF HoldExpires
<1> HIDE DEF r
<1>4. trades' \in Seq(Trade) /\ Len(trades') = Len(trades) /\ DOMAIN trades' = DOMAIN trades
    BY <1>1, <1>2, <1>3, ExceptSeq DEF TypeOK
<1>5. trades'[i] = r /\ \A j \in DOMAIN trades \ {i} : trades'[j] = trades[j]
    BY <1>1, <1>3, <1>4
<1>6. OpenIds' = OpenIds
    BY <1>2, <1>4, <1>5 DEF OpenIds
<1>7. QED BY <1>2, <1>4, <1>5, <1>6

----------------------------------------------------------------------------

\* Every step keeps the shape of the account and of the tables.
LEMMA TypeStep == TypeOK /\ TaskInv /\ [Next]_vars => TypeOK'
<1> SUFFICES ASSUME TypeOK, TaskInv, [Next]_vars PROVE TypeOK'
    OBVIOUS
<1> USE DEF TypeOK, account, world, task, faults
<1>1. ASSUME NEW s \in Signal, LogSignal(s) PROVE TypeOK'
    <2>1. log' \in Seq(Signal) /\ Len(log') = Len(log) + 1
        BY <1>1, AppendProperties DEF LogSignal
    <2>2. cursor' \in 0 .. Len(log')
        BY <1>1, <2>1, LenProperties DEF LogSignal
    <2>3. QED BY <1>1, <2>1, <2>2 DEF LogSignal
<1>2. ASSUME NEW t \in Token, NEW sides \in SUBSET {"ask", "bid"}, BookChanges(t, sides)
      PROVE  TypeOK'
    BY <1>2 DEF BookChanges
<1>3. ASSUME NEW m \in Market, NEW yes \in {Unresolved} \cup 0 .. One, MetadataSync(m, yes)
      PROVE  TypeOK'
    BY <1>3 DEF MetadataSync
<1>4. ASSUME NEW i \in OpenIds, HoldExpires(i) PROVE TypeOK'
    BY <1>4, ExpiredRow DEF HoldExpires
<1>5. CASE StartPass
    <2>1. todo' \in SUBSET Nat
        BY <1>5, OpenRows DEF StartPass
    <2>2. QED BY <1>5, <2>1 DEF StartPass
<1>6. ASSUME NEW i \in todo, Closes(i) PROVE TypeOK'
    <2>1. PICK x \in Nat, status \in {"closed", "settled"} : CloseRow(i, status, x)
        BY <1>6 DEF Closes
    <2>2. trades' \in Seq(Trade)
        BY <1>6, <2>1, ClosedRow DEF Closes
    <2>3. QED BY <2>1, <2>2 DEF CloseRow
<1>7. ASSUME NEW i \in todo, Keep(i) PROVE TypeOK'
    BY <1>7 DEF Keep
<1>8. ASSUME NEW i \in todo, Skip(i) PROVE TypeOK'
    BY <1>8 DEF Skip
<1>9. CASE Credit
    BY <1>9, MoneyAssumption DEF Credit, MoneyAssumption
<1>10. CASE ReadSignals
    <2>1. todo' \in SUBSET Nat
        BY <1>10, LenProperties DEF ReadSignals, Batch, Candidates
    <2>2. QED BY <1>10, <2>1, LenProperties DEF ReadSignals
<1>11. ASSUME NEW i \in todo, NEW n \in SharesBought, OpenRow(i, n) PROVE TypeOK'
    <2>1. trades' \in Seq(Trade)
        BY <1>11, OpenedRow
    <2>2. QED BY <1>11, <2>1 DEF OpenRow
<1>12. CASE Debit
    BY <1>12, MoneyAssumption DEF Debit, TaskInv, MoneyAssumption
<1>13. CASE EndPass
    <2>1. cursor' \in 0 .. Len(log')
        BY <1>13, LenProperties DEF EndPass, TaskInv, Opening
    <2>2. QED BY <1>13, <2>1 DEF EndPass
<1>14. CASE Abort
    BY <1>14 DEF Abort
<1>15. CASE UNCHANGED vars
    BY <1>15 DEF vars
<1>16. QED BY <1>1, <1>2, <1>3, <1>4, <1>5, <1>6, <1>7, <1>8, <1>9, <1>10, <1>11, <1>12,
              <1>13, <1>14, <1>15, Steps

\* Every step keeps what the task knows of the rows it is about to visit.
LEMMA TaskStep == TypeOK /\ TaskInv /\ [Next]_vars => TaskInv'
<1> SUFFICES ASSUME TypeOK, TaskInv, [Next]_vars PROVE TaskInv'
    OBVIOUS
<1> USE DEF TaskInv, Opening, account, world, task, faults
<1>0. /\ Len(log) \in Nat /\ cursor \in Nat /\ cursor <= Len(log) /\ maxId \in Nat
      /\ cash \in Nat /\ slips \in Nat /\ pc \in {"sleep", "mark", "credit", "open", "debit"}
    BY LenProperties DEF TypeOK
<1>1. ASSUME NEW s \in Signal, LogSignal(s) PROVE TaskInv'
    BY <1>1 DEF LogSignal
<1>2. ASSUME NEW t \in Token, NEW sides \in SUBSET {"ask", "bid"}, BookChanges(t, sides)
      PROVE  TaskInv'
    BY <1>2 DEF BookChanges
<1>3. ASSUME NEW m \in Market, NEW yes \in {Unresolved} \cup 0 .. One, MetadataSync(m, yes)
      PROVE  TaskInv'
    BY <1>3 DEF MetadataSync
<1>4. ASSUME NEW i \in OpenIds, HoldExpires(i) PROVE TaskInv'
    BY <1>4 DEF HoldExpires
<1>5. CASE StartPass
    BY <1>5 DEF StartPass, OpenIds
<1>6. ASSUME NEW i \in todo, Closes(i) PROVE TaskInv'
    <2>1. PICK x \in Nat, status \in {"closed", "settled"} : CloseRow(i, status, x)
        BY <1>6 DEF Closes
    <2>2. OpenIds' = OpenIds \ {i}
        BY <1>6, <2>1, ClosedRow DEF Closes
    <2>3. pc = "mark" /\ pc' = "credit" /\ todo' = todo \ {i} /\ slips' = slips
        BY <1>6, <2>1 DEF Closes, CloseRow
    <2>4. QED BY <2>2, <2>3
<1>7. ASSUME NEW i \in todo, Keep(i) PROVE TaskInv'
    BY <1>7 DEF Keep, OpenIds
<1>8. ASSUME NEW i \in todo, pc = "open", First(i), todo' = todo \ {i}, maxId' = i
      PROVE  cursor <= maxId' /\ maxId' <= Len(log) /\ todo' \subseteq (maxId' + 1) .. Len(log)
    BY <1>0, <1>8 DEF First
<1>9. ASSUME NEW i \in todo, Skip(i) PROVE TaskInv'
    BY <1>0, <1>8, <1>9 DEF Skip
<1>10. CASE Credit
    BY <1>10 DEF Credit, OpenIds
<1>11. CASE ReadSignals
    <2>1. Batch \subseteq (cursor + 1) .. Len(log)
        BY <1>0, LenProperties DEF Batch, Candidates, TypeOK
    <2>2. QED BY <1>0, <1>11, <2>1 DEF ReadSignals
<1>12. ASSUME NEW i \in todo, NEW n \in SharesBought, OpenRow(i, n) PROVE TaskInv'
    BY <1>0, <1>8, <1>12 DEF OpenRow, Tradable
<1>13. CASE Debit
    BY <1>0, <1>13 DEF Debit
<1>14. CASE EndPass
    BY <1>0, <1>14 DEF EndPass
<1>15. CASE Abort
    BY <1>0, <1>15 DEF Abort
<1>16. CASE UNCHANGED vars
    BY <1>16 DEF vars, OpenIds
<1>17. QED BY <1>1, <1>2, <1>3, <1>4, <1>5, <1>6, <1>7, <1>9, <1>10, <1>11, <1>12,
              <1>13, <1>14, <1>15, <1>16, Steps

\* The steps that leave the table of trades alone.
LEMMA SameTrades ==
    ASSUME trades' = trades
    PROVE  OpenIds' = OpenIds /\ Pnl' = Pnl
BY DEF OpenIds, Pnl

\* The only steps that write the table of trades.
LEMMA WhoTrades ==
    TypeOK /\ TaskInv /\ [Next]_vars =>
        \/ \E i \in OpenIds : HoldExpires(i)
        \/ \E i \in todo : Closes(i)
        \/ \E i \in todo, n \in SharesBought : OpenRow(i, n)
        \/ trades' = trades
BY Steps DEF LogSignal, BookChanges, MetadataSync, StartPass, Keep, Skip, Credit, ReadSignals,
             Debit, EndPass, Abort, vars, account, world, task, faults

\* Every step keeps one position per token.
LEMMA PositionStep ==
    TypeOK /\ TaskInv /\ OnePositionPerToken /\ [Next]_vars => OnePositionPerToken'
<1> SUFFICES ASSUME TypeOK, TaskInv, OnePositionPerToken, [Next]_vars
             PROVE  OnePositionPerToken'
    OBVIOUS
<1>0. OpenIds \subseteq DOMAIN trades
    BY OpenRows DEF TypeOK
<1>1. ASSUME NEW i \in OpenIds, HoldExpires(i) PROVE OnePositionPerToken'
    BY <1>0, <1>1, ExpiredRow DEF OnePositionPerToken
<1>2. ASSUME NEW i \in todo, Closes(i) PROVE OnePositionPerToken'
    <2>1. i \in OpenIds
        BY <1>2 DEF Closes
    <2>2. PICK x \in Nat, status \in {"closed", "settled"} : CloseRow(i, status, x)
        BY <1>2 DEF Closes
    <2>3. OpenIds' = OpenIds \ {i} /\ \A j \in DOMAIN trades : trades'[j].token = trades[j].token
        BY <2>1, <2>2, ClosedRow
    <2>4. QED BY <1>0, <2>3 DEF OnePositionPerToken
<1>3. ASSUME NEW i \in todo, NEW n \in SharesBought, OpenRow(i, n) PROVE OnePositionPerToken'
    <2> DEFINE k == Len(trades) + 1
    <2>1. /\ OpenIds' = OpenIds \cup {k} /\ k \notin DOMAIN trades
          /\ \A j \in DOMAIN trades : trades'[j] = trades[j]
          /\ trades'[k].token = Held(log[i])
        BY <1>3, OpenedRow
    <2>2. \A j \in OpenIds : trades[j].token # Held(log[i])
        BY <1>3 DEF OpenRow, Tradable
    <2> HIDE DEF k
    <2>3. QED BY <1>0, <2>1, <2>2 DEF OnePositionPerToken
<1>4. CASE trades' = trades
    BY <1>4, SameTrades DEF OnePositionPerToken
<1>5. QED BY <1>1, <1>2, <1>3, <1>4, WhoTrades

\* What the trader is done with only grows, and a row it inserts is past it.
LEMMA ReachedGrows ==
    TypeOK /\ TaskInv /\ [Next]_vars /\ aborts' = aborts => Reached <= Reached'
<1> SUFFICES ASSUME TypeOK, TaskInv, [Next]_vars, aborts' = aborts PROVE Reached <= Reached'
    OBVIOUS
<1> USE DEF Reached, Opening
<1>0. /\ cursor \in Nat /\ maxId \in Nat
      /\ Opening => cursor <= maxId
      /\ pc \in {"sleep", "mark", "credit", "open", "debit"}
    BY LenProperties DEF TypeOK, TaskInv
<1>1. CASE cursor' = cursor /\ maxId' = maxId /\ Opening' = Opening
    BY <1>0, <1>1
<1>2. ASSUME NEW i \in todo, pc = "open", maxId' = i, Opening' PROVE maxId <= maxId'
    <2>1. i \in (maxId + 1) .. Len(log)
        BY <1>2 DEF TaskInv
    <2>2. QED BY <1>0, <1>2, <2>1, LenProperties DEF TypeOK
<1>3. ASSUME NEW i \in todo, Skip(i) PROVE Reached <= Reached'
    <2>1. pc = "open" /\ maxId' = i /\ Opening'
        BY <1>3 DEF Skip
    <2>2. QED BY <1>2, <2>1
<1>4. ASSUME NEW i \in todo, NEW n \in SharesBought, OpenRow(i, n) PROVE Reached <= Reached'
    <2>1. pc = "open" /\ maxId' = i /\ Opening'
        BY <1>4 DEF OpenRow
    <2>2. QED BY <1>2, <2>1
<1>5. CASE ReadSignals
    BY <1>0, <1>5 DEF ReadSignals
<1>6. CASE EndPass
    BY <1>0, <1>6 DEF EndPass
<1>7. CASE Abort
    BY <1>0, <1>7 DEF Abort, TypeOK
<1>8. CASE Credit \/ Debit
    BY <1>1, <1>8 DEF Credit, Debit
<1>9. CASE StartPass \/ \E i \in todo : Closes(i) \/ Keep(i)
    <2>1. cursor' = cursor /\ maxId' = maxId
        BY <1>9 DEF StartPass, Closes, CloseRow, Keep
    <2>2. ~Opening /\ ~Opening'
        BY <1>9 DEF StartPass, Closes, CloseRow, Keep
    <2>3. QED BY <1>0, <2>1, <2>2
<1>10. CASE cursor' = cursor /\ maxId' = maxId /\ pc' = pc
    BY <1>1, <1>10
<1>11. CASE (\E s \in Signal : LogSignal(s)) \/ (\E i \in OpenIds : HoldExpires(i))
            \/ UNCHANGED vars
    BY <1>10, <1>11 DEF LogSignal, HoldExpires, vars, world, task
<1>12. CASE (\E t \in Token, sides \in SUBSET {"ask", "bid"} : BookChanges(t, sides))
            \/ (\E m \in Market, yes \in {Unresolved} \cup 0 .. One : MetadataSync(m, yes))
    BY <1>10, <1>12 DEF BookChanges, MetadataSync, world, task
<1>13. QED BY <1>3, <1>4, <1>5, <1>6, <1>7, <1>8, <1>9, <1>11, <1>12, Steps

\* Every step keeps the signals of the trades apart, as long as no pass is cut short.
LEMMA SignalStep == TypeOK /\ TaskInv /\ SignalInv /\ [Next]_vars => SignalInv'
<1> SUFFICES ASSUME TypeOK, TaskInv, SignalInv, [Next]_vars, aborts' = 0 PROVE SignalInv'
    BY DEF SignalInv
<1>1. aborts = 0
    <2>1. aborts' = aborts \/ aborts' = aborts + 1
        BY Steps
        DEF LogSignal, BookChanges, MetadataSync, HoldExpires, StartPass, Closes, CloseRow, Keep,
            Skip, Credit, ReadSignals, OpenRow, Debit, EndPass, Abort, vars, account, world,
            task, faults
    <2>2. aborts \in Nat
        BY DEF TypeOK
    <2>3. QED BY <2>1, <2>2
<1>2. /\ \A i, j \in DOMAIN trades : trades[i].signal = trades[j].signal => i = j
      /\ \A i \in DOMAIN trades : trades[i].signal \in Nat /\ trades[i].signal <= Reached
    <2>1. \A i \in DOMAIN trades : trades[i] \in Trade
        BY OpenRows, ElementOfSeq DEF TypeOK
    <2>2. \A i \in DOMAIN trades : trades[i].signal \in Nat
        BY <2>1, TradeFields
    <2>3. QED BY <1>1, <2>2 DEF SignalInv
<1>3. Reached <= Reached' /\ Reached \in Nat
    BY <1>1, ReachedGrows, LenProperties DEF Reached, TypeOK
<1>4. Reached' \in Nat
    BY TypeStep, LenProperties DEF Reached, TypeOK
<1>5. CASE DOMAIN trades' = DOMAIN trades
           /\ \A j \in DOMAIN trades : trades'[j].signal = trades[j].signal
    BY <1>2, <1>3, <1>4, <1>5 DEF SignalInv
<1>6. ASSUME NEW i \in OpenIds, HoldExpires(i) PROVE SignalInv'
    BY <1>5, <1>6, ExpiredRow
<1>7. ASSUME NEW i \in todo, Closes(i) PROVE SignalInv'
    BY <1>5, <1>7, ClosedRow DEF Closes
<1>8. ASSUME NEW i \in todo, NEW n \in SharesBought, OpenRow(i, n) PROVE SignalInv'
    <2> DEFINE k == Len(trades) + 1
    <2>1. /\ k \notin DOMAIN trades /\ DOMAIN trades' = DOMAIN trades \cup {k}
          /\ \A j \in DOMAIN trades : trades'[j] = trades[j]
          /\ trades'[k].signal = i
        BY <1>8, OpenedRow
    <2>2. Reached' = i /\ i \in (maxId + 1) .. Len(log) /\ Reached = maxId
        BY <1>8 DEF OpenRow, Reached, Opening, TaskInv
    <2>3. i \in Nat /\ Reached < i
        BY <1>3, <2>2, LenProperties DEF TypeOK
    <2> HIDE DEF k
    <2>4. QED BY <1>2, <1>3, <2>1, <2>2, <2>3 DEF SignalInv
<1>9. QED BY <1>5, <1>6, <1>7, <1>8, WhoTrades

\* The batch has every signal before its last that may be followed.
LEMMA BatchClosed ==
    ASSUME TypeOK, NEW i \in Batch, NEW j \in (cursor + 1) .. i, log[j].followed
    PROVE  j \in Batch
<1> DEFINE Before(k) == {c \in Candidates : c < k}
<1>0. DOMAIN log = 1 .. Len(log) /\ Len(log) \in Nat /\ cursor \in Nat /\ i \in Candidates
    BY LenProperties DEF TypeOK, Batch
<1>1. j \in Candidates
    BY <1>0 DEF Candidates
<1>2. Before(j) \subseteq Before(i)
    BY <1>0 DEF Candidates
<1>3. IsFiniteSet(Before(i))
    <2>1. IsFiniteSet(1 .. Len(log)) /\ Before(i) \subseteq 1 .. Len(log)
        BY <1>0, FS_Interval DEF Candidates
    <2>2. QED BY <2>1, FS_Subset
<1>4. Cardinality(Before(i)) < BatchLimit
    BY DEF Batch
<1> HIDE DEF Before
<1>5. /\ Cardinality(Before(j)) <= Cardinality(Before(i))
      /\ Cardinality(Before(j)) \in Nat /\ Cardinality(Before(i)) \in Nat
    BY <1>2, <1>3, FS_Subset, FS_CardinalityType
<1>6. Cardinality(Before(j)) < BatchLimit
    BY <1>4, <1>5, PaperAssumption DEF PaperAssumption
<1>7. QED BY <1>1, <1>6 DEF Batch, Before

\* Every step considers the signals it passes over.
LEMMA ConsideredStep == TypeOK /\ TaskInv /\ ConsideredInv /\ [Next]_vars => ConsideredInv'
<1> SUFFICES ASSUME TypeOK, TaskInv, ConsideredInv, [Next]_vars PROVE ConsideredInv'
    OBVIOUS
<1> USE DEF ConsideredInv, NoSignalPassedOver, Reached, Opening, account, world, task, faults
<1>0. /\ Len(log) \in Nat /\ cursor \in Nat /\ cursor <= Len(log) /\ maxId \in Nat
      /\ Opening => cursor <= maxId /\ maxId <= Len(log)
                    /\ todo \subseteq (maxId + 1) .. Len(log)
      /\ pc \in {"sleep", "mark", "credit", "open", "debit"}
    BY LenProperties DEF TypeOK, TaskInv
<1>1. ASSUME NEW s \in Signal, LogSignal(s) PROVE ConsideredInv'
    <2>1. \A i \in 1 .. Len(log) : log'[i] = log[i]
        BY <1>1, AppendProperties DEF LogSignal, TypeOK
    <2>2. QED BY <1>0, <1>1, <2>1 DEF LogSignal
<1>2. CASE /\ log' = log /\ cursor' = cursor /\ maxId' = maxId /\ tried' = tried
           /\ Opening' = Opening /\ (Opening => todo' = todo)
    BY <1>2
<1>3. CASE Credit \/ Debit
    BY <1>2, <1>3 DEF Credit, Debit
<1>4. ASSUME NEW i \in todo, Closes(i) \/ Keep(i) PROVE ConsideredInv'
    BY <1>2, <1>4 DEF Closes, CloseRow, Keep
<1>5. ASSUME NEW i \in todo, pc = "open", First(i), todo' = todo \ {i}, maxId' = i,
             tried' = tried \cup {i}, log' = log, cursor' = cursor, Opening'
      PROVE  ConsideredInv'
    <2>1. i \in (maxId + 1) .. Len(log) /\ i \in Nat /\ maxId < i
        BY <1>0, <1>5
    <2>2. ASSUME NEW j \in 1 .. i, log[j].followed PROVE j \in tried'
        <3>1. CASE j <= maxId
            BY <1>0, <1>5, <2>2, <3>1
        <3>2. CASE j > maxId
            <4>1. j \in todo
                BY <1>0, <1>5, <2>1, <2>2, <3>2
            <4>2. i <= j
                BY <1>5, <4>1 DEF First
            <4>3. QED BY <1>5, <2>1, <4>2
        <3>3. QED BY <1>0, <3>1, <3>2
    <2>3. ASSUME NEW k \in todo', NEW j \in (i + 1) .. k, log[j].followed PROVE j \in todo'
        <3>1. k \in todo /\ k \in Nat /\ j \in (maxId + 1) .. k /\ j # i
            BY <1>0, <1>5, <2>1, <2>3
        <3>2. QED BY <1>5, <2>3, <3>1
    <2>4. NoSignalPassedOver'
        BY <1>5
    <2>5. QED BY <1>5, <2>2, <2>3, <2>4
<1>6. ASSUME NEW i \in todo, Skip(i) PROVE ConsideredInv'
    BY <1>5, <1>6 DEF Skip
<1>7. ASSUME NEW i \in todo, NEW n \in SharesBought, OpenRow(i, n) PROVE ConsideredInv'
    BY <1>5, <1>7 DEF OpenRow
<1>8. CASE ReadSignals
    <2>1. todo' = Batch /\ maxId' = cursor /\ cursor' = cursor /\ log' = log /\ tried' = tried
          /\ Opening' /\ ~Opening
        BY <1>8 DEF ReadSignals
    <2>2. \A i \in todo' : \A j \in (maxId' + 1) .. i : log'[j].followed => j \in todo'
        BY <2>1, BatchClosed
    <2>3. QED BY <2>1, <2>2
<1>9. CASE EndPass
    BY <1>0, <1>9 DEF EndPass
<1>10. CASE Abort
    BY <1>0, <1>10 DEF Abort
<1>11. CASE StartPass
    BY <1>2, <1>11 DEF StartPass
<1>12. CASE (\E t \in Token, sides \in SUBSET {"ask", "bid"} : BookChanges(t, sides))
            \/ (\E m \in Market, yes \in {Unresolved} \cup 0 .. One : MetadataSync(m, yes))
            \/ (\E i \in OpenIds : HoldExpires(i)) \/ UNCHANGED vars
    BY <1>2, <1>12 DEF BookChanges, MetadataSync, HoldExpires, vars
<1>13. QED BY <1>1, <1>3, <1>4, <1>6, <1>7, <1>8, <1>9, <1>10, <1>11, <1>12, Steps

\* The results in the table are integers, and there are finitely many.
LEMMA PnlType ==
    ASSUME TypeOK
    PROVE  /\ IsFiniteSet(DOMAIN trades)
           /\ \A i \in DOMAIN trades : Pnl[i] = trades[i].pnl /\ Pnl[i] \in Int
           /\ SumFunctionOnSet(Pnl, DOMAIN trades) \in Int
<1>1. IsFiniteSet(DOMAIN trades)
    BY OpenRows DEF TypeOK
<1>2. \A i \in DOMAIN trades : trades[i] \in Trade
    BY OpenRows, ElementOfSeq DEF TypeOK
<1>3. \A i \in DOMAIN trades : Pnl[i] = trades[i].pnl /\ Pnl[i] \in Int
    BY <1>2, TradeFields DEF Pnl
<1>4. SumFunctionOnSet(Pnl, DOMAIN trades) \in Int
    BY <1>1, <1>3, SumIsInteger
<1>5. QED BY <1>1, <1>3, <1>4

\* A step that writes neither a trade nor the account leaves them in agreement.
LEMMA MatchSame ==
    ASSUME MatchInv, trades' = trades, nTrades' = nTrades, realized' = realized,
           slips' = slips, proceeds' = proceeds,
           pc \in {"debit", "credit"} \/ pc' \in {"debit", "credit"} => pc' = pc
    PROVE  MatchInv'
<1>1. OpenIds' = OpenIds /\ Pnl' = Pnl
    BY SameTrades
<1>2. CASE pc' = pc
    BY <1>1, <1>2 DEF MatchInv
<1>3. CASE pc \notin {"debit", "credit"} /\ pc' \notin {"debit", "credit"}
    BY <1>1, <1>3 DEF MatchInv
<1>4. QED BY <1>2, <1>3

\* The steps that write neither.
LEMMA Quiet ==
    TypeOK /\ TaskInv /\ [Next]_vars =>
        \/ \E i \in OpenIds : HoldExpires(i)
        \/ \E i \in todo : Closes(i)
        \/ Credit
        \/ \E i \in todo, n \in SharesBought : OpenRow(i, n)
        \/ Debit
        \/ Abort
        \/ /\ trades' = trades /\ nTrades' = nTrades /\ realized' = realized
           /\ cash' = cash /\ slips' = slips /\ proceeds' = proceeds
           /\ pc \in {"debit", "credit"} \/ pc' \in {"debit", "credit"} => pc' = pc
BY Steps DEF LogSignal, BookChanges, MetadataSync, StartPass, Keep, Skip, ReadSignals,
             EndPass, vars, account, world, task, faults

\* Every step keeps the account row in agreement with the table of trades.
LEMMA MatchStep == TypeOK /\ TaskInv /\ MatchInv /\ [Next]_vars => MatchInv'
<1> SUFFICES ASSUME TypeOK, TaskInv, MatchInv, [Next]_vars PROVE MatchInv'
    OBVIOUS
<1> DEFINE D == DOMAIN trades
           before == SumFunctionOnSet(Pnl, D)
           after == SumFunctionOnSet(Pnl', DOMAIN trades')
<1>0. /\ before \in Int /\ nTrades \in Nat /\ realized \in Int /\ proceeds \in Nat
      /\ Len(trades) \in Nat /\ slips \in Nat /\ OpenIds \subseteq D
      /\ PerTrade \in Int
    BY PnlType, OpenRows, MoneyAssumption DEF TypeOK, TaskInv, MoneyAssumption
<1>1. /\ \A i \in OpenIds : trades[i].pnl = 0
      /\ slips = 0 =>
           /\ nTrades = Len(trades) - (IF pc = "debit" THEN 1 ELSE 0)
           /\ realized = before - (IF pc = "credit" THEN proceeds - PerTrade ELSE 0)
    BY DEF MatchInv
<1>2. /\ \A i \in OpenIds' : trades'[i].pnl = 0
      /\ slips' = 0 =>
           /\ nTrades' = Len(trades') - (IF pc' = "debit" THEN 1 ELSE 0)
           /\ realized' = after - (IF pc' = "credit" THEN proceeds' - PerTrade ELSE 0)
      => MatchInv'
    BY DEF MatchInv
<1>3. IsFiniteSet(D) /\ \A i \in D : Pnl[i] = trades[i].pnl /\ Pnl[i] \in Int
    BY PnlType
<1>4. \A i \in DOMAIN trades' : Pnl'[i] = trades'[i].pnl
    BY DEF Pnl
<1>5. ASSUME NEW i \in OpenIds, HoldExpires(i) PROVE MatchInv'
    <2>1. /\ DOMAIN trades' = D /\ OpenIds' = OpenIds /\ Len(trades') = Len(trades)
          /\ \A j \in D : trades'[j].pnl = trades[j].pnl
        BY <1>5, ExpiredRow
    <2>2. \A j \in D : Pnl'[j] = Pnl[j]
        BY <1>3, <1>4, <2>1
    <2> HIDE DEF D
    <2>3. after = before
        BY <1>3, <2>1, <2>2, SumsAgree
    <2>4. nTrades' = nTrades /\ realized' = realized /\ slips' = slips /\ pc = "sleep"
          /\ pc' = "sleep"
        BY <1>5 DEF HoldExpires, account, task, faults
    <2> HIDE DEF before, after
    <2>5. QED BY <1>0, <1>1, <1>2, <2>1, <2>3, <2>4
<1>6. ASSUME NEW i \in todo, Closes(i) PROVE MatchInv'
    <2>1. i \in OpenIds /\ pc = "mark" /\ i \in D
        BY <1>0, <1>6 DEF Closes
    <2>2. PICK x \in Nat, status \in {"closed", "settled"} : CloseRow(i, status, x)
        BY <1>6 DEF Closes
    <2>3. /\ DOMAIN trades' = D /\ OpenIds' = OpenIds \ {i} /\ Len(trades') = Len(trades)
          /\ \A j \in D \ {i} : trades'[j] = trades[j]
          /\ trades'[i].pnl = x - PerTrade
        BY <2>1, <2>2, ClosedRow
    <2>4. /\ Pnl'[i] = Pnl[i] + (x - PerTrade) /\ x - PerTrade \in Int
          /\ \A j \in D \ {i} : Pnl'[j] = Pnl[j]
        <3>1. Pnl[i] = 0 /\ Pnl'[i] = x - PerTrade
            BY <1>1, <1>3, <1>4, <2>1, <2>3
        <3>2. x - PerTrade \in Int
            BY <1>0
        <3>3. \A j \in D \ {i} : Pnl'[j] = Pnl[j]
            BY <1>3, <1>4, <2>3
        <3>4. QED BY <3>1, <3>2, <3>3
    <2> HIDE DEF D
    <2>5. after = before + (x - PerTrade)
        BY <1>3, <2>1, <2>3, <2>4, SumAddsAtOne
    <2>6. /\ nTrades' = nTrades /\ realized' = realized /\ slips' = slips
          /\ proceeds' = x /\ pc' = "credit"
        BY <2>2 DEF CloseRow, account, faults
    <2>7. \A j \in OpenIds' : trades'[j].pnl = 0
        BY <1>0, <1>1, <2>3
    <2> HIDE DEF before, after
    <2>8. QED BY <1>0, <1>1, <1>2, <2>1, <2>3, <2>5, <2>6, <2>7
<1>7. ASSUME NEW i \in todo, NEW n \in SharesBought, OpenRow(i, n) PROVE MatchInv'
    <2> DEFINE k == Len(trades) + 1
    <2>1. /\ k \notin D /\ DOMAIN trades' = D \cup {k} /\ OpenIds' = OpenIds \cup {k}
          /\ Len(trades') = k
          /\ \A j \in D : trades'[j] = trades[j]
          /\ trades'[k].pnl = 0
        BY <1>7, OpenedRow
    <2>2. /\ \A j \in D : Pnl[j] \in Int /\ Pnl'[j] = Pnl[j]
          /\ Pnl'[k] = 0
        BY <1>3, <1>4, <2>1
    <2>3. \A j \in OpenIds' : trades'[j].pnl = 0
        BY <1>0, <1>1, <2>1
    <2>4. /\ nTrades' = nTrades /\ realized' = realized /\ slips' = slips
          /\ pc = "open" /\ pc' = "debit"
        BY <1>7 DEF OpenRow, account, faults
    <2>5. Len(trades') = Len(trades) + 1
        BY <2>1
    <2> HIDE DEF D, k
    <2>6. after = before + Pnl'[k]
        BY <1>3, <2>1, <2>2, SumExtends
    <2>7. after = before
        BY <1>0, <2>2, <2>6
    <2> HIDE DEF before, after
    <2>8. QED BY <1>0, <1>1, <1>2, <2>3, <2>4, <2>5, <2>7
<1>8. CASE Credit \/ Debit \/ Abort
    <2>1. OpenIds' = OpenIds /\ after = before /\ trades' = trades
        BY <1>8, SameTrades DEF Credit, Debit, Abort
    <2> HIDE DEF before, after
    <2>2. CASE Credit
        BY <1>0, <1>1, <1>2, <2>1, <2>2 DEF Credit, faults
    <2>3. CASE Debit
        BY <1>0, <1>1, <1>2, <2>1, <2>3 DEF Debit, faults
    <2>4. CASE Abort
        BY <1>0, <1>1, <1>2, <2>1, <2>4 DEF Abort, account
    <2>5. QED BY <1>8, <2>2, <2>3, <2>4
<1>9. QED BY <1>5, <1>6, <1>7, <1>8, MatchSame, Quiet

----------------------------------------------------------------------------

\* The inductive invariant of the trader: what it knows of the rows it is about to
\* visit, of the signals it has considered and of the operation it is writing, on top of
\* what it promises (paper.py, mark_and_settle and process_new_signals).
THEOREM Inductive == Spec => []IInv
<1>1. Init => IInv
    <2> SUFFICES ASSUME Init PROVE IInv
        OBVIOUS
    <2>1. DOMAIN trades = {} /\ OpenIds = {} /\ Len(trades) = 0 /\ Len(log) = 0
        BY DEF Init, OpenIds
    <2>2. SumFunctionOnSet(Pnl, DOMAIN trades) = 0
        BY <2>1, SumOverEmpty
    <2>3. TypeOK
        BY <2>1, MoneyAssumption DEF Init, TypeOK, MoneyAssumption
    <2>4. TaskInv /\ OnePositionPerToken /\ SignalInv
        BY <2>1 DEF Init, TaskInv, Opening, OnePositionPerToken, SignalInv
    <2>5. ConsideredInv
        BY DEF Init, ConsideredInv, NoSignalPassedOver, Reached, Opening
    <2>6. MatchInv
        BY <2>1, <2>2 DEF Init, MatchInv
    <2>7. QED BY <2>3, <2>4, <2>5, <2>6 DEF IInv
<1>2. IInv /\ [Next]_vars => IInv'
    BY TypeStep, TaskStep, PositionStep, SignalStep, ConsideredStep, MatchStep DEF IInv
<1>3. QED BY <1>1, <1>2, PTL DEF Spec

\* The account, the tables and the task keep their shape; in particular the cash is never
\* negative, whatever is cut short (paper.py:173-174, 214).
THEOREM TypeCorrect == Spec => []TypeOK
<1>1. IInv => TypeOK
    BY DEF IInv
<1>2. QED BY <1>1, Inductive, PTL

\* A signal is read in time, buys at most once as long as no pass is cut short, and never
\* buys a token already held (paper.py, process_new_signals and _try_open).
THEOREM TradesAreOnce == Spec => []TradesOnce
<1>1. IInv => TradesOnce
    BY DEF IInv, TradesOnce, SignalInv, OneTradePerSignal, ConsideredInv
<1>2. QED BY <1>1, Inductive, PTL

----------------------------------------------------------------------------

\* The abstract account counts its tokens as the trader counts its trades.
LEMMA LedgerCounts ==
    ASSUME NEW S
    PROVE  /\ Ledger!Cardinality(S) = Cardinality(S)
           /\ Ledger!IsFiniteSet(S) <=> IsFiniteSet(S)
<1>1. Ledger!Cardinality(S) = Cardinality(S)
    BY Zenon DEF Ledger!Cardinality, Cardinality
<1>2. Ledger!IsFiniteSet(S) <=> IsFiniteSet(S)
    BY Zenon DEF Ledger!IsFiniteSet, IsFiniteSet
<1>3. QED BY <1>1, <1>2

\* The cost of one more position.
LEMMA CostOfOneMore == \A n \in Int : PerTrade * (n + 1) = PerTrade * n + PerTrade
    BY MoneyAssumption DEF MoneyAssumption

\* Every step of the abstract account keeps its shape.
LEMMA LedgerTypeStep == Ledger!LedgerTypeOK /\ [Ledger!Next]_(Ledger!ledger) => Ledger!LedgerTypeOK'
<1> SUFFICES ASSUME Ledger!LedgerTypeOK, [Ledger!Next]_(Ledger!ledger)
             PROVE  Ledger!LedgerTypeOK'
    OBVIOUS
<1> USE MoneyAssumption DEF MoneyAssumption, Ledger!LedgerTypeOK
<1>1. ASSUME NEW t \in Token, Ledger!Open(t) PROVE Ledger!LedgerTypeOK'
    BY <1>1, LedgerCounts, FS_AddElement DEF Ledger!Open
<1>2. ASSUME NEW t \in Token, Ledger!Close(t) PROVE Ledger!LedgerTypeOK'
    BY <1>2, LedgerCounts, FS_RemoveElement DEF Ledger!Close
<1>3. CASE Ledger!SlipOpen
    BY <1>3 DEF Ledger!SlipOpen
<1>4. CASE Ledger!SlipClose
    BY <1>4 DEF Ledger!SlipClose
<1>5. CASE UNCHANGED Ledger!ledger
    BY <1>5 DEF Ledger!ledger
<1>6. QED BY <1>1, <1>2, <1>3, <1>4, <1>5 DEF Ledger!Next

\* Every step of the abstract account keeps it balanced.
LEMMA BalancedStep ==
    Ledger!LedgerTypeOK /\ Ledger!Balanced /\ [Ledger!Next]_(Ledger!ledger) => Ledger!Balanced'
<1> SUFFICES ASSUME Ledger!LedgerTypeOK, Ledger!Balanced, [Ledger!Next]_(Ledger!ledger)
             PROVE  Ledger!Balanced'
    OBVIOUS
<1> USE MoneyAssumption DEF MoneyAssumption, Ledger!LedgerTypeOK, Ledger!Balanced
<1> DEFINE n == Ledger!Cardinality(LedgerPositions)
<1>0. n \in Nat
    BY LedgerCounts, FS_CardinalityType
<1>1. ASSUME NEW t \in Token, Ledger!Open(t) PROVE Ledger!Balanced'
    <2>1. Ledger!Cardinality(LedgerPositions') = n + 1
        BY <1>1, LedgerCounts, FS_AddElement DEF Ledger!Open
    <2>2. PerTrade * Ledger!Cardinality(LedgerPositions') = PerTrade * n + PerTrade
        BY <1>0, <2>1, CostOfOneMore
    <2>3. PerTrade * n \in Int
        BY <1>0
    <2>4. QED BY <1>1, <2>2, <2>3 DEF Ledger!Open
<1>2. ASSUME NEW t \in Token, Ledger!Close(t) PROVE Ledger!Balanced'
    <2>1. Ledger!Cardinality(LedgerPositions') = n - 1 /\ n - 1 \in Int
        BY <1>0, <1>2, LedgerCounts, FS_RemoveElement DEF Ledger!Close
    <2>2. PerTrade * n = PerTrade * Ledger!Cardinality(LedgerPositions') + PerTrade
        BY <1>0, <2>1, CostOfOneMore
    <2>3. PerTrade * Ledger!Cardinality(LedgerPositions') \in Int
        BY <1>0, <2>1
    <2>4. QED BY <1>2, <2>2, <2>3 DEF Ledger!Close
<1>3. CASE Ledger!SlipOpen
    BY <1>3 DEF Ledger!SlipOpen
<1>4. CASE Ledger!SlipClose
    BY <1>4 DEF Ledger!SlipClose
<1>5. CASE UNCHANGED Ledger!ledger
    BY <1>5 DEF Ledger!ledger
<1>6. QED BY <1>1, <1>2, <1>3, <1>4, <1>5 DEF Ledger!Next

\* Money is conserved by the abstract account (paper.py:205-223, 254-262): every opening
\* moves its cost from the cash to a position, and every exit moves it back with the
\* result of the trade, as long as no operation is cut in half.
THEOREM MoneyConserved == Ledger!Spec => [](Ledger!LedgerTypeOK /\ Ledger!Balanced)
<1>1. Ledger!Init => Ledger!LedgerTypeOK /\ Ledger!Balanced
    BY MoneyAssumption, LedgerCounts, FS_EmptySet
       DEF MoneyAssumption, Ledger!Init, Ledger!LedgerTypeOK, Ledger!Balanced
<1>2. Ledger!LedgerTypeOK /\ Ledger!Balanced /\ [Ledger!Next]_(Ledger!ledger)
        => (Ledger!LedgerTypeOK /\ Ledger!Balanced)'
    BY LedgerTypeStep, BalancedStep
<1>3. QED BY <1>1, <1>2, PTL DEF Ledger!Spec

\* The abstract account of a trader that has just started is a new account.
LEMMA LedgerInit == Init => Ledger!Init
BY DEF Init, Ledger!Init, LedgerCash, LedgerRealized, LedgerPositions, OpenIds

\* Every step of the trader is a step of the abstract account, or leaves it alone: the
\* first statement of an opening or of an exit is the whole operation there, and a cut
\* between its two statements takes back what the second one would have written.
LEMMA LedgerStep ==
    TypeOK /\ TaskInv /\ OnePositionPerToken /\ [Next]_vars => [Ledger!Next]_(Ledger!ledger)
<1> SUFFICES ASSUME TypeOK, TaskInv, OnePositionPerToken, [Next]_vars
             PROVE  [Ledger!Next]_(Ledger!ledger)
    OBVIOUS
<1> USE DEF Ledger!ledger, LedgerCash, LedgerRealized, account, faults
<1>0. /\ cash \in Int /\ realized \in Int /\ proceeds \in Nat /\ PerTrade \in Int
      /\ OpenIds \subseteq DOMAIN trades
    BY OpenRows, MoneyAssumption DEF TypeOK, MoneyAssumption
<1>1. ASSUME NEW i \in OpenIds, HoldExpires(i) PROVE [Ledger!Next]_(Ledger!ledger)
    <2>1. LedgerPositions' = LedgerPositions
        BY <1>0, <1>1, ExpiredRow DEF LedgerPositions
    <2>2. QED BY <1>1, <2>1 DEF HoldExpires, task
<1>2. ASSUME NEW i \in todo, Closes(i) PROVE [Ledger!Next]_(Ledger!ledger)
    <2> DEFINE t == trades[i].token
    <2>1. i \in OpenIds /\ pc = "mark"
        BY <1>2 DEF Closes
    <2>2. PICK x \in Nat, status \in {"closed", "settled"} : CloseRow(i, status, x)
        BY <1>2 DEF Closes
    <2>3. OpenIds' = OpenIds \ {i} /\ \A j \in DOMAIN trades : trades'[j].token = trades[j].token
        BY <2>1, <2>2, ClosedRow
    <2>4. t \in LedgerPositions /\ LedgerPositions' = LedgerPositions \ {t}
        BY <1>0, <2>1, <2>3 DEF LedgerPositions, OnePositionPerToken
    <2>5. trades[i] \in Trade
        BY <1>0, <2>1, OpenRows, ElementOfSeq DEF TypeOK
    <2>6. t \in Token
        BY <2>5, TradeFields
    <2>7. /\ LedgerCash = cash /\ LedgerCash' = cash + x
          /\ LedgerRealized = realized /\ LedgerRealized' = realized + x - PerTrade
          /\ slips' = slips
        BY <2>1, <2>2 DEF CloseRow
    <2> HIDE DEF t
    <2>8. Ledger!Close(t)
        BY <1>0, <2>4, <2>7 DEF Ledger!Close
    <2>9. QED BY <2>6, <2>8 DEF Ledger!Next
<1>3. ASSUME NEW i \in todo, NEW n \in SharesBought, OpenRow(i, n)
      PROVE  [Ledger!Next]_(Ledger!ledger)
    <2> DEFINE k == Len(trades) + 1
               t == Held(log[i])
    <2>1. /\ OpenIds' = OpenIds \cup {k} /\ k \notin DOMAIN trades /\ t \in Token
          /\ \A j \in DOMAIN trades : trades'[j] = trades[j]
          /\ trades'[k].token = t
        BY <1>3, OpenedRow
    <2>2. \A j \in OpenIds : trades[j].token # t
        BY <1>3 DEF OpenRow, Tradable
    <2> HIDE DEF k, t
    <2>3. t \notin LedgerPositions /\ LedgerPositions' = LedgerPositions \cup {t}
        BY <1>0, <2>1, <2>2 DEF LedgerPositions
    <2>4. /\ LedgerCash = cash /\ LedgerCash' = cash - PerTrade /\ cash >= PerTrade
          /\ LedgerRealized' = LedgerRealized /\ slips' = slips
        BY <1>3 DEF OpenRow, Tradable
    <2>5. Ledger!Open(t)
        BY <2>3, <2>4 DEF Ledger!Open
    <2>6. QED BY <2>1, <2>5 DEF Ledger!Next
<1>4. trades' = trades => LedgerPositions' = LedgerPositions
    BY SameTrades DEF LedgerPositions
<1>5. CASE Credit
    BY <1>0, <1>4, <1>5 DEF Credit
<1>6. CASE Debit
    BY <1>0, <1>4, <1>6 DEF Debit
<1>7. CASE Abort /\ pc = "debit"
    <2>1. Ledger!SlipOpen
        BY <1>0, <1>4, <1>7 DEF Abort, Ledger!SlipOpen
    <2>2. QED BY <2>1 DEF Ledger!Next
<1>8. CASE Abort /\ pc = "credit"
    <2>1. Ledger!SlipClose
        BY <1>0, <1>4, <1>8 DEF Abort, Ledger!SlipClose
    <2>2. QED BY <2>1 DEF Ledger!Next
<1>9. CASE Abort /\ pc \notin {"debit", "credit"}
    <2>1. cash' = cash /\ realized' = realized /\ slips' = slips /\ pc' = "sleep"
        BY <1>9 DEF Abort, TaskInv
    <2>2. QED BY <1>4, <1>9, <2>1 DEF Abort
<1>10. CASE /\ trades' = trades /\ realized' = realized /\ cash' = cash
            /\ slips' = slips /\ proceeds' = proceeds
            /\ pc \in {"debit", "credit"} \/ pc' \in {"debit", "credit"} => pc' = pc
    BY <1>4, <1>10
<1>11. QED BY <1>1, <1>2, <1>3, <1>5, <1>6, <1>7, <1>8, <1>9, <1>10, Quiet

\* The trader implements the abstract account (paper.py:205-223, 254-262), aborts included.
THEOREM LedgerImplemented == Spec => ImplementsLedger
<1>1. IInv /\ [Next]_vars => [Ledger!Next]_(Ledger!ledger)
    BY LedgerStep DEF IInv
<1>2. QED BY LedgerInit, <1>1, Inductive, PTL DEF Spec, ImplementsLedger, Ledger!Spec

\* One position per token: the abstract account holds as many tokens as there are open
\* trades.
LEMMA PositionsCounted ==
    ASSUME TypeOK, OnePositionPerToken
    PROVE  Ledger!Cardinality(LedgerPositions) = Cardinality(OpenIds)
<1> DEFINE f == [i \in OpenIds |-> trades[i].token]
<1>1. f \in [OpenIds -> LedgerPositions] /\ \A i \in OpenIds : f[i] = trades[i].token
    BY DEF LedgerPositions
<1>2. f \in Injection(OpenIds, LedgerPositions)
    BY <1>1 DEF Injection, IsInjective, OnePositionPerToken
<1>3. f \in Surjection(OpenIds, LedgerPositions)
    BY <1>1 DEF Surjection, LedgerPositions
<1>4. ExistsBijection(OpenIds, LedgerPositions)
    BY <1>2, <1>3 DEF ExistsBijection, Bijection
<1>5. IsFiniteSet(OpenIds)
    BY OpenRows DEF TypeOK
<1>6. Cardinality(LedgerPositions) = Cardinality(OpenIds)
    BY <1>4, <1>5, FS_Bijection
<1>7. QED BY <1>6, LedgerCounts

\* The account row agrees with the table of trades in its count, its result and its cash,
\* whenever the task is asleep and no operation was cut in half (paper.py, _try_open and
\* _close). The cash is balanced because the abstract account is (MoneyConserved).
THEOREM MoneyIsAccounted == Spec => []MoneyAccounted
<1>1. IInv /\ Ledger!Balanced => MoneyAccounted
    <2> SUFFICES ASSUME IInv, Ledger!Balanced, slips = 0, pc = "sleep"
                 PROVE  /\ nTrades = Len(trades)
                        /\ realized = SumFunction([i \in DOMAIN trades |-> trades[i].pnl])
                        /\ cash + PerTrade * Cardinality(OpenIds) = Bankroll + realized
        BY DEF MoneyAccounted, AccountMatchesTrades, CashConserved
    <2>1. nTrades = Len(trades) /\ realized = SumFunctionOnSet(Pnl, DOMAIN trades)
        <3>1. Len(trades) - 0 = Len(trades) /\ \A s \in Int : s - 0 = s
            BY LenProperties DEF IInv, TypeOK
        <3>2. SumFunctionOnSet(Pnl, DOMAIN trades) \in Int
            BY PnlType DEF IInv
        <3>3. QED BY <3>1, <3>2 DEF IInv, MatchInv
    <2>2. SumFunction(Pnl) = SumFunctionOnSet(Pnl, DOMAIN trades)
        BY DEF SumFunction, Pnl
    <2>3. LedgerCash = cash /\ LedgerRealized = realized
        BY DEF LedgerCash, LedgerRealized
    <2>4. cash + PerTrade * Cardinality(OpenIds) = Bankroll + realized
        BY <2>3, PositionsCounted DEF Ledger!Balanced, IInv
    <2>5. QED BY <2>1, <2>2, <2>4 DEF Pnl
<1>2. QED BY <1>1, LedgerImplemented, MoneyConserved, Inductive, PTL DEF ImplementsLedger
============================================================================
