---------------------------- MODULE PaperLedger ----------------------------
(***************************************************************************)
(* What the paper-trading account of pm/execution/paper.py promises: a     *)
(* bankroll that is spent PerTrade at a time on positions, at most one per *)
(* token, and gets the proceeds back when a position is closed.  Opening   *)
(* and closing are atomic here; the trader writes each of them with two    *)
(* autocommitted statements.  A slip is what remains of an operation whose *)
(* second statement was never executed.                                    *)
(***************************************************************************)
EXTENDS PaperMoney, FiniteSets

CONSTANT Token   \* outcome tokens that can be held

VARIABLES
    cash,       \* money not invested
    realized,   \* profit and loss of the closed positions
    positions,  \* tokens held
    slips       \* number of operations cut in half

ledger == <<cash, realized, positions, slips>>

Init ==
    /\ cash = Bankroll
    /\ realized = 0
    /\ positions = {}
    /\ slips = 0

Open(t) ==
    /\ t \notin positions
    /\ cash >= PerTrade
    /\ cash' = cash - PerTrade
    /\ positions' = positions \cup {t}
    /\ UNCHANGED <<realized, slips>>

\* An exit brings some proceeds, its fee deducted.
Close(t) ==
    /\ t \in positions
    /\ cash' \in Int /\ cash' >= cash
    /\ realized' = realized + (cash' - cash) - PerTrade
    /\ positions' = positions \ {t}
    /\ UNCHANGED slips

\* A position that was never paid for.
SlipOpen ==
    /\ cash' = cash + PerTrade
    /\ slips' = slips + 1
    /\ UNCHANGED <<realized, positions>>

\* An exit whose proceeds were never credited.
SlipClose ==
    /\ cash' \in Int /\ cash' <= cash
    /\ realized' = realized - (cash - cash') + PerTrade
    /\ slips' = slips + 1
    /\ UNCHANGED positions

Next ==
    \/ \E t \in Token : Open(t) \/ Close(t)
    \/ SlipOpen
    \/ SlipClose

Spec == Init /\ [][Next]_ledger

----------------------------------------------------------------------------

LedgerTypeOK ==
    /\ cash \in Int
    /\ realized \in Int
    /\ positions \in SUBSET Token
    /\ IsFiniteSet(positions)
    /\ slips \in Nat

\* Money is neither made nor lost by bookkeeping: as long as no operation was cut in
\* half, cash plus the cost of what is held is the bankroll plus the realised result.
Balanced == slips = 0 => cash + PerTrade * Cardinality(positions) = Bankroll + realized
============================================================================
