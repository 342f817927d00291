----------------------------- MODULE PaperMoney -----------------------------
(***************************************************************************)
(* The amounts that the paper trader and its abstract account share        *)
(* (settings paper_bankroll and paper_per_trade).                          *)
(***************************************************************************)
EXTENDS Integers

CONSTANTS
    Bankroll,     \* initial cash
    PerTrade      \* cost of every position, entry fee included

ASSUME MoneyAssumption ==
    /\ Bankroll \in Nat
    /\ PerTrade \in Nat \ {0}
============================================================================
