--------------------------- MODULE MCPaperTrader ---------------------------
(***************************************************************************)
(* One market, two tokens: a BUY view and a SELL view of the same token    *)
(* (which buys the other one), and a signal the trader does not follow,    *)
(* without a usable leg.  Books are two-sided, without an ask, or stale.   *)
(***************************************************************************)
EXTENDS PaperTrader

CONSTANT m1

View(side, followed) == [leg |-> <<m1, "yes">>, side |-> side, followed |-> followed]

MCSignals == {View("BUY", TRUE), View("SELL", TRUE), View("none", FALSE)}

MCBooks == {{}, {"bid"}, {"ask", "bid"}}
============================================================================
