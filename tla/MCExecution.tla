---------------------------- MODULE MCExecution ----------------------------
(***************************************************************************)
(* Three signals: a complement arbitrage of two buys, a partition of a     *)
(* NegRisk group with a sell nobody holds and a leg above the order cap,   *)
(* and a research signal that only a wrong allowlist lets through.         *)
(***************************************************************************)
EXTENDS Execution, TLC

CONSTANTS arb, part, study, g1

MCSignal == {arb, part, study}

Leg(side, price) == [token |-> "t", side |-> side, price |-> price]

MCStrategy == (arb :> "struct_arb") @@ (part :> "struct_arb") @@ (study :> "news")
MCGroup == (arb :> NoGroup) @@ (part :> g1) @@ (study :> NoGroup)
MCSets == (arb :> 2) @@ (part :> 1) @@ (study :> 0)
MCLegs ==
    (arb :> <<Leg("BUY", 2), Leg("BUY", 2)>>)
        @@ (part :> <<Leg("BUY", 1), Leg("SELL", 1), Leg("BUY", 5)>>)
        @@ (study :> <<Leg("BUY", 2)>>)
MCInventory == [t \in {"t"} |-> 0]

Environment(enabled, mode, hardGate, strategies) ==
    [enabled |-> enabled, mode |-> mode, live |-> TRUE, hardGate |-> hardGate,
     strategies |-> strategies, allowUnverified |-> FALSE]

\* Disabled, dry run with a wrong allowlist, live as shipped, live with the gate open.
MCConfigs ==
    {Environment(FALSE, "dry_run", FALSE, {"struct_arb"}),
     Environment(TRUE, "dry_run", FALSE, {"struct_arb", "news"}),
     Environment(TRUE, "live", FALSE, {"struct_arb"}),
     Environment(TRUE, "live", TRUE, {"struct_arb"})}

Figure(drift, pnl, open) == [drift |-> drift, pnl |-> pnl, open |-> open]

\* All gates open, a drifting feed, losses on an account with open positions.
MCFigures == {Figure(0, 0, 0), Figure(2, 0, 0), Figure(0, -2, 4)}
============================================================================
