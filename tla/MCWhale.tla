------------------------------ MODULE MCWhale ------------------------------
(***************************************************************************)
(* Small instances of Whale for TLC: blocks with a large trade between two *)
(* wallets or a mint, in one token or in either of two.                    *)
(***************************************************************************)
EXTENDS Whale

CONSTANTS w1, w2, t1, t2

Trade(a, b, t) == [from |-> a, to |-> b, token |-> t, big |-> TRUE]

\* A large trade between the wallets, and a mint, which discovery leaves out.
MCBlocks == {{Trade(w1, w2, t1)}, {Trade(Zero, w1, t1)}}

\* A large trade in either of two tokens.
MCTwoTokens == {{Trade(w1, w2, t1)}, {Trade(w1, w2, t2)}}

\* Discovery with one wallet followed from the start; neither discovery nor wallets.
MCSetups == {[follow |-> {w1}, discovery |-> TRUE], [follow |-> {}, discovery |-> FALSE]}
=============================================================================
