---------------------------- MODULE MCMarketSync ----------------------------
(***************************************************************************)
(* A small instance of MarketSync for TLC: a partition of two markets and  *)
(* an event of one; or a partition of three, one of them without tokens.   *)
(***************************************************************************)
EXTENDS MarketSync, TLC

CONSTANTS e1, e2, m1, m2, m3

MCEventOf == m1 :> e1 @@ m2 :> e1 @@ m3 :> e2
MCMarketsOf == e1 :> <<m1, m2>> @@ e2 :> <<m3>>
MCLiquidity == m1 :> 3 @@ m2 :> 2 @@ m3 :> 1
=============================================================================
