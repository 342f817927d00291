------------------------------ MODULE MCLabels ------------------------------
(***************************************************************************)
(* A small instance of Labels for TLC: two markets, the first with a rate  *)
(* of 30 samples and the second with a prior only; an arbitrage row has    *)
(* both tokens as legs.                                                    *)
(***************************************************************************)
EXTENDS Labels

MCMarkets == <<"m1", "m2">>
MCTokenYes == [m1 |-> "t1", m2 |-> "t2"]
MCCategory == [m1 |-> "crypto", m2 |-> AnyCategory]
MCEndsAt == [m1 |-> 9, m2 |-> 3]
MCRates ==
    << [p |-> 73, n |-> 30, category |-> "crypto", questions |-> {"m1"}],
       [p |-> 27, n |-> 0, category |-> AnyCategory, questions |-> {"m1", "m2"}] >>
MCWeight == [n \in {0, 30} |-> IF n = 0 THEN 0 ELSE 100]
MCPercent == {12, 27, 50, 73, 88}
MCLogit == [p \in MCPercent |->
    CASE p = 12 -> -20 [] p = 27 -> -10 [] p = 50 -> 0 [] p = 73 -> 10 [] p = 88 -> 20]
MCSigmoid == [l \in -20 .. 20 |->
    CASE l < -15 -> 12 [] l \in -15 .. -6 -> 27 [] l \in -5 .. 5 -> 50
      [] l \in 6 .. 15 -> 73 [] l > 15 -> 88]
MCAnswers == {[p |-> 27, weight |-> 100]}
MCOtherLegs == { << [token |-> "t1", side |-> "SELL", price |-> 50],
                    [token |-> "t2", side |-> "BUY", price |-> 50] >> }
=============================================================================
