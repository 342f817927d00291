------------------------------- MODULE MCScan -------------------------------
(***************************************************************************)
(* A small instance of Scan for TLC: two markets that form a group, the    *)
(* second without a book for its no token.  The article is about both, and *)
(* more about the second.  Cheap quotes make a complement and a partition  *)
(* to buy, rich ones a partition to sell.                                  *)
(***************************************************************************)
EXTENDS Scan

MCYes == [m1 |-> "y1", m2 |-> "y2"]
MCNo == [m1 |-> "n1", m2 |-> "n2"]
MCGroupOf == [m1 |-> "g", m2 |-> "g"]
MCQuotes == {[bid |-> 35, ask |-> 40, size |-> 10], [bid |-> 60, ask |-> 70, size |-> 10]}
MCFee == [p \in {35, 40, 60, 70} |-> 1]
MCIds == <<"m1", "m2">>
MCQuestion == [m1 |-> {"fed", "rates"}, m2 |-> {"fed", "rates", "june"}]
MCArticles == {[words |-> {"fed", "rates", "june"}, good |-> 1, bad |-> 0]}
MCDebounce ==
    [kind \in {"complement", "buy_all", "sell_all", "news", "whale"} |-> 1]
=============================================================================
