------------------------------- MODULE MCNews -------------------------------
(***************************************************************************)
(* A small instance of News for TLC: a feed with three articles, one more  *)
(* than its bucket holds, and a feed without, either of which may raise,   *)
(* before a feed with one article.  The first two are asked as often as    *)
(* they may be without starving the third.                                 *)
(***************************************************************************)
EXTENDS News, TLC

MCFeeds == <<"first", "second", "third">>
MCFeedOf == [a1 |-> "first", a2 |-> "first", a3 |-> "first", c1 |-> "third"]
MCArticle == DOMAIN MCFeedOf
MCPollS == [f \in {"first", "second"} |-> 5] @@ [f \in {"third"} |-> 1]
=============================================================================
