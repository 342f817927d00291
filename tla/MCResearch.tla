----------------------------- MODULE MCResearch -----------------------------
(***************************************************************************)
(* A small instance of Research for TLC: a group of two markets, the       *)
(* second of which shares no token with the first.                         *)
(***************************************************************************)
EXTENDS Research

MCYes == [m1 |-> "y1", m2 |-> "y2"]
MCNo == [m1 |-> "n1", m2 |-> "n2"]
MCGroupOf == [m1 |-> "g", m2 |-> "g"]
MCHigh == [bid |-> 93, ask |-> 97, bidSize |-> 18, askSize |-> 2]
MCThin == [bid |-> 76, ask |-> 96, bidSize |-> 4, askSize |-> 1]
MCQuotesOf == [y1 |-> {MCHigh, MCThin, NoQuote}, n1 |-> {MCThin}, y2 |-> {MCHigh}, n2 |-> {}]
MCEntriesOf == [t \in DOMAIN MCQuotesOf |-> IF t = "y2" THEN {MCThin} ELSE {}]
MCFee == [m \in {172, 190} |-> 1]
MCMicro == [window |-> 2, min |-> 2, ofi |-> 60, maxSpread |-> 5, spreadMult |-> 1,
            depthDrop |-> 50, tradeFloor |-> 2, debounce |-> 1]
MCRv == [window |-> 2, min |-> 2, zSquared |-> 0, minDev |-> 4, debounce |-> 1]
MCMom == [window |-> 2, min |-> 2, zSquared |-> 1, minDrift |-> 2, low |-> 10, high |-> 190,
          bounce |-> 2, debounce |-> 1]
=============================================================================
