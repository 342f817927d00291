----------------------------- MODULE OrderLife -----------------------------
(***************************************************************************)
(* What the execution pipeline (pm/execution) promises about the orders of *)
(* a signal.  A signal is a list of legs, and each leg becomes at most one *)
(* order, which only moves forward:                                        *)
(*                                                                         *)
(*     none -> rejected                                                    *)
(*     none -> planned -> atBroker -> submitted                            *)
(*             planned -> failed                                           *)
(*                                                                         *)
(* The legs of a signal are taken in order: one is planned or rejected     *)
(* only when those before it are over.  Nothing is said of when: an order  *)
(* may stay planned, or at the broker and unacknowledged, for ever.        *)
(***************************************************************************)
EXTENDS Naturals

CONSTANT Order   \* <<signal, leg>>, for every leg of every signal

VARIABLE life

Over == {"rejected", "submitted", "failed"}

Init == life = [o \in Order |-> "none"]

\* The earlier legs of the same signal are over.
Turn(o) == \A p \in Order : p[1] = o[1] /\ p[2] < o[2] => life[p] \in Over

Move(o, from, to) ==
    /\ life[o] = from
    /\ life' = [life EXCEPT ![o] = to]

Plan(o) == Move(o, "none", "planned") /\ Turn(o)
Reject(o) == Move(o, "none", "rejected") /\ Turn(o)
Accept(o) == Move(o, "planned", "atBroker")
Acknowledge(o) == Move(o, "atBroker", "submitted")
Fail(o) == Move(o, "planned", "failed")

Next == \E o \in Order : Plan(o) \/ Reject(o) \/ Accept(o) \/ Acknowledge(o) \/ Fail(o)

Spec == Init /\ [][Next]_life
============================================================================
