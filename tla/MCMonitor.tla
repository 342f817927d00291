------------------------------ MODULE MCMonitor ------------------------------
(***************************************************************************)
(* A small instance of Monitor for TLC: the engine and one of its tasks,   *)
(* a market with two texts of its rules, a lost message, a failed pass and *)
(* a restart.                                                              *)
(***************************************************************************)
EXTENDS Monitor
=============================================================================
