------------------------------- MODULE MCBus -------------------------------
(***************************************************************************)
(* The three consumers of the engine on small queues: the event logger on  *)
(* every topic (event_logger.py:33), the scanner on market data and system *)
(* events (scan_task.py:149), the execution task on signals (task.py:29).  *)
(***************************************************************************)
EXTENDS Bus, TLC

CONSTANTS logger, scan, execution

MCInterest ==
    (logger :> {"book", "signal", "system"})
        @@ (scan :> {"book", "system"})
        @@ (execution :> {"signal"})
============================================================================
