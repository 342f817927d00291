----------------------------- MODULE Execution -----------------------------
(***************************************************************************)
(* The execution task (pm/execution/task.py) with its risk manager         *)
(* (risk.py) and broker (broker.py): it takes signal events from its bus   *)
(* queue, decides on a plan, and turns each leg of an approved signal into *)
(* a row of execution_intents and an order at the broker.                  *)
(*                                                                         *)
(* The only await of the handler is the broker call, so other tasks of the *)
(* engine (scanner, reconciliation) run only while it waits for an event   *)
(* or for the broker (AtAwait).  The operator's files are read at one point *)
(* between two awaits, so a change at any other moment is the same as one  *)
(* at the await before or after it, and is made there.  Every              *)
(* SQL statement is autocommitted and is a step; an SQLite error, or a     *)
(* publish() that raises, ends the handler after any of them (Abort).      *)
(*                                                                         *)
(* Abstractions.  Prices and sizes are integers.  Of the two gates that    *)
(* read the positions table and of the one that reads recon_log only the   *)
(* values they compare are kept: nothing in the engine writes positions,   *)
(* only the playground script does.  Audit rows have no text.              *)
(***************************************************************************)
EXTENDS Integers, Sequences, FiniteSets, Functions

CONSTANTS
    Signal,           \* signals the scanners may log, research ones included
    Strategy,         \* Strategy[s]
    Group,            \* Group[s]: its NegRisk group, NoGroup if it has none
    NoGroup,          \* model value
    Partition,        \* the signals whose kind starts with "partition_"
    Sets,             \* Sets[s]: exec_sets, the size of every leg
    SignalLegs,       \* SignalLegs[s]: sequence of [token, side, price]
    Inventory,        \* positions.size of each token
    One,              \* a price of 1.0
    Configs,          \* the environments the engine may be started with
    MaxOrder, MaxSignal, MaxOpen, MaxLoss, MaxDrift, \* limits of RiskLimits
    Figures,          \* the [drift, pnl, open] triples the gates may read
    QueueSize,        \* bound of the task's queue
    MaxFaults         \* bound of the model: aborted handlers plus crashes

ASSUME ExecutionAssumption ==
    /\ Sets \in [Signal -> Nat]
    /\ DOMAIN SignalLegs = Signal
    /\ \A s \in Signal : SignalLegs[s] \in Seq([token : DOMAIN Inventory, side : STRING, price : Nat])
    /\ \A c \in Configs : DOMAIN c = {"enabled", "mode", "live", "hardGate",
                                      "strategies", "allowUnverified"}
    /\ MaxSignal \in Int
    /\ QueueSize \in Nat \ {0}
    /\ MaxFaults \in Nat

VARIABLES
    up,        \* the engine process runs
    cfg,       \* the settings it was started with
    verified,  \* verified_groups, read once when the task starts
    groupsFile, kill,  \* the operator's files: verified groups, KILL_SWITCH
    figures,   \* what recon_log and positions say: [drift, pnl, open]
    logged,    \* signal_log: the signals persisted so far
    sigq,      \* the task's queue
    phase, sig, leg,   \* where the handler is: its signal, the leg it is at
    intents,   \* the execution_intents table, in intent_id order
    audited,   \* risk_events: <<signal, leg>>, leg 0 being the whole plan
    orders,    \* the intents whose order the broker accepted, in order
    approved,  \* history: signals whose plan passed check_plan()
    faults     \* history: aborted handlers and crashes

process == <<up, cfg, verified>>
operator == <<groupsFile, kill>>
handler == <<phase, sig, leg>>
tables == <<intents, audited, orders, approved>>
vars == <<process, operator, figures, logged, sigq, handler, tables, faults>>

Groups == {Group[s] : s \in Signal} \ {NoGroup}
NoSignal == "none"

\* The await points of the engine: the other tasks run only there.
AtAwait == up /\ phase \in {"idle", "submit"}

\* intents_from_signal(): one intent per leg, none when the size is not positive.
Plan(s) == IF Sets[s] > 0 THEN SignalLegs[s] ELSE <<>>

Notional(s, l) == SignalLegs[s][l].price * Sets[s]

Total(s) == SumFunction([l \in DOMAIN Plan(s) |-> Notional(s, l)])

----------------------------------------------------------------------------
(***************************************************************************)
(* risk.py                                                                 *)
(***************************************************************************)

\* A bug for FailClosed to find: the master switch is not read.
PlanApprovedAlwaysEnabled(s) ==
    /\ ~kill
    /\ cfg.mode = "dry_run" \/ (cfg.mode = "live" /\ cfg.live /\ cfg.hardGate)
    /\ Plan(s) # <<>>
    /\ Total(s) <= MaxSignal
    /\ s \in Partition /\ ~cfg.allowUnverified => Group[s] \in verified
    /\ figures.drift <= MaxDrift
    /\ figures.pnl >= -MaxLoss
    /\ figures.open + Total(s) <= MaxOpen

\* check_plan(). The order of the gates only decides which refusal is reported.
PlanApproved(s) ==
    /\ cfg.enabled
    /\ ~kill
    /\ cfg.mode = "dry_run" \/ (cfg.mode = "live" /\ cfg.live /\ cfg.hardGate)
    /\ Plan(s) # <<>>
    /\ Total(s) <= MaxSignal
    /\ s \in Partition /\ ~cfg.allowUnverified => Group[s] \in verified
    /\ figures.drift <= MaxDrift
    /\ figures.pnl >= -MaxLoss
    /\ figures.open + Total(s) <= MaxOpen

\* check_intent(): side, price and size in range, the notional cap, no short sale.
LegApproved(s, l) ==
    LET i == SignalLegs[s][l]
    IN  /\ i.side \in {"BUY", "SELL"}
        /\ 0 < i.price /\ i.price < One
        /\ Sets[s] > 0
        /\ Notional(s, l) <= MaxOrder
        /\ i.side = "SELL" => Inventory[i.token] >= Sets[s]

----------------------------------------------------------------------------

Init ==
    /\ up = FALSE
    /\ cfg \in Configs
    /\ verified = {}
    /\ groupsFile \in SUBSET Groups
    /\ kill \in BOOLEAN
    /\ figures \in Figures
    /\ logged = {}
    /\ sigq = <<>>
    /\ phase = "idle"
    /\ sig = NoSignal
    /\ leg = 0
    /\ intents = <<>>
    /\ audited = {}
    /\ orders = <<>>
    /\ approved = {}
    /\ faults = 0

(***************************************************************************)
(* The process, the operator and the other tasks.                          *)
(***************************************************************************)

\* The service (re)starts the engine, with the environment file as it is now;
\* the task reads the verified groups and subscribes.
Start(c) ==
    /\ ~up
    /\ up' = TRUE
    /\ cfg' = c
    /\ verified' = groupsFile
    /\ UNCHANGED <<operator, figures, logged, sigq, handler, tables, faults>>

\* The process dies: what the task had in memory is gone.
Crash ==
    /\ up
    /\ faults < MaxFaults
    /\ faults' = faults + 1
    /\ up' = FALSE
    /\ sigq' = <<>>
    /\ phase' = "idle"
    /\ sig' = NoSignal
    /\ leg' = 0
    /\ UNCHANGED <<cfg, verified, operator, figures, logged, tables>>

ToggleKill ==
    /\ AtAwait \/ ~up
    /\ kill' = ~kill
    /\ UNCHANGED <<process, groupsFile, figures, logged, sigq, handler, tables, faults>>

EditGroups(gs) ==
    /\ AtAwait \/ ~up
    /\ groupsFile' = gs
    /\ UNCHANGED <<process, kill, figures, logged, sigq, handler, tables, faults>>

\* Reconciliation logs a diff or an old one ages out; the playground fills.
FiguresChange(f) ==
    /\ AtAwait
    /\ figures' = f
    /\ UNCHANGED <<process, operator, logged, sigq, handler, tables, faults>>

\* A bug for TypeOK to find: the queue has no bound.
LogSignalUnbounded(s) ==
    /\ AtAwait
    /\ s \notin logged
    /\ logged' = logged \cup {s}
    /\ sigq' = Append(sigq, s)
    /\ UNCHANGED <<process, operator, figures, handler, tables, faults>>

\* A scanner persists a signal, then publishes its event, which reaches the task's
\* queue unless that is full: then publish() raises and the event is lost.
LogSignal(s) ==
    /\ AtAwait
    /\ s \notin logged
    /\ logged' = logged \cup {s}
    /\ sigq' = IF Len(sigq) < QueueSize THEN Append(sigq, s) ELSE sigq
    /\ UNCHANGED <<process, operator, figures, handler, tables, faults>>

(***************************************************************************)
(* _handle_signal_event()                                                  *)
(***************************************************************************)

Take(s) == up /\ phase = "idle" /\ sigq # <<>> /\ s = Head(sigq) /\ sigq' = Tail(sigq)

\* A bug for EventsHandled to find: the event stays at the head of the queue.
IgnoreLeavesEvent(s) ==
    /\ up
    /\ phase = "idle"
    /\ sigq # <<>>
    /\ s = Head(sigq)
    /\ Strategy[s] \notin cfg.strategies
    /\ UNCHANGED vars

\* A strategy that is not allowed to execute leaves no trace.
Ignore(s) ==
    /\ Take(s)
    /\ Strategy[s] \notin cfg.strategies
    /\ UNCHANGED <<process, operator, figures, logged, handler, tables, faults>>

RefusePlan(s) ==
    /\ Take(s)
    /\ Strategy[s] \in cfg.strategies
    /\ ~PlanApproved(s)
    /\ phase' = "refused"
    /\ sig' = s
    /\ leg' = 0
    /\ UNCHANGED <<process, operator, figures, logged, tables, faults>>

ApprovePlan(s) ==
    /\ Take(s)
    /\ Strategy[s] \in cfg.strategies
    /\ PlanApproved(s)
    /\ approved' = approved \cup {s}
    /\ phase' = "check"
    /\ sig' = s
    /\ leg' = 1
    /\ UNCHANGED <<process, operator, figures, logged, intents, audited, orders, faults>>

Done == phase' = "idle" /\ sig' = NoSignal /\ leg' = 0

\* A bug for PlansCarriedOut to find: the last leg is forgotten.
AdvanceEarly ==
    IF leg # 0 /\ leg + 1 < Len(Plan(sig))
    THEN phase' = "check" /\ leg' = leg + 1 /\ UNCHANGED sig
    ELSE Done

\* On to the next leg of the plan, or back to waiting for events.
Advance ==
    IF leg # 0 /\ leg < Len(Plan(sig))
    THEN phase' = "check" /\ leg' = leg + 1 /\ UNCHANGED sig
    ELSE Done

\* The row written before the broker is called (record_execution_intent).
Record(status) == intents' = Append(intents, [sig |-> sig, leg |-> leg, status |-> status])

PlanLeg ==
    /\ phase = "check"
    /\ LegApproved(sig, leg)
    /\ Record("planned")
    /\ phase' = "submit"
    /\ UNCHANGED <<process, operator, figures, logged, sigq, sig, leg, audited, orders,
                   approved, faults>>

RejectLeg ==
    /\ phase = "check"
    /\ ~LegApproved(sig, leg)
    /\ Record("rejected")
    /\ phase' = "refused"
    /\ UNCHANGED <<process, operator, figures, logged, sigq, sig, leg, audited, orders,
                   approved, faults>>

\* log_risk_event() and the rejection event, for a plan (leg 0) or for a leg.
AuditRefusal ==
    /\ phase = "refused"
    /\ audited' = audited \cup {<<sig, leg>>}
    /\ Advance
    /\ UNCHANGED <<process, operator, figures, logged, sigq, intents, orders, approved, faults>>

\* The row of the leg in hand: the last one, the task being the only writer.
Current == Len(intents)

\* The broker answers: the dry-run broker accepts, any other mode has the broker
\* that refuses everything.
BrokerAnswers ==
    /\ phase = "submit"
    /\ orders' = IF cfg.mode = "dry_run" THEN Append(orders, Current) ELSE orders
    /\ phase' = "receipt"
    /\ UNCHANGED <<process, operator, figures, logged, sigq, sig, leg, intents, audited,
                   approved, faults>>

\* A bug for ImplementsOrderLife to find: the answer of the broker is not looked at.
AcknowledgeAlwaysSubmitted ==
    /\ phase = "receipt"
    /\ intents' = [intents EXCEPT ![Current].status = "submitted"]
    /\ Advance
    /\ UNCHANGED <<process, operator, figures, logged, sigq, audited, orders, approved, faults>>

\* update_execution_intent() and the event published after it.
Acknowledge ==
    /\ phase = "receipt"
    /\ intents' = [intents EXCEPT ![Current].status =
                      IF cfg.mode = "dry_run" THEN "submitted" ELSE "failed"]
    /\ Advance
    /\ UNCHANGED <<process, operator, figures, logged, sigq, audited, orders, approved, faults>>

\* A bug for OneOrderPerLeg to find: a failed event is put back into the queue.
AbortRetries ==
    /\ phase \in {"check", "refused", "receipt"}
    /\ faults < MaxFaults
    /\ faults' = faults + 1
    /\ sigq' = <<sig>> \o sigq
    /\ Done
    /\ UNCHANGED <<process, operator, figures, logged, tables>>

\* An exception: logged by the task, which drops the event and goes on with the next.
Abort ==
    /\ phase \in {"check", "refused", "receipt"}
    /\ faults < MaxFaults
    /\ faults' = faults + 1
    /\ Done
    /\ UNCHANGED <<process, operator, figures, logged, sigq, tables>>

\* The same, raised by get_signal() or by one of the queries of check_plan().
AbortPlan(s) ==
    /\ Take(s)
    /\ Strategy[s] \in cfg.strategies
    /\ faults < MaxFaults
    /\ faults' = faults + 1
    /\ UNCHANGED <<process, operator, figures, logged, handler, tables>>

----------------------------------------------------------------------------

Handle ==
    \/ \E s \in Signal : Ignore(s) \/ RefusePlan(s) \/ ApprovePlan(s)
    \/ PlanLeg \/ RejectLeg \/ AuditRefusal \/ BrokerAnswers \/ Acknowledge

Outside ==
    \/ ToggleKill
    \/ \E gs \in SUBSET Groups : EditGroups(gs)
    \/ \E f \in Figures : FiguresChange(f)
    \/ \E s \in Signal : LogSignal(s)

Restart == \E c \in Configs : Start(c)

Next ==
    \/ Handle \/ Outside \/ Restart
    \/ Crash \/ Abort
    \/ \E s \in Signal : AbortPlan(s)

Spec == Init /\ [][Next]_vars

\* The event loop runs the task whenever it can move, and the service manager restarts
\* the engine (Restart=on-failure). Faults and the outside world are not forced.
FairSpec == Spec /\ WF_vars(Handle) /\ WF_vars(Restart)

----------------------------------------------------------------------------

\* A row of execution_intents.
Row == [sig : Signal, leg : Nat \ {0}, status : {"planned", "rejected", "submitted", "failed"}]

\* The shape of the tables and of the handler; the handler is at a leg of its plan.
TypeOK ==
    /\ up \in BOOLEAN
    /\ cfg \in Configs
    /\ verified \in SUBSET Groups
    /\ groupsFile \in SUBSET Groups
    /\ kill \in BOOLEAN
    /\ figures \in Figures
    /\ logged \in SUBSET Signal
    /\ sigq \in Seq(Signal)
    /\ Len(sigq) <= QueueSize
    /\ phase \in {"idle", "refused", "check", "submit", "receipt"}
    /\ sig \in Signal \cup {NoSignal}
    /\ leg \in Nat
    /\ phase \in {"check", "submit", "receipt"} => leg \in DOMAIN SignalLegs[sig]
    /\ intents \in Seq(Row)
    /\ audited \in SUBSET (Signal \X Nat)
    /\ orders \in Seq(Nat \ {0})
    /\ approved \in SUBSET Signal
    /\ faults \in Nat

\* risk.py:3-11, the module's contract: nothing reaches the broker unless execution is
\* enabled and the mode is dry_run, whatever the operator, the environment file, the
\* crashes and the restarts do; the mode of the plan is that of its orders.
FailClosed == [][orders' # orders => cfg.enabled /\ cfg.mode = "dry_run"]_vars

\* A live plan is never even recorded unless all the gates of risk.py:4-8 are open.
LiveGated ==
    [][Len(intents') > Len(intents) /\ cfg.mode # "dry_run"
        => cfg.enabled /\ cfg.mode = "live" /\ cfg.live /\ cfg.hardGate]_vars

\* Whatever environments, restarts and aborts follow each other, no order or live intent
\* gets past a closed gate (risk.py, check_plan; broker.py).
GatesHold == FailClosed /\ LiveGated

OrderOf(o) == <<intents[o].sig, intents[o].leg>>

\* An order is never placed twice: not by a retry of an aborted handler, not after a
\* crash that left its intent "planned", and never without a row written beforehand.
OneOrderPerLeg ==
    /\ \A i \in DOMAIN orders : orders[i] \in DOMAIN intents
    /\ \A i, j \in DOMAIN orders : OrderOf(orders[i]) = OrderOf(orders[j]) => i = j

\* The caps hold for what the broker has, over the whole life of a signal: each order is
\* within max_order_notional, and those of one signal together within max_signal_notional.
OrdersOf(s) == {i \in DOMAIN orders : intents[orders[i]].sig = s}

NotionalCapped ==
    \A s \in Signal :
        /\ \A i \in OrdersOf(s) : Notional(s, intents[orders[i]].leg) <= MaxOrder
        /\ OrdersOf(s) # {} =>
             SumFunction([i \in OrdersOf(s) |-> Notional(s, intents[orders[i]].leg)]) <= MaxSignal

\* Without a fault, an approved plan is carried out to its last leg: no arbitrage is left
\* with some of its legs only, unless the risk manager rejected the others one by one.
RowsOf(s) == {i \in DOMAIN intents : intents[i].sig = s}

PlansCarriedOut ==
    faults = 0 => \A s \in approved :
        sig = s \/ {intents[i].leg : i \in RowsOf(s)} = DOMAIN Plan(s)

\* The gaps of the record are as many as the faults: an intent left "planned" that nobody
\* works on, or a rejected one without its risk event, is the trace of one fault.
InHand(i) == phase \in {"refused", "submit", "receipt"} /\ leg # 0 /\ i = Current

Gaps ==
    {i \in DOMAIN intents : ~InHand(i) /\
        \/ intents[i].status = "planned"
        \/ intents[i].status = "rejected" /\ OrderOf(i) \notin audited}

GapsAreFaults == Cardinality(Gaps) <= faults

\* What becomes of an approved plan: it stays within the caps of a signal and of an order,
\* is carried out to its last leg unless a fault cuts it, and each fault leaves one trace
\* in the tables at most (task.py, _handle_signal_event; risk.py, check_plan).
PlansAccounted == NotionalCapped /\ PlansCarriedOut /\ GapsAreFaults

\* No event stays in the queue for ever: it is taken up, or a crash empties the queue
\* (task.py:34-46).
InQueue(s) == \E i \in DOMAIN sigq : sigq[i] = s
QueueDrains == \A s \in Signal : ~<>[]InQueue(s)

\* Until a fault occurs, an event in the queue ends as an approved plan or as a refusal
\* on record, unless its strategy may not execute (task.py:67-90).
Decided(s) ==
    \/ s \in approved \/ <<s, 0>> \in audited
    \/ Strategy[s] \notin cfg.strategies
    \/ faults > 0
EventsSettle == \A s \in Signal : InQueue(s) ~> Decided(s)

\* Every plan that is begun comes to an end (task.py:81-109).
HandlerReturns == []<>(phase = "idle")

\* The task never stops working its queue off: every event leaves it, by being taken up
\* or by a crash (which loses it: the queue is in memory), without a fault it is also
\* decided upon, and every plan that is begun comes to an end, whatever the crashes, the
\* restarts and the exceptions.
EventsHandled == QueueDrains /\ EventsSettle /\ HandlerReturns

(***************************************************************************)
(* The rows and the broker implement OrderLife.                            *)
(***************************************************************************)
Order == UNION {{s} \X DOMAIN Plan(s) : s \in Signal}

\* Where the order of a row stands.
RowStatus(i) ==
    IF intents[i].status = "planned" /\ \E k \in DOMAIN orders : orders[k] = i
    THEN "atBroker" ELSE intents[i].status

Life ==
    [o \in Order |->
        LET rows == {i \in DOMAIN intents : OrderOf(i) = o}
        IN  IF rows = {} THEN "none" ELSE RowStatus(CHOOSE i \in rows : TRUE)]

Lives == INSTANCE OrderLife WITH life <- Life

\* Every step of the task, of a crash or of a restart is a step of the life of one order
\* of one signal, or changes no order.
ImplementsOrderLife == Lives!Spec

\* STRATEGY_BRIEF.md:223-225: the kill switch "can be dropped on the server at any time
\* to refuse all trades", so no order should be planned while the file is there. The
\* code looks at it once per plan, the later legs of the plan in hand go out.
KillSwitchRefusesTrades ==
    [][\A i \in DOMAIN intents' \ DOMAIN intents : intents'[i].status = "planned" => ~kill]_vars
============================================================================
