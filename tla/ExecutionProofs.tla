-------------------------- MODULE ExecutionProofs --------------------------
(***************************************************************************)
(* Theorems about the execution task, for any set of signals, any legs,    *)
(* environments and limits, and any number of faults and restarts.         *)
(*                                                                         *)
(* No order is placed twice although nothing in the code looks a signal up *)
(* before it records an intent: a signal is logged once, so it is at one   *)
(* place at a time (the queue, the handler, or the rows), and within a     *)
(* plan the leg number only grows.  IInv says this.                        *)
(***************************************************************************)
EXTENDS Execution, SumProofs

\* The row the handler is working on is the last one, and it is of its leg.
RowInHand(status) ==
    /\ Len(intents) > 0
    /\ intents[Len(intents)].sig = sig
    /\ intents[Len(intents)].leg = leg
    /\ intents[Len(intents)].status = status

\* Where the handler can be: at a leg of a plan that passed the gates of the settings
\* the engine runs with.
Gated == cfg.enabled /\ (cfg.mode = "dry_run" \/ (cfg.mode = "live" /\ cfg.live /\ cfg.hardGate))

HandlerInv ==
    /\ ~up => phase = "idle"
    /\ phase = "idle" => leg = 0
    /\ phase # "idle" => sig \in Signal /\ sig \in logged
    /\ phase \in {"check", "submit", "receipt"} => leg # 0
    /\ leg # 0 => leg \in DOMAIN Plan(sig) /\ Gated
    /\ phase \in {"submit", "receipt"} => RowInHand("planned")
    /\ phase = "refused" /\ leg # 0 => RowInHand("rejected")

\* A signal is at one place at a time.
PlaceInv ==
    /\ \A i, j \in DOMAIN sigq : sigq[i] = sigq[j] => i = j
    /\ \A i \in DOMAIN sigq :
        /\ sigq[i] \in logged
        /\ phase # "idle" => sigq[i] # sig
        /\ \A k \in DOMAIN intents : intents[k].sig # sigq[i]
    /\ \A k \in DOMAIN intents : intents[k].sig \in logged

\* The rows of the signal in hand are of earlier legs, but for the row in hand.
RowsInv ==
    /\ phase = "check" => \A k \in DOMAIN intents : intents[k].sig = sig => intents[k].leg < leg
    /\ phase = "refused" /\ leg = 0 => \A k \in DOMAIN intents : intents[k].sig # sig
    /\ phase \in {"submit", "receipt", "refused"} =>
        \A k \in DOMAIN intents : k < Len(intents) /\ intents[k].sig = sig => intents[k].leg < leg
    /\ \A k, l \in DOMAIN intents :
        intents[k].sig = intents[l].sig /\ intents[k].leg = intents[l].leg => k = l

\* An order has a row, and a row has one order at most.
OrdersInv ==
    /\ \A i \in DOMAIN orders : orders[i] \in DOMAIN intents
    /\ \A i, j \in DOMAIN orders : orders[i] = orders[j] => i = j
    /\ phase = "submit" => \A i \in DOMAIN orders : orders[i] # Len(intents)

IInv == TypeOK /\ HandlerInv /\ PlaceInv /\ RowsInv /\ OrdersInv

----------------------------------------------------------------------------

\* The plan of a signal is a finite sequence, of the signal's legs if it is not empty.
LEMMA PlanLegs ==
    ASSUME NEW s \in Signal
    PROVE  /\ Len(Plan(s)) \in Nat
           /\ DOMAIN Plan(s) = 1 .. Len(Plan(s))
           /\ DOMAIN Plan(s) \subseteq DOMAIN SignalLegs[s]
           /\ Plan(s) # <<>> => 1 \in DOMAIN Plan(s)
<1> DEFINE Leg == [token : DOMAIN Inventory, side : STRING, price : Nat]
<1>1. Plan(s) \in Seq(Leg)
    <2>1. SignalLegs[s] \in Seq(Leg)
        BY ExecutionAssumption DEF ExecutionAssumption
    <2> HIDE DEF Leg
    <2>2. QED BY <2>1 DEF Plan
<1> HIDE DEF Leg
<1>2. DOMAIN Plan(s) \subseteq DOMAIN SignalLegs[s]
    BY ExecutionAssumption DEF Plan, ExecutionAssumption
<1>3. QED BY <1>1, <1>2

\* Advance goes to the next leg of the plan, which exists, or ends the handler.
LEMMA AdvanceCases ==
    ASSUME TypeOK, HandlerInv, phase # "idle", Advance
    PROVE  \/ /\ leg # 0
              /\ phase' = "check" /\ sig' = sig /\ leg' = leg + 1
              /\ leg + 1 \in DOMAIN Plan(sig)
           \/ phase' = "idle" /\ sig' = NoSignal /\ leg' = 0
<1>1. sig \in Signal /\ leg \in Nat
    BY DEF TypeOK, HandlerInv
<1>2. CASE leg # 0 /\ leg < Len(Plan(sig))
    <2>1. leg + 1 \in DOMAIN Plan(sig)
        BY <1>1, <1>2, PlanLegs
    <2>2. QED BY <1>2, <2>1 DEF Advance
<1>3. CASE ~(leg # 0 /\ leg < Len(Plan(sig)))
    BY <1>3 DEF Advance, Done
<1>4. QED BY <1>2, <1>3

\* The bound of the queue is positive.
LEMMA QueueSizeType == QueueSize \in Nat \ {0}
    BY ExecutionAssumption DEF ExecutionAssumption

\* Taking an event shifts the queue.
LEMMA TakeShifts ==
    ASSUME TypeOK, NEW s \in Signal, Take(s)
    PROVE  /\ up /\ phase = "idle" /\ 1 \in DOMAIN sigq /\ s = sigq[1]
           /\ sigq' \in Seq(Signal)
           /\ Len(sigq') = Len(sigq) - 1
           /\ \A i \in DOMAIN sigq' : i + 1 \in DOMAIN sigq /\ sigq'[i] = sigq[i + 1]
    BY DEF TypeOK, Take

\* A new row goes to the end of the table.
LEMMA RecordAppends ==
    ASSUME TypeOK, sig \in Signal, leg # 0, NEW status \in {"planned", "rejected"}, Record(status)
    PROVE  /\ intents' \in Seq(Row)
           /\ Len(intents') = Len(intents) + 1
           /\ \A i \in DOMAIN intents : intents'[i] = intents[i]
           /\ intents'[Len(intents) + 1] = [sig |-> sig, leg |-> leg, status |-> status]
<1>1. [sig |-> sig, leg |-> leg, status |-> status] \in Row
    BY DEF Row, TypeOK
<1>2. intents \in Seq(Row)
    BY DEF TypeOK
<1>3. QED BY <1>1, <1>2 DEF Record

\* Acknowledging changes the status of the last row and nothing else.
LEMMA AcknowledgeKeepsRows ==
    ASSUME TypeOK, Acknowledge, Len(intents) > 0
    PROVE  /\ intents' \in Seq(Row)
           /\ Len(intents') = Len(intents)
           /\ \A i \in DOMAIN intents :
                /\ intents'[i].sig = intents[i].sig
                /\ intents'[i].leg = intents[i].leg
                /\ i # Len(intents) => intents'[i] = intents[i]
<1> DEFINE st == IF cfg.mode = "dry_run" THEN "submitted" ELSE "failed"
           n == Len(intents)
<1>1. intents' = [intents EXCEPT ![n] = [intents[n] EXCEPT !.status = st]]
    BY DEF Acknowledge, Current
<1>2. intents \in Seq(Row) /\ n \in DOMAIN intents
    BY DEF TypeOK
<1>3. st \in {"submitted", "failed"}
    OBVIOUS
<1>4. intents[n] \in Row
    BY <1>2
<1> HIDE DEF st
<1>5. /\ [intents[n] EXCEPT !.status = st] \in Row
      /\ [intents[n] EXCEPT !.status = st].sig = intents[n].sig
      /\ [intents[n] EXCEPT !.status = st].leg = intents[n].leg
    BY <1>3, <1>4 DEF Row
<1>6. QED BY <1>1, <1>2, <1>5

\* Every step keeps the shape of the state.
LEMMA TypeStep == IInv /\ [Next]_vars => TypeOK'
<1> SUFFICES ASSUME IInv, [Next]_vars PROVE TypeOK'
    OBVIOUS
<1> USE DEF IInv, TypeOK, process, operator, handler, tables
<1>1. ASSUME NEW c \in Configs, Start(c) PROVE TypeOK'
    BY <1>1 DEF Start
<1>2. CASE Crash
    <2>1. sigq' \in Seq(Signal) /\ Len(sigq') <= QueueSize
        BY <1>2, QueueSizeType DEF Crash
    <2>2. /\ up' = FALSE /\ phase' = "idle" /\ sig' = NoSignal /\ leg' = 0
          /\ faults' = faults + 1
          /\ UNCHANGED <<cfg, verified, operator, figures, logged, tables>>
        BY <1>2 DEF Crash
    <2>3. up' \in BOOLEAN /\ cfg' \in Configs /\ verified' \in SUBSET Groups
        BY <2>2
    <2>4. /\ groupsFile' \in SUBSET Groups /\ kill' \in BOOLEAN
          /\ figures' \in Figures /\ logged' \in SUBSET Signal
        BY <2>2
    <2>5. /\ phase' \in {"idle", "refused", "check", "submit", "receipt"}
          /\ sig' \in Signal \cup {NoSignal} /\ leg' \in Nat
        BY <2>2
    <2>6. intents' \in Seq(Row) /\ audited' \in SUBSET (Signal \X Nat)
        BY <2>2
    <2>7. orders' \in Seq(Nat \ {0}) /\ approved' \in SUBSET Signal /\ faults' \in Nat
        BY <2>2
    <2>8. QED BY <2>1, <2>2, <2>3, <2>4, <2>5, <2>6, <2>7
<1>3. CASE ToggleKill
    BY <1>3 DEF ToggleKill
<1>4. ASSUME NEW gs \in SUBSET Groups, EditGroups(gs) PROVE TypeOK'
    BY <1>4 DEF EditGroups
<1>5. ASSUME NEW f \in Figures, FiguresChange(f) PROVE TypeOK'
    BY <1>5 DEF FiguresChange
<1>6. ASSUME NEW s \in Signal, LogSignal(s) PROVE TypeOK'
    BY <1>6, QueueSizeType DEF LogSignal
<1>7. ASSUME NEW s \in Signal, Ignore(s) PROVE TypeOK'
    BY <1>7, TakeShifts, QueueSizeType DEF Ignore
<1>8. ASSUME NEW s \in Signal, RefusePlan(s) PROVE TypeOK'
    BY <1>8, TakeShifts, QueueSizeType DEF RefusePlan
<1>9. ASSUME NEW s \in Signal, ApprovePlan(s) PROVE TypeOK'
    <2>1. 1 \in DOMAIN SignalLegs[s]
        BY <1>9, PlanLegs DEF ApprovePlan, PlanApproved
    <2>2. QED BY <1>9, <2>1, TakeShifts, QueueSizeType DEF ApprovePlan
<1>10. CASE PlanLeg
    BY <1>10, RecordAppends DEF PlanLeg, HandlerInv
<1>11. CASE RejectLeg
    BY <1>11, RecordAppends DEF RejectLeg, HandlerInv
<1>12. CASE AuditRefusal
    <2>1. sig \in Signal
        BY <1>12 DEF AuditRefusal, HandlerInv
    <2>2. audited' \in SUBSET (Signal \X Nat)
        BY <1>12, <2>1 DEF AuditRefusal
    <2>3. QED BY <1>12, <2>1, <2>2, AdvanceCases, PlanLegs DEF AuditRefusal
<1>13. CASE BrokerAnswers
    BY <1>13 DEF BrokerAnswers, Current, HandlerInv, RowInHand
<1>14. CASE Acknowledge
    <2>1. sig \in Signal
        BY <1>14 DEF Acknowledge, HandlerInv
    <2>2. intents' \in Seq(Row)
        BY <1>14, AcknowledgeKeepsRows DEF Acknowledge, HandlerInv, RowInHand
    <2>3. QED BY <1>14, <2>1, <2>2, AdvanceCases, PlanLegs DEF Acknowledge
<1>15. CASE Abort
    BY <1>15 DEF Abort, Done
<1>16. CASE UNCHANGED vars
    BY <1>16 DEF vars
<1>z. ASSUME NEW s \in Signal, AbortPlan(s) PROVE TypeOK'
    BY <1>z, TakeShifts, QueueSizeType DEF AbortPlan
<1>17. QED
    BY <1>1, <1>2, <1>3, <1>4, <1>5, <1>6, <1>7, <1>8, <1>9, <1>10, <1>11, <1>12, <1>13,
       <1>14, <1>15, <1>16, <1>z DEF Next, Handle, Outside, Restart

\* Every step keeps the handler at a leg of a plan that passed the gates.
LEMMA HandlerStep == IInv /\ [Next]_vars => HandlerInv'
<1> SUFFICES ASSUME IInv, [Next]_vars PROVE HandlerInv'
    OBVIOUS
<1>0. TypeOK /\ HandlerInv /\ TypeOK'
    BY TypeStep DEF IInv
<1> USE DEF HandlerInv, Gated, RowInHand, process, operator, handler, tables
<1>1. ASSUME NEW c \in Configs, Start(c) PROVE HandlerInv'
    BY <1>0, <1>1 DEF Start
<1>2. CASE Crash
    BY <1>2 DEF Crash
<1>3. CASE ToggleKill
    BY <1>0, <1>3 DEF ToggleKill
<1>4. ASSUME NEW gs \in SUBSET Groups, EditGroups(gs) PROVE HandlerInv'
    BY <1>0, <1>4 DEF EditGroups
<1>5. ASSUME NEW f \in Figures, FiguresChange(f) PROVE HandlerInv'
    BY <1>0, <1>5 DEF FiguresChange
<1>6. ASSUME NEW s \in Signal, LogSignal(s) PROVE HandlerInv'
    BY <1>0, <1>6 DEF LogSignal
<1>7. ASSUME NEW s \in Signal, Ignore(s) PROVE HandlerInv'
    BY <1>0, <1>7, TakeShifts DEF Ignore
<1>8. ASSUME NEW s \in Signal, RefusePlan(s) PROVE HandlerInv'
    <2>1. s \in logged
        BY <1>0, <1>8, TakeShifts DEF RefusePlan, IInv, PlaceInv
    <2>2. QED BY <1>0, <1>8, <2>1, TakeShifts DEF RefusePlan
<1>9. ASSUME NEW s \in Signal, ApprovePlan(s) PROVE HandlerInv'
    <2>1. s \in logged
        BY <1>0, <1>9, TakeShifts DEF ApprovePlan, IInv, PlaceInv
    <2>2. 1 \in DOMAIN Plan(s)
        BY <1>9, PlanLegs DEF ApprovePlan, PlanApproved
    <2>3. cfg' = cfg /\ Gated
        BY <1>9 DEF ApprovePlan, PlanApproved
    <2>4. QED BY <1>0, <1>9, <2>1, <2>2, <2>3, TakeShifts DEF ApprovePlan
<1>10. CASE PlanLeg
    BY <1>0, <1>10, RecordAppends DEF PlanLeg
<1>11. CASE RejectLeg
    BY <1>0, <1>11, RecordAppends DEF RejectLeg
<1>12. CASE AuditRefusal
    BY <1>0, <1>12, AdvanceCases DEF AuditRefusal
<1>13. CASE BrokerAnswers
    BY <1>0, <1>13 DEF BrokerAnswers
<1>14. CASE Acknowledge
    BY <1>0, <1>14, AdvanceCases DEF Acknowledge
<1>15. CASE Abort
    BY <1>0, <1>15 DEF Abort, Done
<1>16. CASE UNCHANGED vars
    BY <1>0, <1>16 DEF vars
<1>z. ASSUME NEW s \in Signal, AbortPlan(s) PROVE HandlerInv'
    BY <1>0, <1>z, TakeShifts DEF AbortPlan
<1>17. QED
    BY <1>1, <1>2, <1>3, <1>4, <1>5, <1>6, <1>7, <1>8, <1>9, <1>10, <1>11, <1>12, <1>13,
       <1>14, <1>15, <1>16, <1>z DEF Next, Handle, Outside, Restart

\* Every step keeps a signal at one place: the queue, the handler or the rows.
LEMMA PlaceStep == IInv /\ [Next]_vars => PlaceInv'
<1> SUFFICES ASSUME IInv, [Next]_vars PROVE PlaceInv'
    OBVIOUS
<1>0. TypeOK /\ HandlerInv /\ PlaceInv /\ TypeOK'
    BY TypeStep DEF IInv
<1>a. sigq \in Seq(Signal) /\ intents \in Seq(Row) /\ logged \in SUBSET Signal
    BY <1>0 DEF TypeOK
<1> USE DEF PlaceInv, process, operator, handler, tables
<1>1. ASSUME NEW c \in Configs, Start(c) PROVE PlaceInv'
    BY <1>0, <1>1 DEF Start
<1>2. CASE Crash
    BY <1>0, <1>2 DEF Crash
<1>3. CASE ToggleKill
    BY <1>0, <1>3 DEF ToggleKill
<1>4. ASSUME NEW gs \in SUBSET Groups, EditGroups(gs) PROVE PlaceInv'
    BY <1>0, <1>4 DEF EditGroups
<1>5. ASSUME NEW f \in Figures, FiguresChange(f) PROVE PlaceInv'
    BY <1>0, <1>5 DEF FiguresChange
<1>6. ASSUME NEW s \in Signal, LogSignal(s) PROVE PlaceInv'
    <2>1. phase # "idle" => sig # s
        BY <1>0, <1>6 DEF LogSignal, HandlerInv
    <2>2. /\ s \notin logged /\ logged' = logged \cup {s}
          /\ UNCHANGED <<phase, sig, intents>>
        BY <1>6 DEF LogSignal
    <2>3. CASE Len(sigq) < QueueSize
        <3>1. /\ DOMAIN sigq' = 1 .. Len(sigq) + 1
              /\ \A i \in DOMAIN sigq : sigq'[i] = sigq[i]
              /\ sigq'[Len(sigq) + 1] = s
            BY <1>6, <1>a, <2>3 DEF LogSignal
        <3>2. DOMAIN sigq = 1 .. Len(sigq) /\ Len(sigq) \in Nat
            BY <1>a
        <3>3. \A i \in DOMAIN sigq' : i \in DOMAIN sigq \/ i = Len(sigq) + 1
            BY <3>1, <3>2
        <3>4. QED BY <1>0, <2>1, <2>2, <3>1, <3>3
    <2>4. CASE ~(Len(sigq) < QueueSize)
        BY <1>0, <1>6, <2>2, <2>4 DEF LogSignal
    <2>5. QED BY <2>3, <2>4
<1>7. ASSUME NEW s \in Signal, Ignore(s) PROVE PlaceInv'
    BY <1>0, <1>a, <1>7, TakeShifts DEF Ignore
<1>8. ASSUME NEW s \in Signal, RefusePlan(s) PROVE PlaceInv'
    BY <1>0, <1>a, <1>8, TakeShifts DEF RefusePlan
<1>9. ASSUME NEW s \in Signal, ApprovePlan(s) PROVE PlaceInv'
    BY <1>0, <1>a, <1>9, TakeShifts DEF ApprovePlan
<1>10. ASSUME NEW status \in {"planned", "rejected"}, Record(status), phase # "idle",
              UNCHANGED <<logged, sigq, sig, leg>>, leg # 0
       PROVE  PlaceInv'
    <2>1. sig \in Signal /\ sig \in logged
        BY <1>0, <1>10 DEF HandlerInv
    <2>2. \A k \in DOMAIN intents' : intents'[k].sig = sig \/ k \in DOMAIN intents
        BY <1>0, <1>a, <1>10, <2>1, RecordAppends
    <2>3. \A k \in DOMAIN intents : intents'[k] = intents[k]
        BY <1>0, <1>10, <2>1, RecordAppends
    <2>4. QED BY <1>0, <1>10, <2>1, <2>2, <2>3
<1>11. CASE PlanLeg
    BY <1>0, <1>10, <1>11 DEF PlanLeg, HandlerInv
<1>12. CASE RejectLeg
    BY <1>0, <1>10, <1>12 DEF RejectLeg, HandlerInv
<1>13. CASE AuditRefusal
    BY <1>0, <1>13, AdvanceCases DEF AuditRefusal
<1>14. CASE BrokerAnswers
    BY <1>0, <1>14 DEF BrokerAnswers
<1>15. CASE Acknowledge
    <2>1. Len(intents) > 0
        BY <1>0, <1>15 DEF Acknowledge, HandlerInv, RowInHand
    <2>2. DOMAIN intents' = DOMAIN intents
        BY <1>15, <1>a DEF Acknowledge
    <2>3. \A k \in DOMAIN intents : intents'[k].sig = intents[k].sig
        BY <1>0, <1>15, <2>1, AcknowledgeKeepsRows
    <2>4. QED BY <1>0, <1>15, <2>2, <2>3, AdvanceCases DEF Acknowledge
<1>16. CASE Abort
    BY <1>0, <1>16 DEF Abort, Done
<1>17. CASE UNCHANGED vars
    BY <1>0, <1>17 DEF vars
<1>z. ASSUME NEW s \in Signal, AbortPlan(s) PROVE PlaceInv'
    BY <1>0, <1>a, <1>z, TakeShifts DEF AbortPlan
<1>18. QED
    BY <1>1, <1>2, <1>3, <1>4, <1>5, <1>6, <1>7, <1>8, <1>9, <1>11, <1>12, <1>13, <1>14,
       <1>15, <1>16, <1>17, <1>z DEF Next, Handle, Outside, Restart

\* Every step keeps one row per leg, those of a plan in the order of its legs.
LEMMA RowsStep == IInv /\ [Next]_vars => RowsInv'
<1> SUFFICES ASSUME IInv, [Next]_vars PROVE RowsInv'
    OBVIOUS
<1>0. TypeOK /\ HandlerInv /\ PlaceInv /\ RowsInv /\ TypeOK'
    BY TypeStep DEF IInv
<1>a. intents \in Seq(Row) /\ leg \in Nat /\ DOMAIN intents = 1 .. Len(intents)
    BY <1>0 DEF TypeOK
<1>b. \A k \in DOMAIN intents : intents[k].leg \in Nat
    <2>1. \A k \in DOMAIN intents : intents[k] \in Row
        BY <1>a
    <2>2. \A r \in Row : r.leg \in Nat
        BY DEF Row
    <2>3. QED BY <2>1, <2>2
<1> USE DEF RowsInv, process, operator, handler, tables
<1>1. ASSUME NEW c \in Configs, Start(c) PROVE RowsInv'
    BY <1>0, <1>1 DEF Start
<1>2. CASE Crash
    BY <1>0, <1>2 DEF Crash
<1>3. CASE ToggleKill
    BY <1>0, <1>3 DEF ToggleKill
<1>4. ASSUME NEW gs \in SUBSET Groups, EditGroups(gs) PROVE RowsInv'
    BY <1>0, <1>4 DEF EditGroups
<1>5. ASSUME NEW f \in Figures, FiguresChange(f) PROVE RowsInv'
    BY <1>0, <1>5 DEF FiguresChange
<1>6. ASSUME NEW s \in Signal, LogSignal(s) PROVE RowsInv'
    BY <1>0, <1>6 DEF LogSignal
<1>7. ASSUME NEW s \in Signal, Ignore(s) PROVE RowsInv'
    BY <1>0, <1>7 DEF Ignore
<1>8. ASSUME NEW s \in Signal, RefusePlan(s) PROVE RowsInv'
    <2>1. \A k \in DOMAIN intents : intents[k].sig # s
        BY <1>0, <1>8, TakeShifts DEF RefusePlan, PlaceInv
    <2>2. QED BY <1>0, <1>8, <2>1 DEF RefusePlan
<1>9. ASSUME NEW s \in Signal, ApprovePlan(s) PROVE RowsInv'
    <2>1. \A k \in DOMAIN intents : intents[k].sig # s
        BY <1>0, <1>9, TakeShifts DEF ApprovePlan, PlaceInv
    <2>2. QED BY <1>0, <1>9, <2>1 DEF ApprovePlan
<1>10. ASSUME NEW status \in {"planned", "rejected"}, Record(status), phase = "check",
              phase' \in {"submit", "refused"}, UNCHANGED <<sig, leg>>
       PROVE  RowsInv'
    <2>1. sig \in Signal /\ leg # 0
        BY <1>0, <1>10 DEF HandlerInv
    <2>2. /\ \A k \in DOMAIN intents' : k \in DOMAIN intents \/ k = Len(intents) + 1
          /\ \A k \in DOMAIN intents : intents'[k] = intents[k] /\ k < Len(intents')
          /\ intents'[Len(intents) + 1].sig = sig
          /\ intents'[Len(intents) + 1].leg = leg
          /\ Len(intents') = Len(intents) + 1
        BY <1>0, <1>a, <1>10, <2>1, RecordAppends
    <2>3. \A k \in DOMAIN intents : intents[k].sig = sig => intents[k].leg < leg
        BY <1>0, <1>10
    <2>4. \A k, l \in DOMAIN intents' :
            intents'[k].sig = intents'[l].sig /\ intents'[k].leg = intents'[l].leg => k = l
        BY <1>0, <1>a, <1>b, <2>2, <2>3
    <2>5. \A k \in DOMAIN intents' :
            k < Len(intents') /\ intents'[k].sig = sig => intents'[k].leg < leg
        BY <1>a, <2>2, <2>3
    <2>6. QED BY <1>10, <2>1, <2>4, <2>5
<1>11. CASE PlanLeg
    BY <1>10, <1>11 DEF PlanLeg
<1>12. CASE RejectLeg
    BY <1>10, <1>12 DEF RejectLeg
<1>13. ASSUME Advance, phase \in {"refused", "receipt"},
              Len(intents') = Len(intents),
              DOMAIN intents' = DOMAIN intents,
              \A k \in DOMAIN intents : /\ intents'[k].sig = intents[k].sig
                                        /\ intents'[k].leg = intents[k].leg
       PROVE  RowsInv'
    <2>1. CASE /\ leg # 0
               /\ phase' = "check" /\ sig' = sig /\ leg' = leg + 1
        <3>1. intents[Len(intents)].leg = leg
            BY <1>0, <1>13, <2>1 DEF HandlerInv, RowInHand
        <3>2. \A k \in DOMAIN intents : k < Len(intents) /\ intents[k].sig = sig
                                           => intents[k].leg < leg
            BY <1>0, <1>13
        <3>3. \A k \in DOMAIN intents : intents[k].sig = sig => intents[k].leg < leg + 1
            BY <1>a, <1>b, <3>1, <3>2
        <3>4. QED BY <1>0, <1>13, <2>1, <3>3
    <2>2. CASE phase' = "idle"
        BY <1>0, <1>13, <2>2
    <2>3. QED BY <1>0, <1>13, <2>1, <2>2, AdvanceCases
<1>14. CASE AuditRefusal
    BY <1>13, <1>14 DEF AuditRefusal
<1>15. CASE BrokerAnswers
    BY <1>0, <1>15 DEF BrokerAnswers
<1>16. CASE Acknowledge
    <2>1. Len(intents) > 0
        BY <1>0, <1>16 DEF Acknowledge, HandlerInv, RowInHand
    <2>2. DOMAIN intents' = DOMAIN intents /\ Len(intents') = Len(intents)
        BY <1>0, <1>a, <1>16, <2>1, AcknowledgeKeepsRows DEF Acknowledge
    <2>3. QED BY <1>0, <1>13, <1>16, <2>1, <2>2, AcknowledgeKeepsRows DEF Acknowledge
<1>17. CASE Abort
    BY <1>0, <1>17 DEF Abort, Done
<1>18. CASE UNCHANGED vars
    BY <1>0, <1>18 DEF vars
<1>z. ASSUME NEW s \in Signal, AbortPlan(s) PROVE RowsInv'
    BY <1>0, <1>z DEF AbortPlan
<1>19. QED
    BY <1>1, <1>2, <1>3, <1>4, <1>5, <1>6, <1>7, <1>8, <1>9, <1>11, <1>12, <1>14, <1>15,
       <1>16, <1>17, <1>18, <1>z DEF Next, Handle, Outside, Restart

\* Every step keeps one order per row at most.
LEMMA OrdersStep == IInv /\ [Next]_vars => OrdersInv'
<1> SUFFICES ASSUME IInv, [Next]_vars PROVE OrdersInv'
    OBVIOUS
<1>0. TypeOK /\ HandlerInv /\ OrdersInv
    BY DEF IInv
<1>a. /\ intents \in Seq(Row) /\ DOMAIN intents = 1 .. Len(intents) /\ Len(intents) \in Nat
      /\ orders \in Seq(Nat \ {0})
    BY <1>0 DEF TypeOK
<1> USE DEF OrdersInv, process, operator, handler, tables
<1>1. ASSUME UNCHANGED <<intents, orders>>, phase' # "submit" \/ phase' = phase PROVE OrdersInv'
    BY <1>0, <1>1
<1>2. ASSUME NEW c \in Configs, Start(c) PROVE OrdersInv'
    BY <1>1, <1>2 DEF Start
<1>3. CASE Crash
    BY <1>1, <1>3 DEF Crash
<1>4. CASE Outside
    BY <1>1, <1>4 DEF Outside, ToggleKill, EditGroups, FiguresChange, LogSignal
<1>5. ASSUME NEW s \in Signal, Ignore(s) \/ RefusePlan(s) \/ ApprovePlan(s) PROVE OrdersInv'
    BY <1>1, <1>5 DEF Ignore, RefusePlan, ApprovePlan
<1>6. ASSUME NEW status \in {"planned", "rejected"}, Record(status), phase = "check",
              UNCHANGED <<orders, sig, leg>>
      PROVE  OrdersInv'
    <2>1. sig \in Signal /\ leg # 0
        BY <1>0, <1>6 DEF HandlerInv
    <2>2. DOMAIN intents' = 1 .. Len(intents) + 1 /\ Len(intents') = Len(intents) + 1
        BY <1>0, <1>a, <1>6, <2>1, RecordAppends
    <2>3. QED BY <1>0, <1>a, <1>6, <2>2
<1>7. CASE PlanLeg
    BY <1>6, <1>7 DEF PlanLeg
<1>8. CASE RejectLeg
    BY <1>6, <1>8 DEF RejectLeg
<1>9. CASE AuditRefusal
    BY <1>0, <1>1, <1>9, AdvanceCases DEF AuditRefusal
<1>10. CASE BrokerAnswers
    <2>1. Len(intents) \in DOMAIN intents
        BY <1>0, <1>a, <1>10 DEF BrokerAnswers, HandlerInv, RowInHand
    <2>2. \A i \in DOMAIN orders : orders[i] # Len(intents)
        BY <1>0, <1>10 DEF BrokerAnswers
    <2>3. CASE cfg.mode = "dry_run"
        <3>1. /\ \A i \in DOMAIN orders' : i \in DOMAIN orders \/ i = Len(orders) + 1
              /\ \A i \in DOMAIN orders : orders'[i] = orders[i]
              /\ orders'[Len(orders) + 1] = Len(intents)
            BY <1>a, <1>10, <2>1, <2>3 DEF BrokerAnswers, Current
        <3>2. QED BY <1>0, <1>10, <2>1, <2>2, <3>1 DEF BrokerAnswers
    <2>4. CASE cfg.mode # "dry_run"
        BY <1>0, <1>10, <2>4 DEF BrokerAnswers
    <2>5. QED BY <2>3, <2>4
<1>11. CASE Acknowledge
    <2>1. DOMAIN intents' = DOMAIN intents
        BY <1>11, <1>a DEF Acknowledge
    <2>2. phase' # "submit" /\ UNCHANGED orders
        BY <1>0, <1>11, AdvanceCases DEF Acknowledge
    <2>3. QED BY <1>0, <2>1, <2>2
<1>12. CASE Abort
    BY <1>1, <1>12 DEF Abort, Done
<1>13. CASE UNCHANGED vars
    BY <1>1, <1>13 DEF vars
<1>z. ASSUME NEW s \in Signal, AbortPlan(s) PROVE OrdersInv'
    BY <1>1, <1>z DEF AbortPlan
<1>14. QED
    BY <1>2, <1>3, <1>4, <1>5, <1>7, <1>8, <1>9, <1>10, <1>11, <1>12, <1>13,
       <1>z DEF Next, Handle, Restart

\* The inductive invariant holds.
THEOREM Inductive == Spec => []IInv
<1>1. Init => IInv
    <2> SUFFICES ASSUME Init PROVE IInv
        OBVIOUS
    <2>1. sigq \in Seq(Signal) /\ Len(sigq) <= QueueSize
        BY QueueSizeType DEF Init
    <2>2. intents \in Seq(Row) /\ orders \in Seq(Nat \ {0}) /\ faults \in Nat
        BY DEF Init
    <2>3. TypeOK
        BY <2>1, <2>2 DEF Init, TypeOK
    <2>4. HandlerInv /\ PlaceInv /\ RowsInv /\ OrdersInv
        BY DEF Init, HandlerInv, PlaceInv, RowsInv, OrdersInv
    <2>5. QED BY <2>3, <2>4 DEF IInv
<1>2. IInv /\ [Next]_vars => IInv'
    BY TypeStep, HandlerStep, PlaceStep, RowsStep, OrdersStep DEF IInv
<1>3. QED BY <1>1, <1>2, PTL DEF Spec

\* The tables and the handler keep their shape (pm/execution/task.py:55-109).
THEOREM TypeCorrect == Spec => []TypeOK
<1>1. IInv => TypeOK
    BY DEF IInv
<1>2. QED BY <1>1, Inductive, PTL

\* No leg of a signal is ever sent to the broker twice (task.py:81-98), however often the
\* handler is cut short and the engine restarted.
THEOREM OrderOnce == Spec => []OneOrderPerLeg
<1>1. IInv => OneOrderPerLeg
    BY DEF IInv, TypeOK, OrdersInv, RowsInv, OneOrderPerLeg, OrderOf
<1>2. QED BY <1>1, Inductive, PTL

\* Nothing reaches the broker unless execution is enabled in dry-run mode (risk.py:3-11):
\* an order follows a plan that passed the gates of the settings still in force.
THEOREM BrokerFailClosed == Spec => FailClosed
<1>1. IInv /\ [Next]_vars => [orders' # orders => cfg.enabled /\ cfg.mode = "dry_run"]_vars
    <2> SUFFICES ASSUME IInv, Next, orders' # orders PROVE cfg.enabled /\ cfg.mode = "dry_run"
        OBVIOUS
    <2>1. BrokerAnswers
        BY DEF Next, Handle, Outside, Restart, Start, Crash, Abort, AbortPlan, ToggleKill,
               EditGroups, FiguresChange, LogSignal, Ignore, RefusePlan, ApprovePlan, PlanLeg, RejectLeg,
               AuditRefusal, Acknowledge, tables
    <2>2. cfg.mode = "dry_run" /\ phase = "submit"
        BY <2>1 DEF BrokerAnswers
    <2>3. QED BY <2>2 DEF IInv, HandlerInv, Gated
<1>2. QED BY <1>1, Inductive, PTL DEF Spec, FailClosed

\* A live plan is not even recorded unless its three gates are open (risk.py:4-8).
THEOREM LiveNeedsGates == Spec => LiveGated
<1>1. IInv /\ [Next]_vars =>
        [Len(intents') > Len(intents) /\ cfg.mode # "dry_run"
            => cfg.enabled /\ cfg.mode = "live" /\ cfg.live /\ cfg.hardGate]_vars
    <2> SUFFICES ASSUME IInv, Next, Len(intents') > Len(intents)
                 PROVE  Gated
        BY DEF Gated
    <2>1. intents' # intents /\ Len(intents') # Len(intents)
        BY DEF IInv, TypeOK
    <2>2. PlanLeg \/ RejectLeg \/ Acknowledge
        BY <2>1 DEF Next, Handle, Outside, Restart, Start, Crash, Abort, AbortPlan, ToggleKill,
               EditGroups, FiguresChange, LogSignal, Ignore, RefusePlan, ApprovePlan, BrokerAnswers,
               AuditRefusal, tables
    <2>3. phase \in {"check", "receipt"}
        BY <2>2 DEF PlanLeg, RejectLeg, Acknowledge
    <2>4. QED BY <2>3 DEF IInv, HandlerInv
<1>2. QED BY <1>1, Inductive, PTL DEF Spec, LiveGated

\* Both together: whatever environments, restarts and aborts follow each other, no order
\* and no live intent gets past a closed gate (risk.py, check_plan; broker.py).
THEOREM GatesKept == Spec => GatesHold
    BY BrokerFailClosed, LiveNeedsGates, PTL DEF GatesHold

----------------------------------------------------------------------------
(***************************************************************************)
(* What becomes of a plan.  On top of IInv, PlanInv says that the rows of  *)
(* the plan in hand are exactly those of the legs already begun, each of   *)
(* them over, and CarriedInv that a plan left behind has all of its legs.  *)
(***************************************************************************)

\* The statuses a row no longer leaves.
Settled == {"rejected", "submitted", "failed"}

LegsOf(s) == {intents[k].leg : k \in RowsOf(s)}

\* The legs of the plan in hand that have a row.
Begun == 1 .. (IF phase = "check" THEN leg - 1 ELSE leg)

RowsWithinPlan ==
    \A k \in DOMAIN intents :
        /\ intents[k].leg \in DOMAIN Plan(intents[k].sig)
        /\ Total(intents[k].sig) <= MaxSignal

PlanInHand ==
    /\ leg # 0 => Total(sig) <= MaxSignal /\ LegsOf(sig) = Begun
    /\ phase # "idle" =>
        \A k \in RowsOf(sig) : ~InHand(k) => intents[k].status \in Settled

\* What the broker has, and whether it has the order of the row in hand.
BrokerInv ==
    /\ phase = "receipt" =>
        ((\E k \in DOMAIN orders : orders[k] = Current) <=> cfg.mode = "dry_run")
    /\ phase = "submit" => Notional(sig, leg) <= MaxOrder
    /\ \A i \in DOMAIN orders : Notional(intents[orders[i]].sig, intents[orders[i]].leg) <= MaxOrder

CarriedInv ==
    /\ approved \subseteq logged
    /\ \A i \in DOMAIN sigq : sigq[i] \notin approved
    /\ phase = "refused" /\ leg = 0 => sig \notin approved
    /\ faults = 0 =>
        \A s \in approved : (phase # "idle" /\ sig = s) \/ LegsOf(s) = DOMAIN Plan(s)

PlanInv == RowsWithinPlan /\ PlanInHand /\ BrokerInv /\ CarriedInv /\ GapsAreFaults

\* The rows are of signals and of legs.
LEMMA RowTypes ==
    ASSUME TypeOK
    PROVE  /\ DOMAIN intents = 1 .. Len(intents) /\ Len(intents) \in Nat
           /\ \A k \in DOMAIN intents : /\ intents[k].sig \in Signal
                                        /\ intents[k].leg \in Nat \ {0}
<1>1. intents \in Seq(Row)
    BY DEF TypeOK
<1>2. \A k \in DOMAIN intents : intents[k] \in Row
    BY <1>1
<1>3. \A r \in Row : r.sig \in Signal /\ r.leg \in Nat \ {0}
    BY DEF Row
<1>4. QED BY <1>1, <1>2, <1>3

\* The step that records a row, seen from the rows of each signal.
LEMMA RecordRows ==
    ASSUME IInv, phase = "check", sig' = sig,
           NEW status \in {"planned", "rejected"}, Record(status)
    PROVE  /\ Len(intents') = Len(intents) + 1
           /\ DOMAIN intents' = DOMAIN intents \cup {Len(intents) + 1}
           /\ Len(intents) + 1 \notin DOMAIN intents
           /\ \A k \in DOMAIN intents : intents'[k] = intents[k]
           /\ intents'[Len(intents) + 1].sig = sig
           /\ intents'[Len(intents) + 1].leg = leg
           /\ intents'[Len(intents) + 1].status = status
           /\ \A s \in Signal : s # sig => RowsOf(s)' = RowsOf(s) /\ LegsOf(s)' = LegsOf(s)
           /\ RowsOf(sig)' = RowsOf(sig) \cup {Len(intents) + 1}
           /\ LegsOf(sig)' = LegsOf(sig) \cup {leg}
<1> DEFINE n == Len(intents) + 1
<1>1. TypeOK /\ sig \in Signal /\ leg # 0
    BY DEF IInv, HandlerInv
<1>2. DOMAIN intents = 1 .. Len(intents) /\ Len(intents) \in Nat
    BY <1>1, RowTypes
<1>3. /\ intents' \in Seq(Row) /\ Len(intents') = Len(intents) + 1
      /\ \A k \in DOMAIN intents : intents'[k] = intents[k]
      /\ intents'[n] = [sig |-> sig, leg |-> leg, status |-> status]
    BY <1>1, RecordAppends
<1>4. DOMAIN intents' = DOMAIN intents \cup {n} /\ n \notin DOMAIN intents
    BY <1>2, <1>3
<1>5. intents'[n].sig = sig /\ intents'[n].leg = leg /\ intents'[n].status = status
    BY <1>3
<1> HIDE DEF n
<1>6. /\ \A s \in Signal : s # sig => RowsOf(s)' = RowsOf(s)
      /\ RowsOf(sig)' = RowsOf(sig) \cup {n}
    BY <1>3, <1>4, <1>5 DEF RowsOf
<1>7. \A s : RowsOf(s) \subseteq DOMAIN intents
    BY DEF RowsOf
<1>8. \A s \in Signal : s # sig => LegsOf(s)' = LegsOf(s)
    BY <1>3, <1>6, <1>7 DEF LegsOf
<1>9. LegsOf(sig)' = LegsOf(sig) \cup {leg}
    BY <1>3, <1>5, <1>6, <1>7 DEF LegsOf
<1>10. QED BY <1>3, <1>4, <1>5, <1>6, <1>8, <1>9 DEF n

\* The step that acknowledges a row, seen from the rows of each signal.
LEMMA AcknowledgeRows ==
    ASSUME IInv, Acknowledge
    PROVE  /\ Len(intents') = Len(intents) /\ DOMAIN intents' = DOMAIN intents
           /\ Len(intents) \in DOMAIN intents
           /\ \A k \in DOMAIN intents : /\ intents'[k].sig = intents[k].sig
                                        /\ intents'[k].leg = intents[k].leg
                                        /\ k # Len(intents) => intents'[k] = intents[k]
           /\ intents'[Len(intents)].status = IF cfg.mode = "dry_run" THEN "submitted" ELSE "failed"
           /\ \A s : RowsOf(s)' = RowsOf(s) /\ LegsOf(s)' = LegsOf(s)
<1>1. TypeOK /\ Len(intents) > 0 /\ intents \in Seq(Row)
    BY DEF IInv, TypeOK, Acknowledge, HandlerInv, RowInHand
<1>2. Len(intents) \in DOMAIN intents
    BY <1>1, RowTypes
<1>3. /\ Len(intents') = Len(intents) /\ DOMAIN intents' = DOMAIN intents
      /\ \A k \in DOMAIN intents : /\ intents'[k].sig = intents[k].sig
                                   /\ intents'[k].leg = intents[k].leg
                                   /\ k # Len(intents) => intents'[k] = intents[k]
    <2>1. intents' \in Seq(Row)
        BY <1>1, AcknowledgeKeepsRows
    <2>2. QED BY <1>1, <2>1, AcknowledgeKeepsRows
<1>4. intents'[Len(intents)].status = IF cfg.mode = "dry_run" THEN "submitted" ELSE "failed"
    <2>1. intents[Len(intents)] \in Row
        BY <1>1, <1>2
    <2>2. QED BY <1>1, <1>2, <2>1 DEF Acknowledge, Current, Row
<1>5. \A s : RowsOf(s)' = RowsOf(s)
    BY <1>3 DEF RowsOf
<1>6. \A s : LegsOf(s)' = LegsOf(s)
    BY <1>3, <1>5 DEF LegsOf, RowsOf
<1>7. QED BY <1>2, <1>3, <1>4, <1>5, <1>6

\* The steps that touch the rows, the orders or the plan in hand, and what the others
\* may do.
LEMMA PlanSteps ==
    [Next]_vars =>
        \/ \E s \in Signal : RefusePlan(s) \/ ApprovePlan(s)
        \/ PlanLeg \/ RejectLeg \/ AuditRefusal \/ BrokerAnswers \/ Acknowledge
        \/ Crash \/ Abort
        \/ /\ UNCHANGED <<intents, orders, audited, approved, phase, sig, leg>>
           /\ cfg' = cfg \/ ~up
           /\ faults' = faults \/ faults' = faults + 1
<1> USE DEF process, operator, handler, tables
<1>1. ASSUME NEW c \in Configs, Start(c)
      PROVE  /\ UNCHANGED <<intents, orders, audited, approved, phase, sig, leg>>
             /\ ~up /\ faults' = faults
    BY <1>1 DEF Start
<1>2. ASSUME Outside
      PROVE  /\ UNCHANGED <<intents, orders, audited, approved, phase, sig, leg>>
             /\ cfg' = cfg /\ faults' = faults
    BY <1>2 DEF Outside, ToggleKill, EditGroups, FiguresChange, LogSignal
<1>3. ASSUME NEW s \in Signal, Ignore(s)
      PROVE  /\ UNCHANGED <<intents, orders, audited, approved, phase, sig, leg>>
             /\ cfg' = cfg /\ faults' = faults
    BY <1>3 DEF Ignore
<1>4. ASSUME NEW s \in Signal, AbortPlan(s)
      PROVE  /\ UNCHANGED <<intents, orders, audited, approved, phase, sig, leg>>
             /\ cfg' = cfg /\ faults' = faults + 1
    BY <1>4 DEF AbortPlan
<1>5. ASSUME UNCHANGED vars
      PROVE  /\ UNCHANGED <<intents, orders, audited, approved, phase, sig, leg>>
             /\ cfg' = cfg /\ faults' = faults
    BY <1>5 DEF vars
<1>6. QED BY <1>1, <1>2, <1>3, <1>4, <1>5 DEF Next, Handle, Restart

\* Every step keeps the rows within the plans of their signals.
LEMMA RowsWithinPlanStep ==
    IInv /\ PlanInHand /\ RowsWithinPlan /\ [Next]_vars => RowsWithinPlan'
<1> SUFFICES ASSUME IInv, PlanInHand, RowsWithinPlan, [Next]_vars PROVE RowsWithinPlan'
    OBVIOUS
<1> USE DEF RowsWithinPlan
<1>1. ASSUME NEW status \in {"planned", "rejected"}, Record(status), phase = "check",
             sig' = sig
      PROVE  RowsWithinPlan'
    <2>1. leg \in DOMAIN Plan(sig) /\ Total(sig) <= MaxSignal
        BY <1>1 DEF IInv, HandlerInv, PlanInHand
    <2>2. QED BY <1>1, <2>1, RecordRows
<1>2. CASE PlanLeg
    BY <1>1, <1>2 DEF PlanLeg
<1>3. CASE RejectLeg
    BY <1>1, <1>3 DEF RejectLeg
<1>4. CASE Acknowledge
    BY <1>4, AcknowledgeRows
<1>5. CASE intents' = intents
    BY <1>5
<1>6. QED
    BY <1>2, <1>3, <1>4, <1>5, PlanSteps
    DEF RefusePlan, ApprovePlan, AuditRefusal, BrokerAnswers, Crash, Abort, tables

\* A row of the plan in hand is over once the handler has moved on.
LEMMA PlanInHandStep == IInv /\ PlanInHand /\ [Next]_vars => PlanInHand'
<1> SUFFICES ASSUME IInv, PlanInHand, [Next]_vars PROVE PlanInHand'
    OBVIOUS
<1>0. TypeOK /\ HandlerInv /\ leg \in Nat /\ DOMAIN intents = 1 .. Len(intents)
      /\ Len(intents) \in Nat /\ leg' \in Nat
    BY RowTypes, TypeStep DEF IInv, TypeOK
<1> USE DEF PlanInHand, Begun, InHand, Current
<1>1. ASSUME NEW s \in Signal, RefusePlan(s) \/ ApprovePlan(s) PROVE PlanInHand'
    <2>1. RowsOf(s) = {} /\ LegsOf(s) = {}
        BY <1>1, TakeShifts DEF IInv, PlaceInv, RefusePlan, ApprovePlan, RowsOf, LegsOf
    <2>2. sig' = s /\ intents' = intents
        BY <1>1 DEF RefusePlan, ApprovePlan, tables
    <2>3. RowsOf(sig)' = {} /\ LegsOf(sig)' = {}
        BY <2>1, <2>2 DEF RowsOf, LegsOf
    <2>4. CASE RefusePlan(s)
        BY <2>3, <2>4 DEF RefusePlan
    <2>5. CASE ApprovePlan(s)
        BY <2>2, <2>3, <2>5 DEF ApprovePlan, PlanApproved
    <2>6. QED BY <1>1, <2>4, <2>5
<1>2. ASSUME NEW status \in {"planned", "rejected"}, Record(status), phase = "check",
             phase' \in {"submit", "refused"}, UNCHANGED <<sig, leg>>
      PROVE  PlanInHand'
    <2>1. leg # 0 /\ sig \in Signal
        BY <1>0, <1>2 DEF HandlerInv
    <2>2. LegsOf(sig)' = (1 .. leg - 1) \cup {leg}
        BY <1>2, <2>1, RecordRows
    <2>3. LegsOf(sig)' = 1 .. leg
        BY <1>0, <2>1, <2>2
    <2>4. \A k \in RowsOf(sig)' : k = Len(intents') \/ intents'[k].status \in Settled
        BY <1>2, RecordRows DEF RowsOf
    <2>5. QED BY <1>2, <2>1, <2>3, <2>4
<1>3. CASE PlanLeg
    BY <1>2, <1>3 DEF PlanLeg
<1>4. CASE RejectLeg
    BY <1>2, <1>4 DEF RejectLeg
<1>5. ASSUME Advance, phase \in {"refused", "receipt"},
             LegsOf(sig)' = LegsOf(sig') , RowsOf(sig)' = RowsOf(sig'),
             leg # 0 => \A k \in RowsOf(sig) : intents'[k].status \in Settled
      PROVE  PlanInHand'
    <2>1. CASE /\ leg # 0
               /\ phase' = "check" /\ sig' = sig /\ leg' = leg + 1
        <3>1. LegsOf(sig)' = 1 .. leg /\ Total(sig) <= MaxSignal
            BY <1>5, <2>1
        <3>2. leg' - 1 = leg
            BY <1>0, <2>1
        <3>3. QED BY <1>5, <2>1, <3>1, <3>2
    <2>2. CASE phase' = "idle" /\ leg' = 0
        BY <2>2
    <2>3. QED BY <1>0, <1>5, <2>1, <2>2, AdvanceCases
<1>6. CASE AuditRefusal
    <2>1. intents' = intents
        BY <1>6 DEF AuditRefusal
    <2>2. leg # 0 => intents[Len(intents)].status = "rejected"
        BY <1>0, <1>6 DEF AuditRefusal, HandlerInv, RowInHand
    <2>3. leg # 0 => \A k \in RowsOf(sig) : intents'[k].status \in Settled
        BY <1>6, <2>1, <2>2 DEF AuditRefusal, Settled
    <2>4. QED BY <1>5, <1>6, <2>1, <2>3 DEF AuditRefusal, LegsOf, RowsOf
<1>7. CASE Acknowledge
    <2>1. \A k \in RowsOf(sig) : intents'[k].status \in Settled
        <3>1. \A k \in RowsOf(sig) : k \in DOMAIN intents
            BY DEF RowsOf
        <3>2. \A k \in RowsOf(sig) : k # Len(intents) => intents[k].status \in Settled
            BY <1>0, <1>7 DEF Acknowledge
        <3>3. intents'[Len(intents)].status \in Settled
            BY <1>7, AcknowledgeRows DEF Settled
        <3>4. QED BY <1>7, <3>1, <3>2, <3>3, AcknowledgeRows
    <2>2. LegsOf(sig)' = LegsOf(sig') /\ RowsOf(sig)' = RowsOf(sig')
        BY <1>7, AcknowledgeRows
    <2>3. QED BY <1>5, <1>7, <2>1, <2>2 DEF Acknowledge
<1>8. CASE BrokerAnswers
    BY <1>0, <1>8 DEF BrokerAnswers, LegsOf, RowsOf
<1>9. CASE Crash \/ Abort
    BY <1>9 DEF Crash, Abort, Done
<1>10. CASE UNCHANGED <<intents, phase, sig, leg>>
    BY <1>10 DEF LegsOf, RowsOf
<1>11. QED BY <1>1, <1>3, <1>4, <1>6, <1>7, <1>8, <1>9, <1>10, PlanSteps

\* Every step keeps what is known of the broker: an order is of a leg within the cap, and
\* the handler that has its answer can tell from the mode what it was.
LEMMA BrokerStep == IInv /\ RowsWithinPlan /\ BrokerInv /\ [Next]_vars => BrokerInv'
<1> SUFFICES ASSUME IInv, RowsWithinPlan, BrokerInv, [Next]_vars PROVE BrokerInv'
    OBVIOUS
<1>0. /\ HandlerInv /\ DOMAIN intents = 1 .. Len(intents) /\ Len(intents) \in Nat
      /\ \A i \in DOMAIN orders : orders[i] \in DOMAIN intents
      /\ orders \in Seq(Nat \ {0}) /\ DOMAIN orders = 1 .. Len(orders) /\ Len(orders) \in Nat
    BY RowTypes DEF IInv, OrdersInv, TypeOK
<1> USE DEF BrokerInv, Current
<1>1. ASSUME UNCHANGED <<intents, orders>>, phase' # "submit", phase' # "receipt"
      PROVE  BrokerInv'
    BY <1>1
<1>2. ASSUME NEW s \in Signal, RefusePlan(s) \/ ApprovePlan(s) PROVE BrokerInv'
    BY <1>1, <1>2 DEF RefusePlan, ApprovePlan, tables
<1>3. CASE Crash \/ Abort
    BY <1>1, <1>3 DEF Crash, Abort, Done, tables
<1>4. CASE AuditRefusal
    BY <1>1, <1>4, AdvanceCases DEF AuditRefusal, IInv
<1>5. ASSUME NEW status \in {"planned", "rejected"}, Record(status), phase = "check",
             UNCHANGED <<sig, leg, orders>>, phase' # "receipt",
             phase' = "submit" => Notional(sig, leg) <= MaxOrder
      PROVE  BrokerInv'
    <2>1. \A i \in DOMAIN orders : intents'[orders[i]] = intents[orders[i]]
        BY <1>0, <1>5, RecordRows
    <2>2. QED BY <1>5, <2>1
<1>6. CASE PlanLeg
    BY <1>5, <1>6 DEF PlanLeg, LegApproved
<1>7. CASE RejectLeg
    BY <1>5, <1>7 DEF RejectLeg
<1>8. CASE BrokerAnswers
    <2>1. RowInHand("planned") /\ Len(intents) \in DOMAIN intents
        BY <1>0, <1>8 DEF BrokerAnswers, HandlerInv, RowInHand
    <2>2. Notional(intents[Len(intents)].sig, intents[Len(intents)].leg) <= MaxOrder
        BY <1>8, <2>1 DEF BrokerAnswers, RowInHand
    <2>3. CASE cfg.mode = "dry_run"
        <3>1. orders' = Append(orders, Len(intents))
            BY <1>8, <2>3 DEF BrokerAnswers
        <3>2. /\ DOMAIN orders' = 1 .. Len(orders) + 1
              /\ \A i \in DOMAIN orders : orders'[i] = orders[i]
              /\ orders'[Len(orders) + 1] = Len(intents)
            BY <1>0, <3>1
        <3>3. \A i \in DOMAIN orders' : i \in DOMAIN orders \/ i = Len(orders) + 1
            BY <1>0, <3>2
        <3>4. Len(orders) + 1 \in DOMAIN orders'
            BY <1>0, <3>2
        <3>5. intents' = intents /\ cfg' = cfg /\ phase' = "receipt"
            BY <1>8 DEF BrokerAnswers, process
        <3>6. QED BY <2>2, <2>3, <3>2, <3>3, <3>4, <3>5
    <2>4. CASE cfg.mode # "dry_run"
        <3>1. \A i \in DOMAIN orders : orders[i] # Len(intents)
            BY <1>8 DEF BrokerAnswers, IInv, OrdersInv
        <3>2. QED BY <1>8, <2>4, <3>1 DEF BrokerAnswers, process
    <2>5. QED BY <2>3, <2>4
<1>9. CASE Acknowledge
    <2>1. orders' = orders /\ phase' # "submit" /\ phase' # "receipt"
        BY <1>9, AdvanceCases DEF Acknowledge, IInv
    <2>2. QED BY <1>0, <1>9, <2>1, AcknowledgeRows
<1>10. CASE /\ UNCHANGED <<intents, orders, audited, approved, phase, sig, leg>>
            /\ cfg' = cfg \/ ~up
    <2>1. phase = "receipt" => cfg' = cfg
        BY <1>0, <1>10 DEF HandlerInv
    <2>2. QED BY <1>10, <2>1
<1>11. QED BY <1>2, <1>3, <1>4, <1>6, <1>7, <1>8, <1>9, <1>10, PlanSteps

\* What may be in the queue after a step: what was there, or a signal just logged.
LEMMA QueueStep ==
    ASSUME IInv, [Next]_vars
    PROVE  /\ logged \subseteq logged'
           /\ \A i \in DOMAIN sigq' :
                (\E j \in DOMAIN sigq : sigq'[i] = sigq[j]) \/ sigq'[i] \notin logged
<1> USE DEF process, operator, handler, tables
<1>0. TypeOK /\ sigq \in Seq(Signal) /\ DOMAIN sigq = 1 .. Len(sigq) /\ Len(sigq) \in Nat
    BY DEF IInv, TypeOK
<1>1. ASSUME NEW s \in Signal, Ignore(s) \/ RefusePlan(s) \/ ApprovePlan(s) \/ AbortPlan(s)
      PROVE  logged' = logged /\ \A i \in DOMAIN sigq' : \E j \in DOMAIN sigq : sigq'[i] = sigq[j]
    <2>1. Take(s) /\ logged' = logged
        BY <1>1 DEF Ignore, RefusePlan, ApprovePlan, AbortPlan
    <2>2. QED BY <1>0, <2>1, TakeShifts
<1>2. ASSUME NEW s \in Signal, LogSignal(s)
      PROVE  /\ logged \subseteq logged'
             /\ \A i \in DOMAIN sigq' :
                  (\E j \in DOMAIN sigq : sigq'[i] = sigq[j]) \/ sigq'[i] \notin logged
    <2>1. CASE sigq' = sigq
        BY <1>2, <2>1 DEF LogSignal
    <2>2. CASE sigq' = Append(sigq, s)
        <3>1. \A i \in DOMAIN sigq' : (i \in DOMAIN sigq /\ sigq'[i] = sigq[i]) \/ sigq'[i] = s
            BY <1>0, <2>2
        <3>2. QED BY <1>2, <3>1 DEF LogSignal
    <2>3. QED BY <1>2, <2>1, <2>2 DEF LogSignal
<1>3. CASE Crash
    BY <1>3 DEF Crash
<1>4. CASE ToggleKill \/ (\E gs \in SUBSET Groups : EditGroups(gs))
           \/ (\E f \in Figures : FiguresChange(f)) \/ Restart
    BY <1>4 DEF ToggleKill, EditGroups, FiguresChange, Restart, Start
<1>5. CASE PlanLeg \/ RejectLeg \/ AuditRefusal \/ BrokerAnswers \/ Acknowledge \/ Abort
           \/ UNCHANGED vars
    BY <1>5 DEF PlanLeg, RejectLeg, AuditRefusal, BrokerAnswers, Acknowledge, Abort, vars
<1>6. QED BY <1>1, <1>2, <1>3, <1>4, <1>5 DEF Next, Handle, Outside

\* A plan left behind without a fault has a row for each of its legs.
LEMMA CarriedStep == IInv /\ PlanInHand /\ CarriedInv /\ [Next]_vars => CarriedInv'
<1> SUFFICES ASSUME IInv, PlanInHand, CarriedInv, [Next]_vars PROVE CarriedInv'
    OBVIOUS
<1>0. TypeOK /\ HandlerInv /\ leg \in Nat /\ faults \in Nat
    BY DEF IInv, TypeOK
<1>1. /\ logged \subseteq logged' /\ approved \subseteq logged
      /\ \A i \in DOMAIN sigq' : sigq'[i] \notin approved
    BY QueueStep DEF CarriedInv
<1> DEFINE Carried == faults = 0 =>
        \A s \in approved : (phase # "idle" /\ sig = s) \/ LegsOf(s) = DOMAIN Plan(s)
<1>2. Carried
    BY DEF CarriedInv
<1>3. ASSUME NEW s \in Signal, ApprovePlan(s) PROVE CarriedInv'
    <2>1. /\ approved' = approved \cup {s} /\ phase' = "check" /\ sig' = s /\ phase = "idle"
          /\ intents' = intents /\ faults' = faults /\ s \in logged
        BY <1>0, <1>3, TakeShifts DEF ApprovePlan, IInv, PlaceInv
    <2>2. \A i \in DOMAIN sigq' : sigq'[i] # s
        BY <1>0, <1>3, TakeShifts DEF ApprovePlan, IInv, PlaceInv, TypeOK
    <2>3. Carried'
        BY <1>2, <2>1 DEF LegsOf, RowsOf
    <2>4. QED BY <1>1, <2>1, <2>2, <2>3 DEF CarriedInv
<1>4. ASSUME approved' = approved, phase' = "refused" /\ leg' = 0 => sig' \notin approved,
             Carried'
      PROVE  CarriedInv'
    BY <1>1, <1>4 DEF CarriedInv
<1>5. ASSUME NEW s \in Signal, RefusePlan(s) PROVE CarriedInv'
    <2>1. s \notin approved
        BY <1>0, <1>5, TakeShifts DEF RefusePlan, CarriedInv
    <2>2. /\ approved' = approved /\ sig' = s /\ phase = "idle" /\ intents' = intents
          /\ faults' = faults
        BY <1>0, <1>5, TakeShifts DEF RefusePlan, tables
    <2>3. Carried'
        BY <1>2, <2>2 DEF LegsOf, RowsOf
    <2>4. QED BY <1>4, <2>1, <2>2, <2>3
<1>6. ASSUME NEW status \in {"planned", "rejected"}, Record(status), phase = "check",
             UNCHANGED <<sig, leg, approved, faults>>, phase' \in {"submit", "refused"}
      PROVE  CarriedInv'
    <2>1. leg # 0
        BY <1>0, <1>6 DEF HandlerInv
    <2>2. approved \subseteq Signal
        BY <1>0 DEF TypeOK
    <2>3. \A s \in approved : s # sig => LegsOf(s)' = LegsOf(s)
        BY <1>6, <2>2, RecordRows
    <2>4. Carried'
        BY <1>2, <1>6, <2>3
    <2>5. QED BY <1>4, <1>6, <2>1, <2>4
<1>7. CASE PlanLeg
    BY <1>6, <1>7 DEF PlanLeg
<1>8. CASE RejectLeg
    BY <1>6, <1>8 DEF RejectLeg
<1>9. ASSUME Advance, phase \in {"refused", "receipt"}, UNCHANGED <<approved, faults>>,
             \A s : LegsOf(s)' = LegsOf(s)
      PROVE  CarriedInv'
    <2>1. CASE /\ leg # 0
               /\ phase' = "check" /\ sig' = sig /\ leg' = leg + 1
        BY <1>2, <1>4, <1>9, <2>1
    <2>2. CASE phase' = "idle" /\ leg # 0 /\ ~(leg < Len(Plan(sig)))
        <3>1. leg \in DOMAIN Plan(sig) /\ sig \in Signal
            BY <1>0, <1>9, <2>2 DEF HandlerInv
        <3>2. DOMAIN Plan(sig) = 1 .. Len(Plan(sig)) /\ Len(Plan(sig)) \in Nat
            BY <3>1, PlanLegs
        <3>3. leg = Len(Plan(sig))
            <4> DEFINE n == Len(Plan(sig))
            <4>1. leg \in 1 .. n /\ n \in Nat /\ ~(leg < n)
                BY <2>2, <3>1, <3>2
            <4> HIDE DEF n
            <4>2. leg = n
                BY <1>0, <4>1
            <4>3. QED BY <4>2 DEF n
        <3>4. LegsOf(sig) = DOMAIN Plan(sig)
            BY <1>9, <2>2, <3>2, <3>3 DEF PlanInHand, Begun
        <3>5. Carried'
            BY <1>2, <1>9, <3>4
        <3>6. QED BY <1>4, <1>9, <2>2, <3>5
    <2>3. CASE phase' = "idle" /\ leg = 0
        <3>1. sig \notin approved
            BY <1>0, <1>9, <2>3 DEF CarriedInv, HandlerInv
        <3>2. Carried'
            BY <1>2, <1>9, <3>1
        <3>3. QED BY <1>4, <1>9, <2>3, <3>2
    <2>4. QED BY <1>0, <1>9, <2>1, <2>2, <2>3, AdvanceCases DEF Advance
<1>10. CASE AuditRefusal
    BY <1>9, <1>10 DEF AuditRefusal, LegsOf, RowsOf
<1>11. CASE Acknowledge
    BY <1>9, <1>11, AcknowledgeRows DEF Acknowledge
<1>12. CASE Crash \/ Abort
    <2>1. faults' # 0 /\ approved' = approved /\ phase' = "idle"
        BY <1>0, <1>12 DEF Crash, Abort, Done, tables
    <2>2. QED BY <1>4, <2>1
<1>13. CASE UNCHANGED <<intents, approved, phase, sig, leg>>
            /\ (faults' = faults \/ faults' = faults + 1)
    <2>1. faults' = 0 => faults = 0
        BY <1>0, <1>13
    <2>2. Carried'
        BY <1>2, <1>13, <2>1 DEF LegsOf, RowsOf
    <2>3. QED BY <1>4, <1>13, <2>2 DEF CarriedInv
<1>14. CASE BrokerAnswers
    <2>1. Carried'
        BY <1>2, <1>14 DEF BrokerAnswers, LegsOf, RowsOf
    <2>2. QED BY <1>4, <1>14, <2>1 DEF BrokerAnswers
<1>15. QED BY <1>3, <1>5, <1>7, <1>8, <1>10, <1>11, <1>12, <1>13, <1>14, PlanSteps

\* One more element makes a finite set larger by one at most.
LEMMA OneMore ==
    ASSUME NEW S, IsFiniteSet(S), NEW x, NEW T \in SUBSET (S \cup {x})
    PROVE  /\ Cardinality(T) <= Cardinality(S) + 1
           /\ T \subseteq S => Cardinality(T) <= Cardinality(S)
           /\ Cardinality(T) \in Nat /\ Cardinality(S) \in Nat
<1>1. /\ IsFiniteSet(S \cup {x}) /\ Cardinality(S \cup {x}) \in Nat /\ Cardinality(S) \in Nat
      /\ Cardinality(S \cup {x}) = Cardinality(S) \/ Cardinality(S \cup {x}) = Cardinality(S) + 1
    BY FS_AddElement, FS_CardinalityType
<1>2. Cardinality(T) <= Cardinality(S \cup {x}) /\ Cardinality(T) \in Nat
    BY <1>1, FS_Subset, FS_CardinalityType
<1>3. T \subseteq S => Cardinality(T) <= Cardinality(S)
    BY FS_Subset
<1>4. QED BY <1>1, <1>2, <1>3

\* A gap of the record that is not there before a step is left by a fault.
LEMMA GapsStep == IInv /\ GapsAreFaults /\ [Next]_vars => GapsAreFaults'
<1> SUFFICES ASSUME IInv, GapsAreFaults, [Next]_vars PROVE GapsAreFaults'
    OBVIOUS
<1>0. /\ HandlerInv /\ faults \in Nat /\ DOMAIN intents = 1 .. Len(intents)
      /\ Len(intents) \in Nat /\ Gaps \subseteq DOMAIN intents
    BY RowTypes DEF IInv, TypeOK, Gaps
<1>1. IsFiniteSet(Gaps)
    <2>1. IsFiniteSet(1 .. Len(intents)) /\ Gaps \subseteq 1 .. Len(intents)
        BY <1>0, FS_Interval
    <2>2. QED BY <2>1, FS_Subset
<1>2. ASSUME Gaps' \subseteq Gaps, faults' = faults \/ faults' = faults + 1 PROVE GapsAreFaults'
    <2>1. Cardinality(Gaps') <= Cardinality(Gaps) /\ Cardinality(Gaps') \in Nat
          /\ Cardinality(Gaps) \in Nat
        BY <1>1, <1>2, OneMore
    <2>2. QED BY <1>0, <1>2, <2>1 DEF GapsAreFaults
<1>3. ASSUME Gaps' \subseteq Gaps \cup {Len(intents)}, faults' = faults + 1 PROVE GapsAreFaults'
    <2>1. Cardinality(Gaps') <= Cardinality(Gaps) + 1 /\ Cardinality(Gaps') \in Nat
          /\ Cardinality(Gaps) \in Nat
        BY <1>1, <1>3, OneMore
    <2>2. QED BY <1>0, <1>3, <2>1 DEF GapsAreFaults
<1> USE DEF InHand, Current, OrderOf
<1>4. ASSUME NEW s \in Signal, RefusePlan(s) \/ ApprovePlan(s) PROVE GapsAreFaults'
    <2>1. Gaps' \subseteq Gaps /\ faults' = faults
        BY <1>4, TakeShifts DEF IInv, RefusePlan, ApprovePlan, Gaps, tables
    <2>2. QED BY <1>2, <2>1
<1>5. ASSUME NEW status \in {"planned", "rejected"}, Record(status), phase = "check",
             UNCHANGED <<sig, leg, audited, faults>>, phase' \in {"submit", "refused"}
      PROVE  GapsAreFaults'
    <2>1. leg # 0
        BY <1>0, <1>5 DEF HandlerInv
    <2>2. /\ Len(intents') = Len(intents) + 1
          /\ DOMAIN intents' = DOMAIN intents \cup {Len(intents) + 1}
          /\ \A k \in DOMAIN intents : intents'[k] = intents[k]
        BY <1>5, RecordRows
    <2>3. Gaps' \subseteq Gaps
        BY <1>5, <2>1, <2>2 DEF Gaps
    <2>4. QED BY <1>2, <1>5, <2>3
<1>6. CASE PlanLeg
    BY <1>5, <1>6 DEF PlanLeg
<1>7. CASE RejectLeg
    BY <1>5, <1>7 DEF RejectLeg
<1>8. CASE AuditRefusal
    <2>1. leg # 0 => intents[Len(intents)].sig = sig /\ intents[Len(intents)].leg = leg
                     /\ intents[Len(intents)].status = "rejected"
        BY <1>0, <1>8 DEF AuditRefusal, HandlerInv, RowInHand
    <2>2. Gaps' \subseteq Gaps /\ faults' = faults
        BY <1>8, <2>1 DEF AuditRefusal, Gaps
    <2>3. QED BY <1>2, <2>2
<1>9. CASE BrokerAnswers
    <2>1. Gaps' \subseteq Gaps /\ faults' = faults
        BY <1>9 DEF BrokerAnswers, Gaps
    <2>2. QED BY <1>2, <2>1
<1>10. CASE Acknowledge
    <2>1. intents'[Len(intents)].status \notin {"planned", "rejected"}
        BY <1>10, AcknowledgeRows
    <2>2. \A k \in DOMAIN intents : k # Len(intents) => ~InHand(k)
        BY DEF InHand
    <2>3. /\ DOMAIN intents' = DOMAIN intents
          /\ \A k \in DOMAIN intents : k # Len(intents) => intents'[k] = intents[k]
        BY <1>10, AcknowledgeRows
    <2>4. audited' = audited /\ faults' = faults
        BY <1>10 DEF Acknowledge
    <2>5. Gaps' \subseteq Gaps
        BY <2>1, <2>2, <2>3, <2>4 DEF Gaps
    <2>6. QED BY <1>2, <2>4, <2>5
<1>11. CASE Crash \/ Abort
    <2>1. Gaps' \subseteq Gaps \cup {Len(intents)} /\ faults' = faults + 1
        BY <1>11 DEF Crash, Abort, Gaps, tables
    <2>2. QED BY <1>3, <2>1
<1>12. CASE /\ UNCHANGED <<intents, orders, audited, approved, phase, sig, leg>>
            /\ faults' = faults \/ faults' = faults + 1
    <2>1. Gaps' = Gaps
        BY <1>12 DEF Gaps
    <2>2. QED BY <1>2, <1>12, <2>1
<1>13. QED BY <1>4, <1>6, <1>7, <1>8, <1>9, <1>10, <1>11, <1>12, PlanSteps

\* The notional of a leg is a natural number.
LEMMA NotionalType ==
    ASSUME NEW s \in Signal, NEW l \in DOMAIN Plan(s)
    PROVE  Notional(s, l) \in Nat
<1> DEFINE Leg == [token : DOMAIN Inventory, side : STRING, price : Nat]
<1>1. SignalLegs[s] \in Seq(Leg) /\ l \in DOMAIN SignalLegs[s]
    BY ExecutionAssumption, PlanLegs DEF ExecutionAssumption
<1>2. SignalLegs[s][l] \in Leg
    <2> HIDE DEF Leg
    <2>1. QED BY <1>1
<1>3. SignalLegs[s][l].price \in Nat /\ Sets[s] \in Nat
    BY <1>2, ExecutionAssumption DEF ExecutionAssumption
<1>4. \A a, b \in Nat : a * b \in Nat
    OBVIOUS
<1>5. QED BY <1>3, <1>4 DEF Notional

\* The orders of a signal are on different legs, so together they cost no more than its
\* plan, which was within the cap.
LEMMA CapsKept ==
    ASSUME IInv, RowsWithinPlan, BrokerInv
    PROVE  NotionalCapped
<1> SUFFICES ASSUME NEW s \in Signal
             PROVE  /\ \A i \in OrdersOf(s) : Notional(s, intents[orders[i]].leg) <= MaxOrder
                    /\ OrdersOf(s) # {} =>
                         SumFunction([i \in OrdersOf(s) |-> Notional(s, intents[orders[i]].leg)])
                            <= MaxSignal
    BY DEF NotionalCapped
<1>1. \A i \in OrdersOf(s) : Notional(s, intents[orders[i]].leg) <= MaxOrder
    BY DEF OrdersOf, BrokerInv
<1>2. SUFFICES ASSUME OrdersOf(s) # {}
               PROVE  SumFunction([i \in OrdersOf(s) |-> Notional(s, intents[orders[i]].leg)])
                         <= MaxSignal
    BY <1>1
<1> DEFINE D == DOMAIN Plan(s)
           O == OrdersOf(s)
           cost == [l \in D |-> Notional(s, l)]
           legOf == [i \in O |-> intents[orders[i]].leg]
           costOf == [i \in O |-> Notional(s, intents[orders[i]].leg)]
           used == {legOf[i] : i \in O}
<1>3. \A i \in O : /\ i \in DOMAIN orders /\ orders[i] \in DOMAIN intents
                   /\ intents[orders[i]].sig = s /\ intents[orders[i]].leg \in D
                   /\ Total(s) <= MaxSignal
    BY DEF OrdersOf, IInv, OrdersInv, RowsWithinPlan
<1>4. \A i, j \in O : legOf[i] = legOf[j] => i = j
    BY <1>3 DEF IInv, OrdersInv, RowsInv
<1>5. \A l \in D : cost[l] \in Nat
    BY NotionalType
<1>6. \A i \in O : costOf[i] = cost[legOf[i]] /\ cost[legOf[i]] \in Int
    BY <1>3, <1>5
<1>7. IsFiniteSet(O) /\ IsFiniteSet(D)
    <2>1. DOMAIN orders = 1 .. Len(orders) /\ Len(orders) \in Nat
        BY DEF IInv, TypeOK
    <2>2. IsFiniteSet(1 .. Len(orders))
        <3>1. 1 \in Int /\ Len(orders) \in Int
            BY <2>1
        <3>2. QED BY <3>1, FS_Interval
    <2>3. O \subseteq 1 .. Len(orders)
        BY <1>3, <2>1
    <2>4. IsFiniteSet(D)
        BY PlanLegs, FS_Interval
    <2>5. IsFiniteSet(O)
        BY <2>2, <2>3, FS_Subset
    <2>6. QED BY <2>4, <2>5
<1>8. used \subseteq D
    BY <1>3
<1>9. /\ Total(s) = SumFunctionOnSet(cost, D)
      /\ SumFunction(costOf) = SumFunctionOnSet(costOf, O)
    BY DEF Total, SumFunction
<1>10. Total(s) <= MaxSignal /\ MaxSignal \in Int
    BY <1>2, <1>3, ExecutionAssumption DEF ExecutionAssumption
<1> HIDE DEF D, O, cost, legOf, costOf
<1>11. SumFunctionOnSet(costOf, O) = SumFunctionOnSet(cost, used)
    BY <1>4, <1>6, <1>7, SumRenames
<1> HIDE DEF used
<1>12. SumFunctionOnSet(cost, used) <= SumFunctionOnSet(cost, D)
    BY <1>5, <1>7, <1>8, SumMonotone
<1>13. SumFunctionOnSet(cost, used) \in Int /\ SumFunctionOnSet(cost, D) \in Int
    BY <1>5, <1>7, <1>8, SumIsInteger
<1>14. SumFunction(costOf) <= MaxSignal
    BY <1>9, <1>10, <1>11, <1>12, <1>13
<1>15. QED BY <1>14 DEF costOf, O

\* What becomes of a plan is an invariant too, on top of the first one.
THEOREM PlansInductive == Spec => []PlanInv
<1>1. Init => PlanInv
    <2> SUFFICES ASSUME Init PROVE PlanInv
        OBVIOUS
    <2>1. DOMAIN intents = {} /\ DOMAIN orders = {} /\ DOMAIN sigq = {}
        BY DEF Init
    <2>2. Gaps = {} /\ faults = 0
        BY <2>1 DEF Init, Gaps
    <2>3. GapsAreFaults
        BY <2>2, FS_EmptySet DEF GapsAreFaults
    <2>4. QED BY <2>1, <2>3
              DEF Init, PlanInv, RowsWithinPlan, PlanInHand, BrokerInv, CarriedInv
<1>2. IInv /\ PlanInv /\ [Next]_vars => PlanInv'
    BY RowsWithinPlanStep, PlanInHandStep, BrokerStep, CarriedStep, GapsStep DEF PlanInv
<1>3. QED BY <1>1, <1>2, Inductive, PTL DEF Spec

\* An approved plan stays within the caps of a signal and of an order, is carried out to
\* its last leg unless a fault cuts it, and each fault leaves at most one gap in the
\* tables (task.py, _handle_signal_event; risk.py, check_plan).
THEOREM PlansAreAccounted == Spec => []PlansAccounted
<1>1. IInv /\ PlanInv => PlansAccounted
    BY CapsKept DEF PlanInv, PlansAccounted, CarriedInv, PlansCarriedOut, LegsOf
<1>2. QED BY <1>1, Inductive, PlansInductive, PTL

----------------------------------------------------------------------------
(***************************************************************************)
(* The tables implement OrderLife.                                         *)
(***************************************************************************)

\* Where the order of row i stands, in a table of rows and a list of orders.
StatusIn(rows, accepted, i) ==
    IF rows[i].status = "planned" /\ \E k \in DOMAIN accepted : accepted[k] = i
    THEN "atBroker" ELSE rows[i].status

\* The life of the orders read from that table.
LifeIn(rows, accepted) ==
    [o \in Order |->
        LET R == {i \in DOMAIN rows : <<rows[i].sig, rows[i].leg>> = o}
        IN  IF R = {} THEN "none" ELSE StatusIn(rows, accepted, CHOOSE i \in R : TRUE)]

\* Life is what is read from the tables, before and after a step.
LEMMA LifeRead == Life = LifeIn(intents, orders) /\ Life' = LifeIn(intents', orders')
BY DEF Life, LifeIn, StatusIn, RowStatus, OrderOf

\* An order is a leg of the plan of a signal.
LEMMA Orders ==
    /\ \A s \in Signal : \A l \in DOMAIN Plan(s) : <<s, l>> \in Order
    /\ \A o \in Order : o = <<o[1], o[2]>> /\ o[1] \in Signal /\ o[2] \in DOMAIN Plan(o[1])
BY DEF Order

\* With one row per leg, the life of an order is the status of its row.
LEMMA LifeOfRow ==
    ASSUME NEW rows, NEW accepted, NEW i \in DOMAIN rows,
           <<rows[i].sig, rows[i].leg>> \in Order,
           \A k, l \in DOMAIN rows :
              rows[k].sig = rows[l].sig /\ rows[k].leg = rows[l].leg => k = l
    PROVE  LifeIn(rows, accepted)[<<rows[i].sig, rows[i].leg>>] = StatusIn(rows, accepted, i)
<1> DEFINE o == <<rows[i].sig, rows[i].leg>>
           R == {k \in DOMAIN rows : <<rows[k].sig, rows[k].leg>> = o}
<1>1. R = {i}
    OBVIOUS
<1>2. (CHOOSE k \in R : TRUE) = i
    <2> HIDE DEF R
    <2>1. QED BY <1>1
<1>3. LifeIn(rows, accepted)[o] = IF R = {} THEN "none"
                                  ELSE StatusIn(rows, accepted, CHOOSE k \in R : TRUE)
    BY DEF LifeIn
<1> HIDE DEF R
<1>4. QED BY <1>1, <1>2, <1>3

\* A leg without a row has no life yet.
LEMMA LifeOfNone ==
    ASSUME NEW rows, NEW accepted, NEW o \in Order,
           \A k \in DOMAIN rows : <<rows[k].sig, rows[k].leg>> # o
    PROVE  LifeIn(rows, accepted)[o] = "none"
<1>1. {k \in DOMAIN rows : <<rows[k].sig, rows[k].leg>> = o} = {}
    OBVIOUS
<1>2. QED BY <1>1 DEF LifeIn

\* The life of an order changes only if its row or its order does.
LEMMA LifeSame ==
    ASSUME NEW o \in Order,
           {k \in DOMAIN intents' : <<intents'[k].sig, intents'[k].leg>> = o}
              = {k \in DOMAIN intents : <<intents[k].sig, intents[k].leg>> = o},
           \A k \in DOMAIN intents : <<intents[k].sig, intents[k].leg>> = o =>
              StatusIn(intents', orders', k) = StatusIn(intents, orders, k)
    PROVE  LifeIn(intents', orders')[o] = LifeIn(intents, orders)[o]
<1> DEFINE R == {k \in DOMAIN intents : <<intents[k].sig, intents[k].leg>> = o}
           c == CHOOSE k \in R : TRUE
<1>1. LifeIn(intents, orders)[o] = IF R = {} THEN "none" ELSE StatusIn(intents, orders, c)
    BY DEF LifeIn
<1>2. LifeIn(intents', orders')[o] = IF R = {} THEN "none"
                                     ELSE StatusIn(intents', orders', c)
    BY DEF LifeIn
<1>3. R # {} => c \in R
    OBVIOUS
<1> HIDE DEF c
<1>4. QED BY <1>1, <1>2, <1>3

\* A function that changes at one point only.
LEMMA LifeMoves ==
    ASSUME NEW o \in Order, NEW to, LifeIn(intents', orders')[o] = to,
           \A p \in Order : p # o => LifeIn(intents', orders')[p] = LifeIn(intents, orders)[p]
    PROVE  Life' = [Life EXCEPT ![o] = to]
<1>1. Life = LifeIn(intents, orders) /\ Life' = LifeIn(intents', orders')
    BY LifeRead
<1>2. /\ Life' = [p \in Order |-> Life'[p]] /\ Life = [p \in Order |-> Life[p]]
      /\ DOMAIN Life = Order
    BY DEF Life
<1>3. Life' = [p \in Order |-> IF p = o THEN to ELSE Life[p]]
    BY <1>1, <1>2
<1>4. QED BY <1>2, <1>3

\* Recording a leg gives life to its order, in its turn.
LEMMA RecordMoves ==
    ASSUME IInv, PlanInHand, phase = "check", sig' = sig, leg' = leg, orders' = orders,
           NEW status \in {"planned", "rejected"}, Record(status)
    PROVE  /\ <<sig, leg>> \in Order
           /\ Life[<<sig, leg>>] = "none"
           /\ Life' = [Life EXCEPT ![<<sig, leg>>] = status]
           /\ Lives!Turn(<<sig, leg>>)
<1> DEFINE o == <<sig, leg>>
           n == Len(intents) + 1
<1>1. /\ TypeOK /\ sig \in Signal /\ leg \in DOMAIN Plan(sig) /\ leg \in Nat \ {0}
      /\ LegsOf(sig) = 1 .. leg - 1
      /\ \A k \in RowsOf(sig) : intents[k].status \in Settled
    BY DEF IInv, HandlerInv, TypeOK, PlanInHand, Begun, InHand
<1>2. o \in Order
    BY <1>1, Orders
<1>3. \A k \in DOMAIN intents : intents[k].sig = sig => intents[k].leg # leg
    BY <1>1, RowTypes DEF IInv, RowsInv
<1>4. Life[o] = "none"
    BY <1>2, <1>3, LifeOfNone, LifeRead
<1>5. /\ DOMAIN intents' = DOMAIN intents \cup {n} /\ n \notin DOMAIN intents
      /\ \A k \in DOMAIN intents : intents'[k] = intents[k]
      /\ intents'[n].sig = sig /\ intents'[n].leg = leg /\ intents'[n].status = status
    BY RecordRows
<1> HIDE DEF n
<1>6. \A k, l \in DOMAIN intents' :
        intents'[k].sig = intents'[l].sig /\ intents'[k].leg = intents'[l].leg => k = l
    BY <1>3, <1>5 DEF IInv, RowsInv
<1>7. LifeIn(intents', orders')[o] = status
    <2>1. \A k \in DOMAIN orders : orders[k] # n
        BY <1>5 DEF IInv, OrdersInv
    <2>2. StatusIn(intents', orders', n) = status
        BY <1>5, <2>1 DEF StatusIn
    <2>3. n \in DOMAIN intents' /\ <<intents'[n].sig, intents'[n].leg>> = o
        BY <1>5
    <2> HIDE DEF o
    <2>4. QED BY <1>2, <1>6, <2>2, <2>3, LifeOfRow
<1>8. ASSUME NEW p \in Order, p # o
      PROVE  LifeIn(intents', orders')[p] = LifeIn(intents, orders)[p]
    <2>1. {k \in DOMAIN intents' : <<intents'[k].sig, intents'[k].leg>> = p}
            = {k \in DOMAIN intents : <<intents[k].sig, intents[k].leg>> = p}
        BY <1>5, <1>8
    <2>2. \A k \in DOMAIN intents : StatusIn(intents', orders', k) = StatusIn(intents, orders, k)
        BY <1>5 DEF StatusIn
    <2>3. QED BY <2>1, <2>2, LifeSame
<1>9. Life' = [Life EXCEPT ![o] = status]
    BY <1>2, <1>7, <1>8, LifeMoves
<1>10. ASSUME NEW p \in Order, p[1] = sig, p[2] < leg PROVE Life[p] \in Settled
    <2>1. p = <<sig, p[2]>> /\ p[2] \in 1 .. leg - 1
        BY <1>1, <1>10, Orders, PlanLegs
    <2>2. PICK k \in RowsOf(sig) : intents[k].leg = p[2]
        BY <1>1, <2>1 DEF LegsOf
    <2>3. k \in DOMAIN intents /\ <<intents[k].sig, intents[k].leg>> = p
        BY <2>1, <2>2 DEF RowsOf
    <2>4. Life[p] = StatusIn(intents, orders, k)
        BY <2>3, LifeOfRow, LifeRead DEF IInv, RowsInv
    <2>5. intents[k].status \in Settled /\ intents[k].status # "planned"
        BY <1>1, <2>2 DEF Settled
    <2>6. QED BY <2>4, <2>5 DEF StatusIn
<1>11. Lives!Turn(o)
    BY <1>10 DEF Lives!Turn, Lives!Over, Settled
<1>12. QED BY <1>2, <1>4, <1>9, <1>11

\* What appending an order to those the broker holds leaves and adds.
LEMMA AppendedOrder ==
    ASSUME NEW q \in Seq(Nat \ {0}), NEW n \in Nat \ {0}
    PROVE  /\ Len(q) \in Nat /\ DOMAIN q = 1 .. Len(q)
           /\ DOMAIN Append(q, n) = 1 .. Len(q) + 1
           /\ \A j \in 1 .. Len(q) : Append(q, n)[j] = q[j]
           /\ Append(q, n)[Len(q) + 1] = n
<1>1. Len(q) \in Nat /\ DOMAIN q = 1 .. Len(q)
    OBVIOUS
<1>2. Append(q, n) \in Seq(Nat \ {0}) /\ Len(Append(q, n)) = Len(q) + 1
    OBVIOUS
<1>3. DOMAIN Append(q, n) = 1 .. Len(q) + 1
    BY <1>2
<1>4. \A j \in 1 .. Len(q) : Append(q, n)[j] = q[j]
    BY <1>1
<1>5. Append(q, n)[Len(q) + 1] = n
    BY <1>1
<1>6. QED BY <1>1, <1>3, <1>4, <1>5

\* The order of the row in hand, when the broker answers and when it is acknowledged.
LEMMA InHandMoves ==
    ASSUME IInv, RowsWithinPlan, phase \in {"submit", "receipt"}, Len(intents) > 0,
           DOMAIN intents' = DOMAIN intents,
           \A k \in DOMAIN intents : /\ intents'[k].sig = intents[k].sig
                                     /\ intents'[k].leg = intents[k].leg
                                     /\ k # Len(intents) => intents'[k] = intents[k],
           orders' = orders \/ (phase = "submit" /\ orders' = Append(orders, Len(intents)))
    PROVE  LET o == OrderOf(Len(intents))
           IN  /\ o \in Order
               /\ Life[o] = StatusIn(intents, orders, Len(intents))
               /\ Life' = [Life EXCEPT ![o] = StatusIn(intents', orders', Len(intents))]
<1> DEFINE n == Len(intents)
           o == OrderOf(n)
           to == StatusIn(intents', orders', n)
<1>1. TypeOK /\ n \in DOMAIN intents /\ intents[n].sig \in Signal
    BY RowTypes DEF IInv
<1>2. o = <<intents[n].sig, intents[n].leg>> /\ o \in Order
    BY <1>1, Orders DEF OrderOf, RowsWithinPlan
<1>3. \A k, l \in DOMAIN intents :
        intents[k].sig = intents[l].sig /\ intents[k].leg = intents[l].leg => k = l
    BY DEF IInv, RowsInv
<1> HIDE DEF o, n
<1>4. Life[o] = StatusIn(intents, orders, n)
    BY <1>1, <1>2, <1>3, LifeOfRow, LifeRead
<1>5. LifeIn(intents', orders')[o] = to
    <2>1. \A k, l \in DOMAIN intents' :
            intents'[k].sig = intents'[l].sig /\ intents'[k].leg = intents'[l].leg => k = l
        BY <1>3
    <2>2. n \in DOMAIN intents' /\ o = <<intents'[n].sig, intents'[n].leg>>
        BY <1>1, <1>2
    <2>3. <<intents'[n].sig, intents'[n].leg>> \in Order
        BY <1>2, <2>2
    <2>4. LifeIn(intents', orders')[<<intents'[n].sig, intents'[n].leg>>]
            = StatusIn(intents', orders', n)
        <3>1. n \in DOMAIN intents'
            BY <2>2
        <3> HIDE DEF to
        <3>2. QED BY <2>1, <2>3, <3>1, LifeOfRow
    <2>5. QED BY <2>2, <2>4
<1>6. ASSUME NEW p \in Order, p # o
      PROVE  LifeIn(intents', orders')[p] = LifeIn(intents, orders)[p]
    <2>1. {k \in DOMAIN intents' : <<intents'[k].sig, intents'[k].leg>> = p}
            = {k \in DOMAIN intents : <<intents[k].sig, intents[k].leg>> = p}
        OBVIOUS
    <2>2. ASSUME NEW k \in DOMAIN intents, <<intents[k].sig, intents[k].leg>> = p
          PROVE  StatusIn(intents', orders', k) = StatusIn(intents, orders, k)
        <3>1. k # n /\ intents'[k] = intents[k]
            BY <1>2, <1>6, <2>2 DEF n
        <3>2. (\E j \in DOMAIN orders' : orders'[j] = k) <=> (\E j \in DOMAIN orders : orders[j] = k)
            <4>1. CASE orders' = orders
                BY <4>1
            <4>2. CASE orders' = Append(orders, n)
                <5>1. orders \in Seq(Nat \ {0}) /\ n \in Nat \ {0}
                    BY <1>1 DEF TypeOK, n
                <5>2. /\ DOMAIN orders' = 1 .. Len(orders) + 1 /\ Len(orders) \in Nat
                      /\ DOMAIN orders = 1 .. Len(orders)
                      /\ \A j \in 1 .. Len(orders) : orders'[j] = orders[j]
                      /\ orders'[Len(orders) + 1] = n
                    BY <4>2, <5>1, AppendedOrder
                <5>3. QED BY <3>1, <5>2
            <4>3. QED BY <4>1, <4>2 DEF n
        <3>3. QED BY <3>1, <3>2 DEF StatusIn
    <2>3. \A k \in DOMAIN intents : <<intents[k].sig, intents[k].leg>> = p =>
             StatusIn(intents', orders', k) = StatusIn(intents, orders, k)
        BY <2>2
    <2> HIDE DEF to
    <2>4. QED BY <2>1, <2>3, LifeSame
<1>7. Life' = [Life EXCEPT ![o] = to]
    BY <1>2, <1>5, <1>6, LifeMoves
<1>8. QED BY <1>2, <1>4, <1>7 DEF o, n

\* Every step of the task is a step in the life of one order, or of none.
LEMMA LifeStep == IInv /\ PlanInv /\ [Next]_vars => [Lives!Next]_Life
<1> SUFFICES ASSUME IInv, PlanInv, [Next]_vars PROVE [Lives!Next]_Life
    OBVIOUS
<1>0. PlanInHand /\ RowsWithinPlan /\ BrokerInv
    BY DEF PlanInv
<1> DEFINE n == Len(intents)
           o == OrderOf(n)
<1>1. CASE PlanLeg
    <2>1. Lives!Plan(<<sig, leg>>) /\ <<sig, leg>> \in Order
        BY <1>0, <1>1, RecordMoves DEF PlanLeg, Lives!Plan, Lives!Move
    <2>2. QED BY <2>1 DEF Lives!Next
<1>2. CASE RejectLeg
    <2>1. Lives!Reject(<<sig, leg>>) /\ <<sig, leg>> \in Order
        BY <1>0, <1>2, RecordMoves DEF RejectLeg, Lives!Reject, Lives!Move
    <2>2. QED BY <2>1 DEF Lives!Next
<1>3. CASE BrokerAnswers
    <2>1. /\ phase = "submit" /\ intents' = intents /\ RowInHand("planned") /\ n > 0
          /\ \A k \in DOMAIN orders : orders[k] # n
        BY <1>3 DEF BrokerAnswers, IInv, HandlerInv, RowInHand, OrdersInv
    <2>2. intents[n].status = "planned" /\ StatusIn(intents, orders, n) = "planned"
        BY <2>1 DEF RowInHand, StatusIn
    <2>3. CASE cfg.mode = "dry_run"
        <3>1. orders' = Append(orders, n) /\ orders \in Seq(Nat \ {0})
            BY <1>3, <2>3 DEF BrokerAnswers, Current, IInv, TypeOK
        <3>2. \E k \in DOMAIN orders' : orders'[k] = n
            <4>1. Len(orders) + 1 \in DOMAIN orders' /\ orders'[Len(orders) + 1] = n
                <5>1. n \in Nat \ {0}
                    BY <2>1 DEF IInv, TypeOK
                <5>2. Len(orders) \in Nat /\ DOMAIN orders' = 1 .. Len(orders) + 1
                    BY <3>1, <5>1, AppendedOrder
                <5>3. orders'[Len(orders) + 1] = n
                    BY <3>1, <5>1, AppendedOrder
                <5>4. QED BY <5>2, <5>3
            <4>2. QED BY <4>1
        <3>3. StatusIn(intents', orders', n) = "atBroker"
            BY <2>1, <2>2, <3>2 DEF StatusIn
        <3>4. o \in Order /\ Life[o] = "planned" /\ Life' = [Life EXCEPT ![o] = "atBroker"]
            BY <1>0, <2>1, <2>2, <3>1, <3>3, InHandMoves
        <3>5. QED BY <3>4 DEF Lives!Next, Lives!Accept, Lives!Move
    <2>4. CASE cfg.mode # "dry_run"
        BY <1>3, <2>1, <2>4 DEF BrokerAnswers, Life, RowStatus, OrderOf
    <2>5. QED BY <2>3, <2>4
<1>4. CASE Acknowledge
    <2>1. phase = "receipt" /\ orders' = orders /\ RowInHand("planned") /\ n > 0
        BY <1>4 DEF Acknowledge, IInv, HandlerInv, RowInHand
    <2>2. intents[n].status = "planned"
        BY <2>1 DEF RowInHand
    <2>3. (\E k \in DOMAIN orders : orders[k] = n) <=> cfg.mode = "dry_run"
        BY <1>0, <2>1 DEF BrokerInv, Current
    <2>4. intents'[n].status = IF cfg.mode = "dry_run" THEN "submitted" ELSE "failed"
        BY <1>4, AcknowledgeRows
    <2>5. /\ StatusIn(intents, orders, n) = IF cfg.mode = "dry_run" THEN "atBroker" ELSE "planned"
          /\ StatusIn(intents', orders', n) = IF cfg.mode = "dry_run" THEN "submitted" ELSE "failed"
        BY <2>2, <2>3, <2>4 DEF StatusIn
    <2>6. /\ o \in Order
          /\ Life[o] = IF cfg.mode = "dry_run" THEN "atBroker" ELSE "planned"
          /\ Life' = [Life EXCEPT ![o] = IF cfg.mode = "dry_run" THEN "submitted" ELSE "failed"]
        BY <1>0, <1>4, <2>1, <2>5, AcknowledgeRows, InHandMoves
    <2>7. Lives!Acknowledge(o) \/ Lives!Fail(o)
        BY <2>6 DEF Lives!Acknowledge, Lives!Fail, Lives!Move
    <2>8. QED BY <2>6, <2>7 DEF Lives!Next
<1>5. CASE UNCHANGED <<intents, orders>>
    BY <1>5 DEF Life, RowStatus, OrderOf
<1>6. QED BY <1>1, <1>2, <1>3, <1>4, <1>5, PlanSteps
          DEF RefusePlan, ApprovePlan, AuditRefusal, Crash, Abort, tables

\* The tables and the broker implement OrderLife (task.py:81-109): an order only moves
\* forward, and a leg is begun only when those before it are over, whatever the faults,
\* the crashes and the restarts.
THEOREM OrderLifeImplemented == Spec => ImplementsOrderLife
<1>1. Init => Lives!Init
    BY DEF Init, Lives!Init, Life
<1>2. QED BY <1>1, LifeStep, Inductive, PlansInductive, PTL
          DEF Spec, ImplementsOrderLife, Lives!Spec
============================================================================
