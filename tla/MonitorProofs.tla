---------------------------- MODULE MonitorProofs ----------------------------
(***************************************************************************)
(* The watchdog, for every set of components, markets and texts and every  *)
(* age: its state keeps its shape, what the operator heard is what it      *)
(* holds to be firing unless a message was lost or the process restarted,  *)
(* and every row above the threshold is reported, once in a pass, and not  *)
(* more than twice but for the passes that failed.                         *)
(***************************************************************************)
EXTENDS Monitor, FiniteSetTheorems, TLAPS

Written == [about : {Drift} \cup Market, text : Text \cup {NoText}, ts : 1 .. MaxTime]

\* The rows are finitely many and stamped one after the other.
RowsInv ==
    /\ IsFiniteSet(rows)
    /\ \A r \in rows : r.ts <= clock
    /\ \A r, q \in rows : r.ts = q.ts => r = q

\* A row that waits for the write lock is the youngest; of what has not been written
\* nothing was reported.
PendingInv ==
    /\ pending # NoRow => /\ pending \in Written
                          /\ reports[pending.ts] = 0
                          /\ \A r \in rows : r.ts < pending.ts
    /\ \A t \in 1 .. MaxTime : t > clock => reports[t] = 0

\* What a message about drift counts are rows younger than last_check.
ListInv ==
    mpc = "tell_drift" => \A r \in todo : r \in rows /\ r.about = Drift /\ r.ts > lastCheck

\* The pass under way has read the table r belongs to.
ReadNow(r) == mpc # "idle" /\ ReadAlready(r.about)

\* The pass under way still has to send its message about r.
Listed(r) ==
    \/ mpc = "tell_drift" /\ r \in todo
    \/ mpc = "tell_rules" /\ r.about \in todo

\* Nothing is passed over: a row from before last_check has been reported, one from
\* before the pass that read it has been, or is about to be.
ReportedInv ==
    \A r \in rows :
        r.ts > started /\ Notable(r) /\ ~r.late =>
            /\ r.ts <= lastCheck => reports[r.ts] > 0
            /\ r.ts <= now /\ ReadNow(r) => reports[r.ts] > 0 \/ Listed(r)

\* The pass under way has sent what it has to send about r.
AlreadyTold(r) ==
    \/ mpc = "finish"
    \/ r.about = Drift /\ mpc \in {"read_rules", "tell_rules"}
    \/ r.about # Drift /\ mpc = "tell_rules" /\ r.about \notin todo

\* How often r may have been reported: by the pass it was written in, by the next one,
\* and by those that failed.
Most(r) ==
    IF r.ts <= lastCheck THEN 2 + fails
    ELSE IF mpc = "idle" THEN 1 + fails
    ELSE (IF r.ts <= now THEN 1 + fails ELSE 0) + (IF AlreadyTold(r) THEN 1 ELSE 0)

NotTooOften == \A r \in rows : reports[r.ts] <= Most(r)

IInv ==
    /\ TypeOK /\ RowsInv /\ PendingInv /\ ListInv
    /\ PictureExplained /\ ReportedInv /\ NotTooOften

----------------------------------------------------------------------------

\* The steps of the engine, and those of the monitor.
EngineStep ==
    \/ Tick
    \/ \E c \in Component : Beat(c)
    \/ \E about \in {Drift} \cup Market, text \in Text \cup {NoText} : Stamp(about, text)
    \/ Commit

MonitorStep == Pass \/ Fail \/ Restart

\* The shape of what the engine writes, and of what the monitor keeps.
EngineOK ==
    /\ clock \in 0 .. MaxTime
    /\ beat \in [Component -> {Missing} \cup (0 .. clock)]
    /\ file \in {Missing} \cup (0 .. clock)
    /\ rows \subseteq Row
    /\ pending = NoRow \/ pending.ts \in 1 .. clock

MonitorOK ==
    /\ mpc \in {"idle"} \cup Reads \cup Sends
    /\ now \in started .. clock
    /\ lastCheck \in started .. now
    /\ active \in [Key -> BOOLEAN]
    /\ todo \subseteq IF mpc = "tell_drift" THEN Row ELSE Key \cup Market
    /\ mpc \in Sends \ {"tell_file"} <=> todo # {}
    /\ started \in 0 .. clock

HistoryOK ==
    /\ heard \in [Key -> BOOLEAN]
    /\ reports \in [1 .. MaxTime -> Nat]
    /\ lost \in 0 .. MaxFaults /\ fails \in 0 .. MaxFaults /\ restarts \in 0 .. MaxFaults

\* The bounds of the model are numbers.
LEMMA Bounds == MaxTime \in Nat /\ MaxFaults \in Nat
BY MonitorAssumption DEF MonitorAssumption

\* These parts make up the shape.
LEMMA TypeParts ==
    /\ TypeOK <=> EngineOK /\ MonitorOK /\ HistoryOK
    /\ TypeOK' <=> EngineOK' /\ MonitorOK' /\ HistoryOK'
BY DEF TypeOK, EngineOK, MonitorOK, HistoryOK

\* Every step of the engine keeps the shape of the state.
LEMMA EngineTyped == ASSUME TypeOK, PendingInv, EngineStep PROVE TypeOK'
<1> USE Bounds DEF pass, budget
<1>1. EngineOK /\ MonitorOK /\ HistoryOK
    BY TypeParts
<1>2. CASE Tick
    <2>1. EngineOK'
        BY <1>1, <1>2 DEF Tick, EngineOK
    <2>2. MonitorOK' /\ HistoryOK'
        BY <1>1, <1>2 DEF Tick, EngineOK, MonitorOK, HistoryOK
    <2>3. QED BY <2>1, <2>2, TypeParts
<1>3. ASSUME NEW c \in Component, Beat(c) PROVE TypeOK'
    <2>1. EngineOK'
        BY <1>1, <1>3 DEF Beat, EngineOK
    <2>2. MonitorOK' /\ HistoryOK'
        BY <1>1, <1>3 DEF Beat, MonitorOK, HistoryOK
    <2>3. QED BY <2>1, <2>2, TypeParts
<1>4. ASSUME NEW about \in {Drift} \cup Market, NEW text \in Text \cup {NoText}, Stamp(about, text)
      PROVE  TypeOK'
    <2>1. /\ clock < MaxTime /\ clock' = clock + 1
          /\ pending'.ts = clock + 1
          /\ UNCHANGED <<beat, file, rows, pass, heard, reports, budget>>
        BY <1>4 DEF Stamp
    <2>2. EngineOK'
        BY <1>1, <2>1 DEF EngineOK
    <2>3. MonitorOK' /\ HistoryOK'
        BY <1>1, <2>1 DEF EngineOK, MonitorOK, HistoryOK
    <2>4. QED BY <2>2, <2>3, TypeParts
<1>5. CASE Commit
    <2>1. PICK late \in BOOLEAN :
             rows' = rows \cup {[about |-> pending.about, text |-> pending.text,
                                 ts |-> pending.ts, late |-> late]}
        BY <1>5 DEF Commit, ReadAlready
    <2>2. /\ pending.about \in {Drift} \cup Market /\ pending.text \in Text \cup {NoText}
          /\ pending.ts \in 1 .. MaxTime /\ rows \subseteq Row
        BY <1>1, <1>5 DEF Commit, EngineOK, PendingInv, Written
    <2>3. rows' \subseteq Row
        BY <2>1, <2>2 DEF Row
    <2>4. EngineOK'
        BY <1>1, <1>5, <2>3 DEF Commit, EngineOK
    <2>5. MonitorOK' /\ HistoryOK'
        BY <1>1, <1>5 DEF Commit, MonitorOK, HistoryOK
    <2>6. QED BY <2>4, <2>5, TypeParts
<1>6. QED BY <1>2, <1>3, <1>4, <1>5 DEF EngineStep

\* A message, delivered or lost.
LEMMA Sent ==
    ASSUME HistoryOK, NEW k \in Key, NEW b \in BOOLEAN, Send(k, b)
    PROVE  /\ heard' \in [Key -> BOOLEAN]
           /\ lost' \in 0 .. MaxFaults /\ lost' >= lost
           /\ lost' = lost => heard' = [heard EXCEPT ![k] = b]
BY Bounds DEF HistoryOK, Send, MayFail

\* So does every statement of a pass, its failure, and a restart.
LEMMA PassTyped == ASSUME TypeOK, MonitorStep PROVE TypeOK'
<1> USE Bounds DEF engine, budget, Key, Reads, Sends, MayFail
<1>1. EngineOK /\ MonitorOK /\ HistoryOK
    BY TypeParts
<1>2. CASE ReadFile
    BY <1>2 DEF ReadFile, TypeOK
<1>3. CASE TellFile
    <2>1. heard' \in [Key -> BOOLEAN] /\ lost' \in 0 .. MaxFaults
        BY <1>1, <1>3, Sent DEF TellFile, MonitorOK
    <2>2. EngineOK' /\ MonitorOK'
        BY <1>1, <1>3 DEF TellFile, EngineOK, MonitorOK
    <2>3. HistoryOK'
        BY <1>1, <1>3, <2>1 DEF TellFile, HistoryOK
    <2>4. QED BY <2>2, <2>3, TypeParts
<1>4. CASE ReadBeats
    BY <1>4 DEF ReadBeats, Tell, TypeOK
<1>5. CASE ReadAgain
    BY <1>5 DEF ReadAgain, Tell, TypeOK
<1>6. ASSUME NEW c \in Component, TellStale(c) PROVE TypeOK'
    <2>1. heard' \in [Key -> BOOLEAN] /\ lost' \in 0 .. MaxFaults
        BY <1>1, <1>6, Sent DEF TellStale
    <2>2. EngineOK' /\ MonitorOK'
        BY <1>1, <1>6 DEF TellStale, Told, EngineOK, MonitorOK
    <2>3. HistoryOK'
        BY <1>1, <1>6, <2>1 DEF TellStale, HistoryOK
    <2>4. QED BY <2>2, <2>3, TypeParts
<1>7. ASSUME NEW c \in Component, TellClear(c) PROVE TypeOK'
    <2>1. heard' \in [Key -> BOOLEAN] /\ lost' \in 0 .. MaxFaults
        BY <1>1, <1>7, Sent DEF TellClear
    <2>2. EngineOK' /\ MonitorOK'
        BY <1>1, <1>7 DEF TellClear, Told, EngineOK, MonitorOK
    <2>3. HistoryOK'
        BY <1>1, <1>7, <2>1 DEF TellClear, HistoryOK
    <2>4. QED BY <2>2, <2>3, TypeParts
<1>8. CASE ReadDrift
    BY <1>8 DEF ReadDrift, Tell, TypeOK
<1>9. CASE TellDrift
    BY <1>9 DEF TellDrift, Reported, TypeOK
<1>10. CASE ReadRules
    BY <1>10 DEF ReadRules, Tell, TypeOK
<1>11. ASSUME NEW m \in Market, TellRules(m) PROVE TypeOK'
    BY <1>11 DEF TellRules, Reported, Told, TypeOK
<1>12. CASE Finish
    BY <1>12 DEF Finish, TypeOK
<1>13. CASE Fail
    BY <1>13 DEF Fail, TypeOK
<1>14. CASE Restart
    BY <1>14 DEF Restart, TypeOK
<1>15. QED BY <1>2, <1>3, <1>4, <1>5, <1>6, <1>7, <1>8, <1>9, <1>10, <1>11, <1>12, <1>13, <1>14
           DEF MonitorStep, Pass

\* Next is made of the two.
LEMMA Steps == [Next]_vars => EngineStep \/ MonitorStep \/ UNCHANGED vars
BY DEF Next, EngineStep, MonitorStep

\* Every step keeps the shape of the state.
LEMMA TypeStep == TypeOK /\ PendingInv /\ [Next]_vars => TypeOK'
<1>1. ASSUME TypeOK, UNCHANGED vars PROVE TypeOK'
    BY <1>1 DEF vars, TypeOK
<1>2. QED BY <1>1, EngineTyped, PassTyped, Steps

----------------------------------------------------------------------------

\* The engine leaves the monitor and its messages alone, and the other way round.
LEMMA EngineLeaves == EngineStep => UNCHANGED <<pass, heard, reports, budget>>
BY DEF EngineStep, Tick, Beat, Stamp, Commit

LEMMA MonitorLeaves == MonitorStep => UNCHANGED engine
BY DEF MonitorStep, Pass, ReadFile, TellFile, ReadBeats, TellStale, ReadAgain, TellClear,
       ReadDrift, TellDrift, ReadRules, TellRules, Finish, Fail, Restart

\* The fields of a row.
LEMMA RowFields ==
    ASSUME TypeOK
    PROVE  \A r \in rows : r.ts \in 1 .. MaxTime /\ r.about \in {Drift} \cup Market
BY DEF TypeOK, Row

\* What a message about some rows counts.
LEMMA ReportedOnce ==
    ASSUME TypeOK, NEW set, Reported(set)
    PROVE  /\ \A t \in 1 .. MaxTime : (\E r \in set : r.ts = t) => reports'[t] = reports[t] + 1
           /\ \A t \in 1 .. MaxTime : ~(\E r \in set : r.ts = t) => reports'[t] = reports[t]
BY DEF TypeOK, Reported

\* A step of the monitor counts at most one message more about a stamp, and only about
\* one of a row.
LEMMA ReportsOfRows ==
    ASSUME TypeOK, ListInv, MonitorStep
    PROVE  \A t \in 1 .. MaxTime :
              \/ reports'[t] = reports[t]
              \/ reports'[t] = reports[t] + 1 /\ \E r \in rows : r.ts = t
<1>1. CASE TellDrift
    <2>1. Reported(todo) /\ \A r \in todo : r \in rows
        BY <1>1 DEF TellDrift, ListInv
    <2>2. QED BY <2>1, ReportedOnce
<1>2. ASSUME NEW m \in Market, TellRules(m)
      PROVE  \A t \in 1 .. MaxTime :
                \/ reports'[t] = reports[t]
                \/ reports'[t] = reports[t] + 1 /\ \E r \in rows : r.ts = t
    <2> DEFINE set == {r \in RulesOf(m) : r.ts > lastCheck}
    <2>1. Reported(set) /\ \A r \in set : r \in rows
        BY <1>2 DEF TellRules, RulesOf
    <2> HIDE DEF set
    <2>2. QED BY <2>1, ReportedOnce
<1>3. CASE reports' = reports
    BY <1>3
<1>4. TellDrift \/ (\E m \in Market : TellRules(m)) \/ reports' = reports
    BY DEF MonitorStep, Pass, ReadFile, TellFile, ReadBeats, TellStale, ReadAgain, TellClear,
           ReadDrift, ReadRules, Finish, Fail, Restart
<1>5. QED BY <1>1, <1>2, <1>3, <1>4

\* Every step keeps the rows stamped one after the other.
LEMMA RowsStep == TypeOK /\ RowsInv /\ PendingInv /\ [Next]_vars => RowsInv'
<1> SUFFICES ASSUME TypeOK, RowsInv, PendingInv, [Next]_vars PROVE RowsInv'
    OBVIOUS
<1>1. clock \in Nat
    BY Bounds DEF TypeOK
<1>2. CASE Commit
    <2>1. PICK late : rows' = rows \cup {[about |-> pending.about, text |-> pending.text,
                                          ts |-> pending.ts, late |-> late]}
        BY <1>2 DEF Commit
    <2> DEFINE new == [about |-> pending.about, text |-> pending.text, ts |-> pending.ts,
                       late |-> late]
    <2>2. new.ts = pending.ts
        OBVIOUS
    <2>3. pending.ts \in 1 .. clock /\ clock' = clock
        BY <1>2 DEF Commit, TypeOK
    <2>4. \A r \in rows : r.ts < pending.ts /\ r.ts \in 1 .. MaxTime
        BY <1>2, RowFields DEF Commit, PendingInv
    <2> HIDE DEF new
    <2>5. rows' = rows \cup {new}
        BY <2>1 DEF new
    <2>6. IsFiniteSet(rows')
        BY <2>5, FS_AddElement DEF RowsInv
    <2>7. \A r \in rows' : r.ts <= clock'
        BY <2>2, <2>3, <2>5 DEF RowsInv
    <2>8. \A r, q \in rows' : r.ts = q.ts => r = q
        <3>1. pending.ts \in Nat
            BY <2>3
        <3>2. \A r \in rows : r.ts # new.ts
            BY <2>2, <2>4, <3>1
        <3>3. QED BY <2>5, <3>2 DEF RowsInv
    <2>9. QED BY <2>6, <2>7, <2>8 DEF RowsInv
<1>3. ASSUME rows' = rows, clock' \in {clock, clock + 1} PROVE RowsInv'
    <2>1. \A r \in rows : r.ts \in 1 .. MaxTime
        BY RowFields
    <2>2. QED BY <1>1, <1>3, <2>1 DEF RowsInv
<1>4. CASE Tick
    BY <1>3, <1>4 DEF Tick
<1>5. ASSUME NEW c \in Component, Beat(c) PROVE RowsInv'
    BY <1>3, <1>5 DEF Beat
<1>6. ASSUME NEW about \in {Drift} \cup Market, NEW text \in Text \cup {NoText},
             Stamp(about, text)
      PROVE  RowsInv'
    BY <1>3, <1>6 DEF Stamp
<1>7. CASE MonitorStep
    BY <1>3, <1>7, MonitorLeaves DEF engine
<1>8. CASE UNCHANGED vars
    BY <1>3, <1>8 DEF vars
<1>9. QED BY <1>2, <1>4, <1>5, <1>6, <1>7, <1>8, Steps DEF EngineStep

\* Every step keeps the row that waits the youngest, and what is not written unreported.
LEMMA PendingStep ==
    TypeOK /\ RowsInv /\ PendingInv /\ ListInv /\ [Next]_vars => PendingInv'
<1> SUFFICES ASSUME TypeOK, RowsInv, PendingInv, ListInv, [Next]_vars PROVE PendingInv'
    OBVIOUS
<1>1. clock \in Nat /\ MaxTime \in Nat
    BY Bounds DEF TypeOK
<1>2. CASE Tick
    BY <1>1, <1>2 DEF Tick, PendingInv
<1>3. ASSUME NEW c \in Component, Beat(c) PROVE PendingInv'
    BY <1>3 DEF Beat, PendingInv
<1>4. ASSUME NEW about \in {Drift} \cup Market, NEW text \in Text \cup {NoText},
             Stamp(about, text)
      PROVE  PendingInv'
    <2>1. /\ clock < MaxTime /\ clock' = clock + 1 /\ rows' = rows /\ reports' = reports
          /\ pending' = [about |-> about, text |-> text, ts |-> clock + 1]
        BY <1>4 DEF Stamp
    <2>2. clock + 1 \in 1 .. MaxTime /\ pending'.ts = clock + 1
        BY <1>1, <2>1
    <2>3. pending' \in Written
        BY <2>1, <2>2 DEF Written
    <2>4. \A r \in rows : r.ts < clock + 1
        BY <1>1, RowFields DEF RowsInv
    <2>5. QED BY <1>1, <2>1, <2>2, <2>3, <2>4 DEF PendingInv
<1>5. CASE Commit
    BY <1>5 DEF Commit, PendingInv
<1>6. CASE MonitorStep
    <2>1. UNCHANGED engine
        BY <1>6, MonitorLeaves
    <2>2. ASSUME pending # NoRow PROVE reports'[pending.ts] = 0
        <3>1. pending.ts \in 1 .. MaxTime /\ reports[pending.ts] = 0
            BY <2>2 DEF PendingInv, Written
        <3>2. ~ \E r \in rows : r.ts = pending.ts
            BY <2>2, <3>1, RowFields DEF PendingInv
        <3>3. QED BY <1>6, <3>1, <3>2, ReportsOfRows
    <2>3. ASSUME NEW t \in 1 .. MaxTime, t > clock PROVE reports'[t] = 0
        <3>1. ~ \E r \in rows : r.ts = t
            BY <1>1, <2>3, RowFields DEF RowsInv
        <3>2. QED BY <1>6, <2>3, <3>1, ReportsOfRows DEF PendingInv
    <2>4. QED BY <2>1, <2>2, <2>3 DEF PendingInv, engine
<1>7. CASE UNCHANGED vars
    BY <1>7 DEF vars, PendingInv
<1>8. QED BY <1>2, <1>3, <1>4, <1>5, <1>6, <1>7, Steps DEF EngineStep

----------------------------------------------------------------------------

\* What the operator heard and what the monitor holds to be firing move together.
LEMMA PictureStep == TypeOK /\ PictureExplained /\ [Next]_vars => PictureExplained'
<1> SUFFICES ASSUME TypeOK, PictureExplained, [Next]_vars,
                    lost' = 0, restarts' = 0
             PROVE  heard' = active'
    BY DEF PictureExplained
<1>1. /\ HistoryOK /\ active \in [Key -> BOOLEAN]
      /\ lost \in Nat /\ restarts \in Nat /\ fails \in Nat
    BY Bounds, TypeParts DEF MonitorOK, HistoryOK
<1>2. lost = 0 /\ restarts = 0 => heard = active
    BY DEF PictureExplained
<1>3. CASE EngineStep
    BY <1>2, <1>3, EngineLeaves DEF pass, budget
<1>4. CASE TellFile
    <2> DEFINE b == ~active[File]
    <2>1. Send(File, b) /\ File \in Key /\ b \in BOOLEAN
        BY <1>1, <1>4, Zenon DEF TellFile, Key
    <2> HIDE DEF b
    <2>2. lost' >= lost /\ (lost' = lost => heard' = [heard EXCEPT ![File] = b])
        BY <1>1, <2>1, Sent
    <2>3. restarts = 0 /\ active' = [active EXCEPT ![File] = b]
        BY <1>4 DEF TellFile, b
    <2>4. QED BY <1>1, <1>2, <2>2, <2>3
<1>5. ASSUME NEW c \in Component, TellStale(c) PROVE heard' = active'
    <2>1. Send(c, TRUE) /\ c \in Key
        BY <1>5 DEF TellStale, Key
    <2>2. lost' >= lost /\ (lost' = lost => heard' = [heard EXCEPT ![c] = TRUE])
        BY <1>1, <2>1, Sent
    <2>3. restarts = 0 /\ active' = [active EXCEPT ![c] = TRUE]
        BY <1>5 DEF TellStale
    <2>4. QED BY <1>1, <1>2, <2>2, <2>3
<1>6. ASSUME NEW c \in Component, TellClear(c) PROVE heard' = active'
    <2>1. Send(c, FALSE) /\ c \in Key
        BY <1>6 DEF TellClear, Key
    <2>2. lost' >= lost /\ (lost' = lost => heard' = [heard EXCEPT ![c] = FALSE])
        BY <1>1, <2>1, Sent
    <2>3. restarts = 0 /\ active' = [active EXCEPT ![c] = FALSE]
        BY <1>6 DEF TellClear
    <2>4. QED BY <1>1, <1>2, <2>2, <2>3
<1>7. CASE Restart
    BY <1>1, <1>7 DEF Restart
<1>8. CASE UNCHANGED <<lost, restarts, heard, active>>
    BY <1>2, <1>8
<1>9. MonitorStep => \/ TellFile \/ Restart
                     \/ \E c \in Component : TellStale(c) \/ TellClear(c)
                     \/ UNCHANGED <<lost, restarts, heard, active>>
    BY DEF MonitorStep, Pass, ReadFile, ReadBeats, ReadAgain, ReadDrift, TellDrift, ReadRules,
           TellRules, Finish, Fail, budget
<1>10. UNCHANGED vars => UNCHANGED <<lost, restarts, heard, active>>
    BY DEF vars
<1>11. QED BY <1>3, <1>4, <1>5, <1>6, <1>7, <1>8, <1>9, <1>10, Steps

----------------------------------------------------------------------------

\* What the reports of the rows owe to the pass.
Accounts == ListInv /\ ReportedInv /\ NotTooOften

\* The statements of a pass before it reads a table of rows, and the sleep.
Early == {"idle", "tell_file", "read_beats", "tell_stale", "read_again", "tell_clear", "read_drift"}

\* Whether a row calls for a message depends on the rows alone.
LEMMA NotableSame == ASSUME rows' = rows PROVE \A r : Notable(r)' <=> Notable(r)
BY DEF Notable, RulesOf

\* The numbers of a state.
LEMMA Numbers ==
    ASSUME TypeOK
    PROVE  /\ clock \in Nat /\ now \in Nat /\ lastCheck \in Nat /\ started \in Nat /\ fails \in Nat
           /\ started <= lastCheck /\ lastCheck <= now /\ now <= clock
           /\ \A r \in rows : r.ts \in Nat /\ reports[r.ts] \in Nat
<1>1. /\ clock \in Nat /\ now \in Nat /\ lastCheck \in Nat /\ started \in Nat /\ fails \in Nat
      /\ started <= lastCheck /\ lastCheck <= now /\ now <= clock
    BY Bounds, TypeParts DEF EngineOK, MonitorOK, HistoryOK
<1>2. \A r \in rows : r.ts \in Nat /\ reports[r.ts] \in Nat
    BY Bounds, RowFields DEF TypeOK
<1>3. QED BY <1>1, <1>2

\* The accounts do not depend on what else the engine does.
LEMMA AccountsSame ==
    ASSUME Accounts, UNCHANGED <<rows, mpc, now, lastCheck, todo, started, reports, fails>>
    PROVE  Accounts'
<1>1. ListInv'
    BY DEF Accounts, ListInv
<1>2. ReportedInv'
    BY NotableSame DEF Accounts, ReportedInv, ReadNow, ReadAlready, Listed
<1>3. NotTooOften'
    BY DEF Accounts, NotTooOften, Most, AlreadyTold
<1>4. QED BY <1>1, <1>2, <1>3 DEF Accounts

\* A new row has not been reported; if it is not late, no pass has looked for it.
LEMMA CommitAccounts == ASSUME TypeOK, RowsInv, PendingInv, Accounts, Commit PROVE Accounts'
<1> DEFINE late == \/ pending.ts <= lastCheck
                   \/ pending.ts <= now /\ ReadAlready(pending.about)
           new == [about |-> pending.about, text |-> pending.text, ts |-> pending.ts,
                   late |-> late]
<1>1. rows' = rows \cup {new}
    BY DEF Commit
<1>2. new.ts = pending.ts /\ new.about = pending.about /\ (new.late <=> late)
    OBVIOUS
<1>3. /\ pending.ts \in 1 .. MaxTime /\ reports[pending.ts] = 0
      /\ \A r \in rows : r.ts < pending.ts
    BY DEF Commit, PendingInv, Written
<1>4. UNCHANGED <<mpc, now, lastCheck, todo, started, reports, fails>>
    BY DEF Commit, pass, budget
<1> HIDE DEF new
<1>5. ListInv'
    BY <1>1, <1>4 DEF Accounts, ListInv
<1>6. ReportedInv'
    <2>1. ASSUME NEW r \in rows', r.ts > started', Notable(r)', ~r.late
          PROVE  /\ r.ts <= lastCheck' => reports'[r.ts] > 0
                 /\ r.ts <= now' /\ ReadNow(r)' => reports'[r.ts] > 0 \/ Listed(r)'
        <3>1. CASE r = new
            BY <1>2, <1>4, <2>1, <3>1 DEF ReadNow, ReadAlready
        <3>2. CASE r \in rows
            <4>1. \A q \in rows' : q.ts < r.ts => q \in rows
                BY <1>1, <1>2, <1>3, <3>2, Numbers
            <4>2. Notable(r)
                BY <2>1, <4>1 DEF Notable, RulesOf
            <4>3. r.ts > started
                BY <1>4, <2>1
            <4>4. /\ r.ts <= lastCheck => reports[r.ts] > 0
                  /\ r.ts <= now /\ ReadNow(r) => reports[r.ts] > 0 \/ Listed(r)
                BY <2>1, <3>2, <4>2, <4>3 DEF Accounts, ReportedInv
            <4>5. QED BY <1>4, <4>4 DEF ReadNow, ReadAlready, Listed
        <3>3. QED BY <1>1, <3>1, <3>2
    <2>2. QED BY <2>1 DEF ReportedInv
<1>7. NotTooOften'
    <2>1. Most(new) >= 0
        BY Numbers DEF Most
    <2>2. \A r \in rows' : reports[r.ts] <= Most(r)
        BY <1>1, <1>2, <1>3, <2>1 DEF Accounts, NotTooOften
    <2>3. \A r : Most(r)' = Most(r)
        BY <1>4 DEF Most, AlreadyTold
    <2>4. QED BY <1>4, <2>2, <2>3 DEF NotTooOften
<1>8. QED BY <1>5, <1>6, <1>7 DEF Accounts

\* The statements about the file and the beats come before those about rows.
LEMMA EarlyAccounts ==
    ASSUME TypeOK, RowsInv, Accounts,
           mpc \in Early, mpc' \in Early \ {"idle"},
           UNCHANGED <<rows, lastCheck, started, reports, fails>>,
           now' = IF mpc = "idle" THEN clock ELSE now
    PROVE  Accounts'
<1> USE DEF Early
<1>1. ListInv'
    BY DEF ListInv
<1>2. ReportedInv'
    BY NotableSame DEF Accounts, ReportedInv, ReadNow, ReadAlready
<1>3. ASSUME NEW r \in rows PROVE Most(r)' >= Most(r)
    <2>1. ~AlreadyTold(r) /\ ~AlreadyTold(r)'
        BY DEF AlreadyTold
    <2>2. r.ts <= clock
        BY DEF RowsInv
    <2>3. QED BY <2>1, <2>2, Numbers DEF Most
<1>4. NotTooOften'
    <2>1. ASSUME NEW r \in rows PROVE reports'[r.ts] <= Most(r)'
        <3>1. Most(r) \in Int /\ Most(r)' \in Int /\ reports[r.ts] \in Nat
            BY Numbers DEF Most
        <3>2. QED BY <1>3, <3>1 DEF Accounts, NotTooOften
    <2>2. QED BY <2>1 DEF NotTooOften
<1>5. QED BY <1>1, <1>2, <1>4 DEF Accounts

\* The rows about drift that are read are those the message is about.
LEMMA ReadDriftAccounts == ASSUME TypeOK, Accounts, ReadDrift PROVE Accounts'
<1> DEFINE set == {r \in rows : r.about = Drift /\ r.ts > lastCheck}
<1>1. /\ mpc = "read_drift" /\ todo' = set
      /\ mpc' = IF set = {} THEN "read_rules" ELSE "tell_drift"
      /\ UNCHANGED <<rows, now, lastCheck, started, reports, fails>>
    BY DEF ReadDrift, Tell, engine, budget
<1>2. ListInv'
    BY <1>1 DEF ListInv
<1>3. ReportedInv'
    <2>1. ASSUME NEW r \in rows, r.ts > started, Notable(r), ~r.late
          PROVE  /\ r.ts <= lastCheck => reports[r.ts] > 0
                 /\ r.ts <= now /\ ReadNow(r)' => reports[r.ts] > 0 \/ Listed(r)'
        <3>1. r.ts <= lastCheck => reports[r.ts] > 0
            BY <2>1 DEF Accounts, ReportedInv
        <3>2. ASSUME ReadNow(r)', ~(r.ts <= lastCheck) PROVE Listed(r)'
            <4>1. r.about = Drift
                BY <1>1, <3>2 DEF ReadNow, ReadAlready
            <4>2. r \in set
                BY <3>2, <4>1, Numbers
            <4>3. QED BY <1>1, <4>2 DEF Listed
        <3>3. QED BY <3>1, <3>2
    <2>2. QED BY <1>1, <2>1, NotableSame DEF ReportedInv
<1>4. \A r \in rows : Most(r)' >= Most(r) /\ Most(r) \in Int /\ Most(r)' \in Int
    BY <1>1, Numbers DEF Most, AlreadyTold
<1>5. NotTooOften'
    BY <1>1, <1>4, Numbers DEF Accounts, NotTooOften
<1>6. QED BY <1>2, <1>3, <1>5 DEF Accounts

\* The message about drift counts each of them once.
LEMMA TellDriftAccounts == ASSUME TypeOK, RowsInv, Accounts, TellDrift PROVE Accounts'
<1>1. /\ mpc = "tell_drift" /\ Reported(todo) /\ mpc' = "read_rules" /\ todo' = {}
      /\ UNCHANGED <<rows, now, lastCheck, started, fails>>
    BY DEF TellDrift, engine, budget
<1>2. \A r \in todo : r \in rows /\ r.about = Drift /\ r.ts > lastCheck
    BY <1>1 DEF Accounts, ListInv
<1>3. ASSUME NEW r \in rows
      PROVE  /\ r \in todo => reports'[r.ts] = reports[r.ts] + 1
             /\ r \notin todo => reports'[r.ts] = reports[r.ts]
    <2>1. r.ts \in 1 .. MaxTime
        BY RowFields
    <2>2. (\E q \in todo : q.ts = r.ts) <=> r \in todo
        BY <1>2 DEF RowsInv
    <2>3. QED BY <1>1, <2>1, <2>2, ReportedOnce
<1>4. ListInv'
    BY <1>1 DEF ListInv
<1>5. ReportedInv'
    <2>1. ASSUME NEW r \in rows, r.ts > started, Notable(r), ~r.late
          PROVE  /\ r.ts <= lastCheck => reports'[r.ts] > 0
                 /\ r.ts <= now /\ ReadNow(r)' => reports'[r.ts] > 0
        <3>1. /\ r.ts <= lastCheck => reports[r.ts] > 0
              /\ r.ts <= now /\ ReadNow(r) => reports[r.ts] > 0 \/ r \in todo
            BY <1>1, <2>1 DEF Accounts, ReportedInv, Listed
        <3>2. ReadNow(r)' => ReadNow(r)
            BY <1>1 DEF ReadNow, ReadAlready
        <3>3. QED BY <1>3, <3>1, <3>2, Numbers
    <2>2. QED BY <1>1, <2>1, NotableSame DEF ReportedInv
<1>6. NotTooOften'
    <2>1. ASSUME NEW r \in rows PROVE reports'[r.ts] <= Most(r)'
        <3>1. reports[r.ts] <= Most(r) /\ Most(r) \in Int /\ Most(r)' \in Int
            BY <1>1, Numbers DEF Accounts, NotTooOften, Most
        <3>2. CASE r \in todo
            <4>1. r.ts > lastCheck /\ ~AlreadyTold(r) /\ AlreadyTold(r)'
                BY <1>1, <1>2, <3>2 DEF AlreadyTold
            <4>2. Most(r)' = Most(r) + 1
                BY <1>1, <4>1, Numbers DEF Most
            <4>3. QED BY <1>3, <3>1, <3>2, <4>2, Numbers
        <3>3. CASE r \notin todo
            <4>1. AlreadyTold(r) => AlreadyTold(r)'
                BY <1>1 DEF AlreadyTold
            <4>2. Most(r)' >= Most(r)
                BY <1>1, <4>1, Numbers DEF Most
            <4>3. QED BY <1>3, <3>1, <3>3, <4>2, Numbers
        <3>4. QED BY <3>2, <3>3
    <2>2. QED BY <1>1, <2>1 DEF NotTooOften
<1>7. QED BY <1>4, <1>5, <1>6 DEF Accounts

\* A change of the rules of a market makes its rows two at least, so a notable row that
\* is younger than last_check puts its market on the list.
LEMMA ReadRulesAccounts == ASSUME TypeOK, RowsInv, Accounts, ReadRules PROVE Accounts'
<1> DEFINE set == {m \in Market : /\ Cardinality(RulesOf(m)) > 1
                                  /\ \E r \in RulesOf(m) : r.ts > lastCheck}
<1>1. /\ mpc = "read_rules" /\ todo' = set
      /\ mpc' = IF set = {} THEN "finish" ELSE "tell_rules"
      /\ UNCHANGED <<rows, now, lastCheck, started, reports, fails>>
    BY DEF ReadRules, Tell, engine, budget
<1>2. ListInv'
    BY <1>1 DEF ListInv
<1>3. ReportedInv'
    <2>1. ASSUME NEW r \in rows, r.ts > started, Notable(r), ~r.late
          PROVE  /\ r.ts <= lastCheck => reports[r.ts] > 0
                 /\ r.ts <= now /\ ReadNow(r)' => reports[r.ts] > 0 \/ Listed(r)'
        <3>1. /\ r.ts <= lastCheck => reports[r.ts] > 0
              /\ r.ts <= now /\ r.about = Drift => reports[r.ts] > 0
            BY <1>1, <2>1 DEF Accounts, ReportedInv, ReadNow, ReadAlready, Listed
        <3>2. ASSUME r.about # Drift, ~(r.ts <= lastCheck) PROVE Listed(r)'
            <4>1. r.about \in Market /\ r \in RulesOf(r.about) /\ r.ts > lastCheck
                BY <3>2, RowFields, Numbers DEF RulesOf
            <4>2. PICK q \in RulesOf(r.about) : q.ts < r.ts
                BY <2>1, <3>2 DEF Notable
            <4>3. q # r /\ {q, r} \subseteq RulesOf(r.about)
                BY <4>1, <4>2, Numbers
            <4>4. IsFiniteSet(RulesOf(r.about))
                BY FS_Subset DEF RowsInv, RulesOf
            <4>5. Cardinality({q, r}) = 2
                <5>1. {q, r} = {q} \cup {r} /\ r \notin {q}
                    BY <4>3
                <5>2. IsFiniteSet({q}) /\ Cardinality({q}) = 1
                    BY FS_Singleton
                <5>3. Cardinality({q} \cup {r}) = Cardinality({q}) + 1
                    BY <5>1, <5>2, FS_AddElement, Zenon
                <5>4. QED BY <5>1, <5>2, <5>3
            <4>6. Cardinality({q, r}) <= Cardinality(RulesOf(r.about))
                BY <4>3, <4>4, FS_Subset
            <4>7. Cardinality(RulesOf(r.about)) \in Nat
                BY <4>4, FS_CardinalityType
            <4>8. r.about \in set
                BY <4>1, <4>5, <4>6, <4>7
            <4>9. QED BY <1>1, <4>8 DEF Listed
        <3>3. QED BY <3>1, <3>2
    <2>2. QED BY <1>1, <2>1, NotableSame DEF ReportedInv
<1>4. \A r \in rows : Most(r)' >= Most(r) /\ Most(r) \in Int /\ Most(r)' \in Int
    BY <1>1, Numbers DEF Most, AlreadyTold
<1>5. NotTooOften'
    BY <1>1, <1>4, Numbers DEF Accounts, NotTooOften
<1>6. QED BY <1>2, <1>3, <1>5 DEF Accounts

\* The message about the rules of a market counts those that are younger than last_check.
LEMMA TellRulesAccounts ==
    ASSUME TypeOK, RowsInv, Accounts, NEW m \in Market, TellRules(m)
    PROVE  Accounts'
<1> DEFINE set == {r \in RulesOf(m) : r.ts > lastCheck}
<1>1. /\ mpc = "tell_rules" /\ Reported(set) /\ m \in todo /\ todo' = todo \ {m}
      /\ mpc' = IF todo = {m} THEN "finish" ELSE "tell_rules"
      /\ UNCHANGED <<rows, now, lastCheck, started, fails>>
    BY DEF TellRules, Told, engine, budget
<1>2. ASSUME NEW r \in rows
      PROVE  /\ r \in set => reports'[r.ts] = reports[r.ts] + 1
             /\ r \notin set => reports'[r.ts] = reports[r.ts]
    <2>1. r.ts \in 1 .. MaxTime
        BY RowFields
    <2>2. (\E q \in set : q.ts = r.ts) <=> r \in set
        BY DEF RowsInv, RulesOf
    <2> HIDE DEF set
    <2>3. QED BY <1>1, <2>1, <2>2, ReportedOnce
<1>3. \A r \in rows : r \in set <=> r.about = m /\ r.ts > lastCheck
    BY DEF RulesOf
<1>4. m # Drift
    BY MonitorAssumption DEF MonitorAssumption
<1> HIDE DEF set
<1>5. ListInv'
    BY <1>1 DEF ListInv
<1>6. ReportedInv'
    <2>1. ASSUME NEW r \in rows, r.ts > started, Notable(r), ~r.late
          PROVE  /\ r.ts <= lastCheck => reports'[r.ts] > 0
                 /\ r.ts <= now /\ ReadNow(r)' => reports'[r.ts] > 0 \/ Listed(r)'
        <3>1. /\ r.ts <= lastCheck => reports[r.ts] > 0
              /\ r.ts <= now => reports[r.ts] > 0 \/ r.about \in todo
            BY <1>1, <2>1 DEF Accounts, ReportedInv, Listed, ReadNow, ReadAlready
        <3>2. r.about = m => reports'[r.ts] > 0 \/ r.ts <= lastCheck
            BY <1>2, <1>3, Numbers
        <3>3. reports[r.ts] > 0 => reports'[r.ts] > 0
            BY <1>2, Numbers
        <3>4. r.about \in todo /\ r.about # m => Listed(r)'
            BY <1>1 DEF Listed
        <3>5. QED BY <3>1, <3>2, <3>3, <3>4
    <2>2. QED BY <1>1, <2>1, NotableSame DEF ReportedInv
<1>7. NotTooOften'
    <2>1. ASSUME NEW r \in rows PROVE reports'[r.ts] <= Most(r)'
        <3>1. reports[r.ts] <= Most(r) /\ Most(r) \in Int /\ Most(r)' \in Int
            BY <1>1, Numbers DEF Accounts, NotTooOften, Most
        <3>2. CASE r \in set
            <4>1. r.ts > lastCheck /\ ~AlreadyTold(r) /\ AlreadyTold(r)'
                BY <1>1, <1>3, <1>4, <3>2 DEF AlreadyTold
            <4>2. Most(r)' = Most(r) + 1
                BY <1>1, <4>1, Numbers DEF Most
            <4>3. QED BY <1>2, <3>1, <3>2, <4>2, Numbers
        <3>3. CASE r \notin set
            <4>1. AlreadyTold(r) => AlreadyTold(r)'
                BY <1>1 DEF AlreadyTold
            <4>2. Most(r)' >= Most(r)
                BY <1>1, <4>1, Numbers DEF Most
            <4>3. QED BY <1>2, <3>1, <3>3, <4>2, Numbers
        <3>4. QED BY <3>2, <3>3
    <2>2. QED BY <1>1, <2>1 DEF NotTooOften
<1>8. QED BY <1>5, <1>6, <1>7 DEF Accounts

\* A pass that ends has told of all rows up to its beginning.
LEMMA FinishAccounts == ASSUME TypeOK, Accounts, Finish PROVE Accounts'
<1>1. /\ mpc = "finish" /\ mpc' = "idle" /\ lastCheck' = now
      /\ UNCHANGED <<rows, now, todo, started, reports, fails>>
    BY DEF Finish, engine, budget
<1>2. ListInv'
    BY <1>1 DEF ListInv
<1>3. ReportedInv'
    BY <1>1, NotableSame DEF Accounts, ReportedInv, ReadNow, ReadAlready, Listed
<1>4. \A r \in rows : Most(r)' >= Most(r) /\ Most(r) \in Int /\ Most(r)' \in Int
    BY <1>1, Numbers DEF Most, AlreadyTold
<1>5. NotTooOften'
    BY <1>1, <1>4, Numbers DEF Accounts, NotTooOften
<1>6. QED BY <1>2, <1>3, <1>5 DEF Accounts

\* A pass that fails will be made again, for the rows it told of too.
LEMMA FailAccounts == ASSUME TypeOK, Accounts, Fail PROVE Accounts'
<1>1. /\ mpc' = "idle" /\ fails' = fails + 1 /\ mpc # "idle"
      /\ UNCHANGED <<rows, now, lastCheck, todo, started, reports>>
    BY DEF Fail, Reads, engine, budget
<1>2. ListInv'
    BY <1>1 DEF ListInv
<1>3. ReportedInv'
    BY <1>1, NotableSame DEF Accounts, ReportedInv, ReadNow, Listed
<1>4. \A r \in rows : Most(r)' >= Most(r) /\ Most(r) \in Int /\ Most(r)' \in Int
    BY <1>1, Numbers DEF Most
<1>5. NotTooOften'
    BY <1>1, <1>4, Numbers DEF Accounts, NotTooOften
<1>6. QED BY <1>2, <1>3, <1>5 DEF Accounts

\* A restart starts anew: the rows there are no longer its concern.
LEMMA RestartAccounts == ASSUME TypeOK, RowsInv, Accounts, Restart PROVE Accounts'
<1>1. /\ mpc' = "idle" /\ lastCheck' = clock /\ started' = clock
      /\ UNCHANGED <<rows, reports, fails>>
    BY DEF Restart, engine, budget
<1>2. ListInv'
    BY <1>1 DEF ListInv
<1>3. ReportedInv'
    BY <1>1, Numbers DEF RowsInv, ReportedInv
<1>4. \A r \in rows : Most(r)' >= Most(r) /\ Most(r) \in Int /\ Most(r)' \in Int
    BY <1>1, Numbers DEF Most, RowsInv
<1>5. NotTooOften'
    BY <1>1, <1>4, Numbers DEF Accounts, NotTooOften
<1>6. QED BY <1>2, <1>3, <1>5 DEF Accounts

\* Every step keeps the accounts.
LEMMA AccountsStep ==
    TypeOK /\ RowsInv /\ PendingInv /\ Accounts /\ [Next]_vars => Accounts'
<1> SUFFICES ASSUME TypeOK, RowsInv, PendingInv, Accounts, [Next]_vars PROVE Accounts'
    OBVIOUS
<1>1. CASE EngineStep
    <2>1. CASE Commit
        BY <2>1, CommitAccounts
    <2>2. CASE rows' = rows
        BY <1>1, <2>2, EngineLeaves, AccountsSame DEF pass, budget
    <2>3. Commit \/ rows' = rows
        BY <1>1 DEF EngineStep, Tick, Beat, Stamp
    <2>4. QED BY <2>1, <2>2, <2>3
<1>2. CASE MonitorStep
    <2>1. CASE /\ mpc \in Early /\ mpc' \in Early \ {"idle"}
               /\ UNCHANGED <<rows, lastCheck, started, reports, fails>>
               /\ now' = IF mpc = "idle" THEN clock ELSE now
        BY <2>1, EarlyAccounts
    <2>2. CASE ReadDrift
        BY <2>2, ReadDriftAccounts
    <2>3. CASE TellDrift
        BY <2>3, TellDriftAccounts
    <2>4. CASE ReadRules
        BY <2>4, ReadRulesAccounts
    <2>5. ASSUME NEW m \in Market, TellRules(m) PROVE Accounts'
        BY <2>5, TellRulesAccounts
    <2>6. CASE Finish \/ Fail \/ Restart
        BY <2>6, FinishAccounts, FailAccounts, RestartAccounts
    <2>7. ASSUME \/ ReadFile \/ TellFile \/ ReadBeats \/ ReadAgain
                 \/ \E c \in Component : TellStale(c) \/ TellClear(c)
          PROVE  Accounts'
        <3> USE <2>1 DEF Early, engine, budget
        <3>1. CASE ReadFile
            BY <3>1 DEF ReadFile
        <3>2. CASE TellFile
            BY <3>2 DEF TellFile
        <3>3. CASE ReadBeats
            BY <3>3 DEF ReadBeats, Tell
        <3>4. CASE ReadAgain
            BY <3>4 DEF ReadAgain, Tell
        <3>5. ASSUME NEW c \in Component, TellStale(c) PROVE Accounts'
            BY <3>5 DEF TellStale, Told
        <3>6. ASSUME NEW c \in Component, TellClear(c) PROVE Accounts'
            BY <3>6 DEF TellClear, Told
        <3>7. QED BY <2>7, <3>1, <3>2, <3>3, <3>4, <3>5, <3>6
    <2>8. QED BY <1>2, <2>2, <2>3, <2>4, <2>5, <2>6, <2>7 DEF MonitorStep, Pass
<1>3. CASE UNCHANGED vars
    BY <1>3, AccountsSame DEF vars
<1>4. QED BY <1>1, <1>2, <1>3, Steps

----------------------------------------------------------------------------

\* The inductive invariant of the watchdog (monitor.py, run_monitor): what it holds of
\* the rows written and being written, and what each statement of a pass leaves to the
\* ones that follow.
THEOREM Inductive == Spec => []IInv
<1>1. Init => IInv
    <2> SUFFICES ASSUME Init PROVE IInv
        OBVIOUS
    <2>1. TypeOK
        BY Bounds DEF Init, TypeOK, Reads, Sends, Key
    <2>2. RowsInv /\ PendingInv /\ ListInv
        BY FS_EmptySet DEF Init, RowsInv, PendingInv, ListInv
    <2>3. PictureExplained /\ ReportedInv /\ NotTooOften
        BY DEF Init, PictureExplained, ReportedInv, NotTooOften
    <2>4. QED BY <2>1, <2>2, <2>3 DEF IInv
<1>2. IInv /\ [Next]_vars => IInv'
    BY TypeStep, RowsStep, PendingStep, PictureStep, AccountsStep DEF IInv, Accounts
<1>3. QED BY <1>1, <1>2, PTL DEF Spec

\* The tables, the pass and what is remembered of its messages keep their shape.
THEOREM TypeCorrect == Spec => []TypeOK
<1>1. IInv => TypeOK
    BY DEF IInv
<1>2. QED BY <1>1, Inductive, PTL

\* What the operator heard is explained, every row is reported unless it waited for the
\* write lock longer than a pass took to read its table, and none more than twice but
\* for the passes that failed (monitor.py, run_monitor).
THEOREM ReportsAreSound == Spec => []ReportsSound
<1>1. IInv => ReportsSound
    <2> SUFFICES ASSUME IInv PROVE ReportsSound
        OBVIOUS
    <2>1. ASSUME NEW r \in rows
          PROVE  /\ (r.ts \in started + 1 .. lastCheck /\ Notable(r) /\ ~r.late)
                        => reports[r.ts] > 0
                 /\ reports[r.ts] <= 2 + fails
        <3>1. reports[r.ts] <= Most(r) /\ Most(r) <= 2 + fails /\ Most(r) \in Int
            BY Numbers DEF IInv, NotTooOften, Most
        <3>2. r.ts \in started + 1 .. lastCheck => r.ts > started /\ r.ts <= lastCheck
            BY Numbers DEF IInv
        <3>3. QED BY <3>1, <3>2, Numbers DEF IInv, ReportedInv
    <2>2. QED BY <2>1 DEF IInv, ReportsSound, OccurrencesReported
<1>2. QED BY <1>1, Inductive, PTL
==============================================================================
