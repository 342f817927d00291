------------------------------- MODULE Monitor -------------------------------
(***************************************************************************)
(* The watchdog (monitor.py): a process of its own that reads the engine's *)
(* heartbeat file and the heartbeats, recon_log and rules_text tables, and *)
(* tells an operator over Telegram what became stale, what recovered, and  *)
(* what was logged since its last pass.  The engine is the other process:  *)
(* it beats (engine.py, and one db.beat() per task), logs drift            *)
(* (rest_recon) and stores rules (metadata_sync).                          *)
(*                                                                         *)
(* A pass is a sequence of reads, and of messages that are awaited one by  *)
(* one: between any two of them the engine goes on writing.  An INSERT     *)
(* takes its time stamp before it waits for SQLite's write lock, so a row  *)
(* is stamped in one step and visible in another.                          *)
(*                                                                         *)
(* Abstractions.  The clock advances with every stamp, so that two rows    *)
(* never carry the same time.  A row of recon_log is one above the drift   *)
(* threshold.  The sleep between passes is the idle state.                 *)
(***************************************************************************)
EXTENDS Integers, FiniteSets

CONSTANTS
    Component,    \* what beats into the heartbeats table
    Market,       \* markets whose resolution rules are stored
    Text,         \* texts of rules, told apart by their hash
    StaleAge,     \* STALE_COMPONENT_AGE
    FileAge,      \* heartbeat_stale_after
    MaxTime,      \* bound of the model: the clock
    MaxRows,      \* bound of the model: rows of recon_log and rules_text
    MaxFaults     \* bound of the model: messages Telegram loses, passes SQLite cuts
                  \* short and restarts of the monitor, together

Engine == "engine"
Drift == "drift"
File == "engine_stale"
Missing == -1
NoText == "none"    \* drift has no text
NoRow == [about |-> "nothing", text |-> NoText, ts |-> 0]

ASSUME MonitorAssumption ==
    /\ Engine \in Component /\ File \notin Component
    /\ Drift \notin Market /\ NoText \notin Text
    /\ {StaleAge, FileAge, MaxTime, MaxRows, MaxFaults} \subseteq Nat

VARIABLES
    clock,
    beat,       \* the heartbeats table: per component its last beat
    file,       \* the mtime of the heartbeat file
    rows,       \* recon_log and rules_text
    pending,    \* the row the engine has stamped and not yet written
    mpc,        \* where the pass of the monitor is
    now,        \* when it began
    lastCheck,  \* last_check
    active,     \* active: per alert key, whether it is firing
    todo,       \* what the statement under way still has to send a message about
    started,    \* history: when this run of the monitor began
    heard,      \* history: per alert key, what the operator last heard
    reports,    \* history: per row, by its stamp, the messages about it
    lost, fails, restarts

engine == <<clock, beat, file, rows, pending>>
pass == <<mpc, now, lastCheck, active, todo, started>>
budget == <<lost, fails, restarts>>
vars == <<clock, beat, file, rows, pending, mpc, now, lastCheck, active, todo,
          started, heard, reports, lost, fails, restarts>>

Key == {File} \cup Component
Row == [about : {Drift} \cup Market, text : Text \cup {NoText}, ts : 1 .. MaxTime, late : BOOLEAN]

\* The statements of a pass that read, each before the messages of what it read.
Reads == {"read_beats", "read_again", "read_drift", "read_rules", "finish"}
Sends == {"tell_file", "tell_stale", "tell_clear", "tell_drift", "tell_rules"}

TypeOK ==
    /\ clock \in 0 .. MaxTime
    /\ beat \in [Component -> {Missing} \cup (0 .. clock)]
    /\ file \in {Missing} \cup (0 .. clock)
    /\ rows \subseteq Row
    /\ pending = NoRow \/ pending.ts \in 1 .. clock
    /\ mpc \in {"idle"} \cup Reads \cup Sends
    /\ now \in started .. clock
    /\ lastCheck \in started .. now
    /\ active \in [Key -> BOOLEAN]
    /\ todo \subseteq IF mpc = "tell_drift" THEN Row ELSE Key \cup Market
    /\ mpc \in Sends \ {"tell_file"} <=> todo # {}
    /\ started \in 0 .. clock
    /\ heard \in [Key -> BOOLEAN]
    /\ reports \in [1 .. MaxTime -> Nat]
    /\ {lost, fails, restarts} \subseteq 0 .. MaxFaults

Init ==
    /\ clock = 0
    /\ beat = [c \in Component |-> Missing]
    /\ file = Missing
    /\ rows = {}
    /\ pending = NoRow
    /\ mpc = "idle"
    /\ now = 0
    /\ lastCheck = 0
    /\ active = [k \in Key |-> FALSE]
    /\ todo = {}
    /\ started = 0
    /\ heard = [k \in Key |-> FALSE]
    /\ reports = [t \in 1 .. MaxTime |-> 0]
    /\ lost = 0
    /\ fails = 0
    /\ restarts = 0

Stale(c) == beat[c] # Missing /\ clock - beat[c] > StaleAge
FileStale == file = Missing \/ clock - file > FileAge
Condition(k) == IF k = File THEN FileStale ELSE Stale(k)

RulesOf(m) == {r \in rows : r.about = m}

MayFail == lost + fails + restarts < MaxFaults

-----------------------------------------------------------------------------
(* The engine.                                                             *)

Tick ==
    /\ clock < MaxTime
    /\ clock' = clock + 1
    /\ UNCHANGED <<beat, file, rows, pending, pass, heard, reports, budget>>

\* A task beats; heartbeat_task then writes the file, which may fail.
Beat(c) ==
    /\ beat' = [beat EXCEPT ![c] = clock]
    /\ file' \in {file} \cup {clock : x \in {c} \cap {Engine}}
    /\ UNCHANGED <<clock, rows, pending, pass, heard, reports, budget>>

\* _record_diff() of a large diff, or store_rules() of a text whose hash the market
\* does not have yet: the stamp.
Stamp(about, text) ==
    /\ pending = NoRow
    /\ clock < MaxTime
    /\ Cardinality(rows) < MaxRows
    /\ about \in Market => \A r \in RulesOf(about) : r.text # text
    /\ about = Drift <=> text = NoText
    /\ clock' = clock + 1
    /\ pending' = [about |-> about, text |-> text, ts |-> clock + 1]
    /\ UNCHANGED <<beat, file, rows, pass, heard, reports, budget>>

\* The pass that began last has already read the table the row belongs to.
ReadAlready(about) ==
    mpc \in {"idle", "finish", "tell_rules"}
            \cup (IF about = Drift THEN {"tell_drift", "read_rules"} ELSE {})

\* The row can be seen.  It is late when a pass it should have been in was faster.
Commit ==
    /\ pending # NoRow
    /\ LET passed == \/ pending.ts <= lastCheck
                     \/ (pending.ts <= now /\ ReadAlready(pending.about))
       IN  rows' = rows \cup {[about |-> pending.about, text |-> pending.text,
                               ts |-> pending.ts, late |-> passed]}
    /\ pending' = NoRow
    /\ UNCHANGED <<clock, beat, file, pass, heard, reports, budget>>

-----------------------------------------------------------------------------
(* A pass of the monitor, statement by statement.                          *)

\* Move on to the messages about set, or past them when there are none.
Tell(set, send, next) ==
    /\ todo' = set
    /\ mpc' = IF set = {} THEN next ELSE send

\* After one message: the rest of the list, or the next statement.
Told(x, next) ==
    /\ todo' = todo \ {x}
    /\ mpc' = IF todo = {x} THEN next ELSE mpc

\* send_alert(): anything but 200 is logged and forgotten.
Send(k, firing) ==
    \/ /\ heard' = [heard EXCEPT ![k] = firing]
       /\ UNCHANGED lost
    \/ /\ MayFail
       /\ lost' = lost + 1
       /\ UNCHANGED heard

\* A pass begins with the file, and has a message when its state is another one.
ReadFile ==
    /\ mpc = "idle"
    /\ now' = clock
    /\ mpc' = IF FileStale # active[File] THEN "tell_file" ELSE "read_beats"
    /\ UNCHANGED <<engine, lastCheck, active, todo, started, heard, reports, budget>>

TellFile ==
    /\ mpc = "tell_file"
    /\ Send(File, ~active[File])
    /\ active' = [active EXCEPT ![File] = ~@]
    /\ mpc' = "read_beats"
    /\ UNCHANGED <<engine, now, lastCheck, todo, started, reports, fails, restarts>>

ReadBeats ==
    /\ mpc = "read_beats"
    /\ Tell({c \in Component : Stale(c) /\ ~active[c]}, "tell_stale", "read_again")
    /\ UNCHANGED <<engine, now, lastCheck, active, started, heard, reports, budget>>

\* A bug for PictureExplained to find: the key is not marked as firing.
TellStaleUnmarked(c) ==
    /\ mpc = "tell_stale" /\ c \in todo
    /\ Send(c, TRUE)
    /\ Told(c, "read_again")
    /\ UNCHANGED <<engine, now, lastCheck, active, started, reports, fails, restarts>>

TellStale(c) ==
    /\ mpc = "tell_stale" /\ c \in todo
    /\ Send(c, TRUE)
    /\ active' = [active EXCEPT ![c] = TRUE]
    /\ Told(c, "read_again")
    /\ UNCHANGED <<engine, now, lastCheck, started, reports, fails, restarts>>

\* A bug for PictureConverges to find: recoveries are looked for among the components
\* that never beat again.
ReadAgainMissing ==
    /\ mpc = "read_again"
    /\ Tell({c \in Component : active[c] /\ beat[c] = Missing}, "tell_clear", "read_drift")
    /\ UNCHANGED <<engine, now, lastCheck, active, started, heard, reports, budget>>

\* The second query: what is firing and no longer stale has recovered.
ReadAgain ==
    /\ mpc = "read_again"
    /\ Tell({c \in Component : active[c] /\ ~Stale(c)}, "tell_clear", "read_drift")
    /\ UNCHANGED <<engine, now, lastCheck, active, started, heard, reports, budget>>

TellClear(c) ==
    /\ mpc = "tell_clear" /\ c \in todo
    /\ Send(c, FALSE)
    /\ active' = [active EXCEPT ![c] = FALSE]
    /\ Told(c, "read_drift")
    /\ UNCHANGED <<engine, now, lastCheck, started, reports, fails, restarts>>

\* One more message about each of these rows.
Reported(set) ==
    reports' = [t \in 1 .. MaxTime |->
                   reports[t] + IF \E r \in set : r.ts = t THEN 1 ELSE 0]

ReadDrift ==
    /\ mpc = "read_drift"
    /\ Tell({r \in rows : r.about = Drift /\ r.ts > lastCheck}, "tell_drift", "read_rules")
    /\ UNCHANGED <<engine, now, lastCheck, active, started, heard, reports, budget>>

\* One message gives the number of the rows.
TellDrift ==
    /\ mpc = "tell_drift"
    /\ Reported(todo)
    /\ todo' = {}
    /\ mpc' = "read_rules"
    /\ UNCHANGED <<engine, now, lastCheck, active, started, heard, budget>>

\* GROUP BY market HAVING COUNT > 1 AND MAX(fetched_at) > last_check.
ReadRules ==
    /\ mpc = "read_rules"
    /\ Tell({m \in Market : /\ Cardinality(RulesOf(m)) > 1
                            /\ \E r \in RulesOf(m) : r.ts > lastCheck}, "tell_rules", "finish")
    /\ UNCHANGED <<engine, now, lastCheck, active, started, heard, reports, budget>>

TellRules(m) ==
    /\ mpc = "tell_rules" /\ m \in todo
    /\ Reported({r \in RulesOf(m) : r.ts > lastCheck})
    /\ Told(m, "finish")
    /\ UNCHANGED <<engine, now, lastCheck, active, started, heard, budget>>

Finish ==
    /\ mpc = "finish"
    /\ lastCheck' = now
    /\ mpc' = "idle"
    /\ UNCHANGED <<engine, now, active, todo, started, heard, reports, budget>>

\* A bug for TypeOK to find: the next pass takes up the list of the failed one.
FailKeepsList ==
    /\ mpc \in Reads
    /\ MayFail
    /\ fails' = fails + 1
    /\ mpc' = "tell_stale"
    /\ UNCHANGED <<engine, now, lastCheck, active, todo, started, heard, reports, lost, restarts>>

\* SQLite refuses a statement: the rest of the pass is left out, last_check stays.
Fail ==
    /\ mpc \in Reads
    /\ MayFail
    /\ fails' = fails + 1
    /\ mpc' = "idle"
    /\ UNCHANGED <<engine, now, lastCheck, active, todo, started, heard, reports, lost, restarts>>

Restart ==
    /\ MayFail
    /\ restarts' = restarts + 1
    /\ mpc' = "idle"
    /\ todo' = {}
    /\ active' = [k \in Key |-> FALSE]
    /\ now' = clock
    /\ lastCheck' = clock
    /\ started' = clock
    /\ UNCHANGED <<engine, heard, reports, lost, fails>>

Pass ==
    \/ ReadFile \/ TellFile \/ ReadBeats \/ ReadAgain
    \/ \E c \in Component : TellStale(c) \/ TellClear(c)
    \/ ReadDrift \/ TellDrift \/ ReadRules
    \/ \E m \in Market : TellRules(m)
    \/ Finish

Next ==
    \/ Tick
    \/ \E c \in Component : Beat(c)
    \/ \E about \in {Drift} \cup Market, text \in Text \cup {NoText} : Stamp(about, text)
    \/ Commit
    \/ Pass
    \/ Fail
    \/ Restart

Spec == Init /\ [][Next]_vars

\* The loop of run_monitor() goes on whatever a pass meets.
FairSpec == Spec /\ WF_vars(Pass)

-----------------------------------------------------------------------------
(* Properties.                                                             *)

\* What the operator last heard of a component or of the file is what the monitor
\* holds to be firing: a failed pass, a beat between the two queries or between a
\* query and its message never makes them differ.  Only a message that Telegram lost
\* or a restart, which forgets what was firing, does (monitor.py, active).
PictureExplained ==
    (lost = 0 /\ restarts = 0) => heard = active

\* A row that calls for a message: drift, or rules after the first version.
Notable(r) == r.about = Drift \/ \E q \in RulesOf(r.about) : q.ts < r.ts

\* Every large diff and every change of rules stamped after the monitor started and
\* before the pass last_check stands for has been reported, though rows keep coming
\* while a pass awaits its messages and passes fail half way; only a row that waited
\* for the write lock longer than a pass took to read its table escapes.  None is
\* reported more than twice, but for the passes that failed (monitor.py, last_check).
OccurrencesReported ==
    \A r \in rows :
        /\ (r.ts \in started + 1 .. lastCheck /\ Notable(r) /\ ~r.late) => reports[r.ts] > 0
        /\ reports[r.ts] <= 2 + fails

\* What was told is so, or was so when it was looked up, and what happened is told
\* (monitor.py, run_monitor).
ReportsSound == PictureExplained /\ OccurrencesReported

\* Once the beats have settled, what the monitor holds to be firing settles too, on
\* exactly the components that are stale and on the file if it is: no condition goes
\* unnoticed for ever and none is announced for ever after it cleared.
PictureConverges == <>[](\A k \in Key : active[k] = Condition(k))

=============================================================================
