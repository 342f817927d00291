------------------------------- MODULE Labels -------------------------------
(***************************************************************************)
(* signal_log over time: the calibration scanner (calibration_div.py with  *)
(* pm/calibration) writes rows, as the other scanners do, and the outcome  *)
(* labeler (labeler.py) fills in what became of them.                      *)
(*                                                                         *)
(* A pass of the labeler has no await.  A pass of the calibration scanner  *)
(* waits for Metaculus at each market that has a base rate and a live mid; *)
(* if the search is not enabled it never waits and is one step.            *)
(*                                                                         *)
(* The engine may go down at any time and come back at once or much later: *)
(* signal_log and the markets table stay, the books, the debounce table,   *)
(* the sleeps and a search under way are lost, and the settings are read   *)
(* again.                                                                  *)
(*                                                                         *)
(* Abstractions.  A book is its mid in cents, 0 if there is none or it is  *)
(* stale.  Time is counted in units no shorter than the timeout of a       *)
(* search; the loops wake up when their sleep is over.  A search that      *)
(* raises stands for every exception of a calibration pass before the row  *)
(* is written; signal is a lossless topic, so publishing may raise too.    *)
(***************************************************************************)
EXTENDS Integers, Sequences, FiniteSets, FiniteSetsExt, SequencesExt

CONSTANTS
    Markets,        \* the rows of the markets table, in order
    Token,          \* the tokens with books
    TokenYes,       \* the yes token of a market
    Category,       \* the category of a market, or AnyCategory
    EndsAt,         \* end_date of a market
    Rates,          \* the base rates: p, n_samples, category or AnyCategory, and the
                    \* questions matched
    Weight,         \* per n_samples, min(1, n_samples / 30) in percent
    Logit, Sigmoid, \* the logit of a probability in percent, and back
    Answers,        \* what a search may find: p and weight
    Threshold,      \* calibration_edge_threshold, in cents
    MinTtm,         \* calibration_min_ttm_s
    Debounce,       \* calibration_debounce_s
    CalibrationPoll, Retry,     \* calibration_poll_s and the sleep after a failure
    SearchTime,     \* the timeout of a search
    Horizon, MaxAge, Batch,     \* label_horizon_s, label_max_age_s, label_batch
    LabelPoll, Backoff, MaxBackoff, \* label_poll_s, and the sleep after a failure
    Prices,         \* mids in cents
    OtherLegs,      \* the legs of rows of other scanners
    MaxTime, MaxMoves, MaxOthers, MaxFaults \* bounds of the model

AnyCategory == "any"
NoAnswer == [p |-> 0, weight |-> 0]
NoOutcome == [sum |-> 0, legs |-> 0]
NoMarket == "none"
Nothing == [market |-> NoMarket, price |-> 0, waited |-> 0]
Market == ToSet(Markets)

ASSUME LabelsAssumption ==
    /\ Markets \in Seq(Market) /\ IsInjective(Markets) /\ NoMarket \notin Market
    /\ TokenYes \in [Market -> Token]
    /\ EndsAt \in [Market -> Nat]
    /\ Prices \subseteq 1 .. 99
    /\ \A r \in ToSet(Rates) : r.n \in DOMAIN Weight /\ r.p \in DOMAIN Logit
    /\ \A a \in Answers : a.p \in DOMAIN Logit /\ a.weight \in 1 .. 100
    /\ \A l \in OtherLegs :
           l \in Seq([token : Token, side : {"BUY", "SELL", "NA"}, price : Prices]) \ {<<>>}
    /\ Backoff <= MaxBackoff
    /\ {LabelPoll, Backoff, Batch, CalibrationPoll, Retry} \subseteq Nat \ {0}
    /\ {Threshold, MinTtm, Debounce, SearchTime, Horizon, MaxAge, MaxBackoff} \subseteq Nat
    /\ {MaxTime, MaxMoves, MaxOthers, MaxFaults} \subseteq Nat

VARIABLES
    now,
    mid,        \* the mids of the books
    tradable,   \* the markets table: active and not closed
    log,        \* signal_log: when, legs and outcome of the rows, and of the rows of the
                \* calibration scanner the market and the answer
    \* the labeler
    labelIn,    \* what is left of its sleep
    backoff,
    \* the calibration scanner
    search,     \* calibration_use_metaculus
    scanIn,     \* what is left of its sleep
    upcoming,   \* the markets of the pass that are still to come
    passNow,    \* `now` of the pass
    held,       \* the market searched for, its mid and how long ago it was read; or Nothing
    last,       \* the debouncer, per market
    \* history and bounds
    shown,      \* the mids of the held market since its search began
    closedAt,   \* when a market closed
    good,       \* per row: passes that could have labelled it, were it the oldest
    earlier,    \* how many rows were written before the engine's last start
    moves, others, faults

labeler == <<labelIn, backoff, good>>
scanner == <<scanIn, upcoming, passNow, held, last>>
outside == <<mid, tradable, shown, closedAt, moves, others>>
labelsVars == <<now, mid, tradable, log, labelIn, backoff, search, scanIn, upcoming,
               passNow, held, last, shown, closedAt, good, earlier, moves, others, faults>>

Never == -1

LabelsTypeOK ==
    /\ now \in 0 .. MaxTime
    /\ mid \in [Token -> Prices \cup {0}]
    /\ tradable \subseteq Market
    /\ \A i \in 1 .. Len(log) : log[i].ts \in 0 .. now /\ log[i].legs # <<>>
    /\ \A i \in 1 .. Len(log) - 1 : log[i].ts <= log[i + 1].ts
    /\ labelIn \in 0 .. (IF LabelPoll > MaxBackoff THEN LabelPoll ELSE MaxBackoff)
    /\ backoff \in Backoff .. MaxBackoff
    /\ search \in BOOLEAN
    /\ scanIn \in 0 .. (IF CalibrationPoll > Retry THEN CalibrationPoll ELSE Retry)
    /\ upcoming \subseteq Market
    /\ passNow \in 0 .. now
    /\ held = Nothing => upcoming = {}
    /\ held # Nothing => search /\ held.waited \in Nat /\ held.price \in shown
    /\ last \in [Market -> {Never} \cup 0 .. now]
    /\ DOMAIN good = DOMAIN log
    /\ earlier \in 0 .. Len(log)

LabelsInit ==
    /\ now = 0
    /\ mid \in [Token -> Prices \cup {0}]
    /\ tradable = Market
    /\ log = <<>>
    /\ labelIn = 0 /\ backoff = Backoff
    /\ search \in BOOLEAN
    /\ scanIn = 0
    /\ upcoming = {} /\ passNow = 0 /\ held = Nothing
    /\ last = [m \in Market |-> Never]
    /\ shown = {}
    /\ closedAt = [m \in Market |-> Never]
    /\ good = <<>>
    /\ earlier = 0
    /\ moves = 0 /\ others = 0 /\ faults = 0

-----------------------------------------------------------------------------
(* The outside: books, the markets table and the other scanners.           *)

Move(t, p) ==
    /\ moves < MaxMoves /\ p # mid[t]
    /\ moves' = moves + 1
    /\ mid' = [mid EXCEPT ![t] = p]
    /\ shown' = IF held # Nothing /\ TokenYes[held.market] = t THEN shown \cup {p} ELSE shown
    /\ UNCHANGED <<now, tradable, log, labeler, search, scanner, closedAt, earlier, others, faults>>

Close(m) ==
    /\ moves < MaxMoves /\ m \in tradable
    /\ moves' = moves + 1
    /\ tradable' = tradable \ {m}
    /\ closedAt' = [closedAt EXCEPT ![m] = now]
    /\ UNCHANGED <<now, mid, log, labeler, search, scanner, shown, earlier, others, faults>>

Row(legs, m, answer) ==
    [ts |-> now, legs |-> legs, outcome |-> NoOutcome, market |-> m, answer |-> answer]

Write(rows) ==
    /\ log' = log \o rows
    /\ good' = good \o [i \in 1 .. Len(rows) |-> 0]

OtherSignal(legs) ==
    /\ others < MaxOthers
    /\ others' = others + 1
    /\ Write(<<Row(legs, NoMarket, NoAnswer)>>)
    /\ UNCHANGED <<now, mid, tradable, labelIn, backoff, search, scanner, shown, closedAt,
                   earlier, moves, faults>>

\* A bug for CalibrationRowsTimely to find: a search without a timeout.
MayWaitLonger == TRUE

MayWait == held # Nothing => held.waited < SearchTime

\* Loops whose sleep is over run before time passes, and a search times out.
Tick ==
    /\ now < MaxTime
    /\ labelIn > 0 /\ (held = Nothing => scanIn > 0) /\ MayWait
    /\ now' = now + 1
    /\ labelIn' = labelIn - 1
    /\ IF held = Nothing THEN scanIn' = scanIn - 1 /\ UNCHANGED held
       ELSE held' = [held EXCEPT !.waited = @ + 1] /\ UNCHANGED scanIn
    /\ UNCHANGED <<outside, log, backoff, search, upcoming, passNow, last, good, earlier, faults>>

-----------------------------------------------------------------------------
(* The labeler.                                                            *)

Age(i) == now - log[i].ts
Waiting == {i \in 1 .. Len(log) :
                log[i].outcome = NoOutcome /\ Age(i) > Horizon /\ Age(i) < MaxAge}
Older(i) == {j \in Waiting : j < i}

\* A bug for GoodPassesUsed to find: the newest rows first.
SelectedNewest == {i \in Waiting : Cardinality({j \in Waiting : j > i}) < Batch}

\* ORDER BY ts LIMIT label_batch.
Selected == {i \in Waiting : Cardinality(Older(i)) < Batch}

\* The legs with a live book, by their places.
Priced(i) == {k \in 1 .. Len(log[i].legs) : mid[log[i].legs[k].token] # 0}
Live(i) == 2 * Cardinality(Priced(i)) >= Len(log[i].legs)

Forward(leg) == IF leg.side = "SELL" THEN leg.price - mid[leg.token] ELSE mid[leg.token] - leg.price

\* The average over the legs with a live book, as a sum and a number.
Gain(i) == MapThenSumSet(LAMBDA k : Forward(log[i].legs[k]), Priced(i))
Outcome(i) == [sum |-> Gain(i), legs |-> Cardinality(Priced(i))]

\* A pass could label this row, were it the oldest live one.
CouldLabel(i) ==
    /\ i \in Waiting /\ Live(i)
    /\ Cardinality({j \in Older(i) : ~ Live(j)}) < Batch

Label(rows) ==
    log' = [i \in 1 .. Len(log) |->
                IF i \in rows THEN [log[i] EXCEPT !.outcome = Outcome(i)] ELSE log[i]]

LabelPass ==
    /\ labelIn = 0
    /\ Label({i \in Selected : Live(i)})
    /\ labelIn' = LabelPoll
    /\ backoff' = Backoff
    /\ good' = [i \in 1 .. Len(log) |->
                    IF CouldLabel(i) THEN good[i] + 1 ELSE good[i]]
    /\ UNCHANGED <<now, outside, search, scanner, earlier, faults>>

\* An UPDATE raises; the rows before it are committed.
LabelPassFails ==
    /\ labelIn = 0 /\ faults < MaxFaults
    /\ faults' = faults + 1
    /\ \E i \in {j \in Selected : Live(j)} : Label({j \in Selected : Live(j) /\ j < i})
    /\ labelIn' = backoff
    /\ backoff' = IF 2 * backoff < MaxBackoff THEN 2 * backoff ELSE MaxBackoff
    /\ UNCHANGED <<now, outside, search, scanner, good, earlier>>

-----------------------------------------------------------------------------
(* The model probability.                                                  *)

Matches(r, m) ==
    /\ AnyCategory \in {r.category, Category[m]} \/ r.category = Category[m]
    /\ m \in r.questions

HasRate(m) == \E r \in ToSet(Rates) : Matches(r, m)
FirstMatch(m) == SelectSeq(Rates, LAMBDA r : Matches(r, m))[1]

\* A rate without samples is a prior with a small weight.
RateWeight(r) == IF Weight[r.n] > 0 THEN Weight[r.n] ELSE 10

AnswerLogit(answer) == IF answer = NoAnswer THEN 0 ELSE Logit[answer.p]

\* The weighted average of the logits of the rate and the answer of a search.
Blend(m, answer) ==
    LET r == FirstMatch(m)
        w == RateWeight(r)
    IN  Sigmoid[(w * Logit[r.p] + answer.weight * AnswerLogit(answer)) \div (w + answer.weight)]

-----------------------------------------------------------------------------
(* The calibration scanner.                                                *)

Abs(n) == IF n < 0 THEN -n ELSE n

\* A market of the pass with time left, a live mid and a base rate: those without
\* one are skipped, since an answer is only asked for beside a rate.
Candidate(m, start) ==
    /\ EndsAt[m] - start >= MinTtm
    /\ mid[TokenYes[m]] # 0
    /\ HasRate(m)

\* A result that is written, for a market whose mid was read as price: the model differs
\* from it and the last row of the market is not too recent.
Diverges(m, price, answer) == Abs(Blend(m, answer) - price) >= Threshold
Ready(m, start) == last[m] = Never \/ start - last[m] >= Debounce

CalibrationRow(m, price, answer) ==
    Row(<<[token |-> TokenYes[m], price |-> price,
           side |-> IF Blend(m, answer) > price THEN "BUY" ELSE "SELL"]>>, m, answer)

\* The debounce is spent before the row is written, and a row may be written although
\* publishing it raises.
Spend(ms, start) == last' = [m \in Market |-> IF m \in ms THEN start ELSE last[m]]

\* The order of the markets, and some of them in this order: there is one such sequence.
Earlier(m, n) == \E i, j \in 1 .. Len(Markets) : i < j /\ Markets[i] = m /\ Markets[j] = n
InOrder(ms) == {s \in SetToSeqs(ms) : \A i, j \in 1 .. Len(s) : i < j => Earlier(s[i], s[j])}

\* The pass goes on to the next market it searches for, or ends.
Continue(ms, start) ==
    \/ /\ \A m \in ms : ~ Candidate(m, start)
       /\ held' = Nothing /\ upcoming' = {} /\ scanIn' = CalibrationPoll /\ shown' = {}
    \/ \E m \in ms :
           /\ Candidate(m, start)
           /\ \A n \in ms : Candidate(n, start) => ~ Earlier(n, m)
           /\ held' = [market |-> m, price |-> mid[TokenYes[m]], waited |-> 0]
           /\ upcoming' = {n \in ms : Earlier(m, n)}
           /\ shown' = {mid[TokenYes[m]]}
           /\ UNCHANGED scanIn

\* A bug for LabelsTypeOK to find: a failed pass leaves the rest of its rows behind.
AbortKeepsRows == held' = Nothing /\ UNCHANGED upcoming /\ scanIn' = Retry /\ shown' = {}

Abort == held' = Nothing /\ upcoming' = {} /\ scanIn' = Retry /\ shown' = {}

Rest == <<now, mid, tradable, closedAt, earlier, moves, others, labelIn, backoff,
          search>>

Due == held = Nothing /\ scanIn = 0

StartSearching ==
    /\ Due /\ search
    /\ passNow' = now
    /\ Continue(tradable, now)
    /\ UNCHANGED <<Rest, last, log, good, faults>>

\* Without the search: all markets in one step; an exception leaves out the rest.
ScanAtOnce ==
    /\ Due /\ ~ search
    /\ passNow' = now
    /\ LET price(m) == mid[TokenYes[m]]
           ms == {m \in tradable : /\ Candidate(m, now) /\ Ready(m, now)
                                   /\ Diverges(m, price(m), NoAnswer)}
           WriteAll(some) ==
               \E s \in InOrder(some) :
                   Write([i \in 1 .. Len(s) |-> CalibrationRow(s[i], price(s[i]), NoAnswer)])
       IN  \/ /\ Spend(ms, now)
              /\ WriteAll(ms)
              /\ scanIn' = CalibrationPoll
              /\ UNCHANGED faults
           \/ /\ faults < MaxFaults
              /\ faults' = faults + 1
              /\ \E m \in ms, written \in BOOLEAN :
                     LET before == {n \in ms : Earlier(n, m)}
                     IN  /\ Spend(before \cup {m}, now)
                         /\ WriteAll(IF written THEN before \cup {m} ELSE before)
              /\ scanIn' = Retry
    /\ UNCHANGED <<Rest, held, upcoming, shown>>

\* The answer, or NoAnswer: the search found nothing, failed or timed out.
SearchAnswers(a) ==
    /\ held # Nothing
    /\ LET m == held.market
           row == CalibrationRow(m, held.price, a)
           holds == Diverges(m, held.price, a) /\ Ready(m, passNow)
       IN  \/ /\ IF holds THEN Spend({m}, passNow) /\ Write(<<row>>)
                 ELSE UNCHANGED <<last, log, good>>
              /\ Continue(upcoming, passNow)
              /\ UNCHANGED faults
           \/ /\ holds
              /\ faults < MaxFaults /\ faults' = faults + 1
              /\ Spend({m}, passNow)
              /\ Write(<<row>>) \/ UNCHANGED <<log, good>>
              /\ Abort
    /\ UNCHANGED <<Rest, passNow>>

\* An answer the code does not expect raises.
SearchRaises ==
    /\ held # Nothing
    /\ faults < MaxFaults /\ faults' = faults + 1
    /\ Abort
    /\ UNCHANGED <<Rest, passNow, last, log, good>>

-----------------------------------------------------------------------------
(* The engine.                                                             *)

\* It goes down, and is up again after any time: both loops start with a pass.
EngineRestarts ==
    /\ faults < MaxFaults /\ faults' = faults + 1
    /\ now' \in now .. MaxTime
    /\ mid' = [t \in Token |-> 0]
    /\ labelIn' = 0 /\ backoff' = Backoff
    /\ search' \in BOOLEAN
    /\ scanIn' = 0 /\ upcoming' = {} /\ held' = Nothing /\ shown' = {}
    /\ last' = [m \in Market |-> Never]
    /\ earlier' = Len(log)
    /\ UNCHANGED <<tradable, log, passNow, closedAt, good, moves, others>>

LabelsNext ==
    \/ \E t \in Token, p \in Prices \cup {0} : Move(t, p)
    \/ \E m \in Market : Close(m)
    \/ \E legs \in OtherLegs : OtherSignal(legs)
    \/ Tick
    \/ LabelPass \/ LabelPassFails
    \/ StartSearching \/ ScanAtOnce
    \/ \E a \in Answers \cup {NoAnswer} : SearchAnswers(a)
    \/ SearchRaises
    \/ EngineRestarts

LabelsSpec == LabelsInit /\ [][LabelsNext]_labelsVars

-----------------------------------------------------------------------------
(* Properties.                                                             *)

\* A row that is still unlabelled, whatever happened to its books in between, has met
\* no more passes that found its books live and fewer than label_batch dead rows before
\* it than there are older rows: each of them labelled an older one.  So a live row is
\* starved only by as many dead ones as the LIMIT (labeler.py, label_once).
GoodPassesUsed == \A i \in 1 .. Len(log) : log[i].outcome = NoOutcome => good[i] < i

\* An outcome is measured once, never before the horizon nor after the maximal age,
\* whatever passes failed in between (labeler.py, label_once).
OutcomesFinal ==
    [][\A i \in 1 .. Len(log) :
           \/ log'[i] = log[i]
           \/ log[i].outcome = NoOutcome /\ Age(i) > Horizon /\ Age(i) < MaxAge]_labelsVars

PassTime == SearchTime * Len(Markets)

IsCalibration(row) == row.market # NoMarket

\* The clock, the markets and the mid of a calibration row are older than the row:
\* the mid by at most one search, the clock and the markets by at most one pass.  That
\* bounds how close two rows of a market are that one run of the engine wrote, how near
\* its end a market may be, and how long it may have been closed (calibration_div.py,
\* _one_pass).
CalibrationRowsTimely ==
    [][\A i \in Len(log) + 1 .. Len(log') : IsCalibration(log'[i]) =>
           LET m == log'[i].market
           IN  /\ EndsAt[m] - now >= MinTtm - PassTime
               /\ closedAt[m] # Never => now - closedAt[m] <= PassTime
               /\ \A j \in earlier + 1 .. i - 1 :
                      IsCalibration(log'[j]) /\ log'[j].market = m
                          => now - log'[j].ts >= Debounce - PassTime
               /\ log'[i].legs[1].price \in shown \cup {mid[TokenYes[m]]}]_labelsVars

\* A row of signal_log is about the time it bears, and its outcome about a time in the
\* window after it, whatever restarts lie between.
RowsTimely == OutcomesFinal /\ CalibrationRowsTimely

\* config/base_rates.yaml says of n_samples = 0 that "the calibration scanner won't
\* act on these alone"; model.py gives them a weight.
PriorsAloneQuiet ==
    \A i \in 1 .. Len(log) :
        IsCalibration(log[i]) /\ log[i].answer = NoAnswer => FirstMatch(log[i].market).n > 0

=============================================================================
