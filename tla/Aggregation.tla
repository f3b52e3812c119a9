---------------------------- MODULE Aggregation ----------------------------
(***************************************************************************)
(* Aggregation and pruning: AggregateHourly, AggregateDaily, PruneSamples  *)
(* and PruneHourly of pkg/db/store.go, run by doStartupAggregation and     *)
(* doAggregate of pkg/daemon/daemon.go beside the poll goroutine, or by    *)
(* the one-shot flags of cmd/goodwe-daemon/main.go while the daemon is     *)
(* down.                                                                   *)
(*                                                                         *)
(* Time is counted in hours from the first sample the program could have   *)
(* taken; the daemon's clock moves on while a job runs, and while a poll   *)
(* does.  A table row is reduced to the number of samples it was made      *)
(* from: raw[h] are the rows of sensor_samples in hour h that have a       *)
(* value, hourly[h] the samples in the hourly row (0: no row), daily[h]    *)
(* the samples of hour h that are in the row of its day.  Rows of text     *)
(* sensors have no value (NULL): no aggregate counts them, but they are    *)
(* looked at where the oldest sample is, and pruned like the others; text  *)
(* is the hours that have some.  Every statement commits by itself: a job  *)
(* that fails or dies leaves what it has done.                             *)
(***************************************************************************)
EXTENDS Integers

CONSTANTS
    HoursPerDay,
    Retention,        \* -retention-days, in hours; 0 turns pruning off
    HourlyRetention,  \* how long hourly rows are kept (365 days), in hours
    Window,           \* how far -aggregate looks back (48 hours)
    Uses,             \* the kinds of jobs that work on a database: sets of them to try
    TextHours,        \* bound: the hours in which text sensors have a reading
    SlowHours,        \* bound: the hours whose polls may last into later ones
    MaxHour,          \* bound: the clock; there are no polls in the last hour
    MaxPerHour,       \* bound: samples of an hour
    MaxAborts         \* bound: jobs that end early

ASSUME HoursAssumption ==
    /\ HoursPerDay \in Nat \ {0} /\ Window \in Nat /\ MaxHour \in Nat /\ MaxPerHour \in Nat
    /\ Retention \in Nat /\ HourlyRetention \in Nat /\ MaxAborts \in Nat

\* The daemon, and main with -aggregate, -aggregate-backfill or -prune.
Kinds == {"daemon", "aggregate", "backfill", "prune"}

ASSUME UsesAssumption == Uses \subseteq SUBSET Kinds

Hours == 0..MaxHour
NoHour == -1

VARIABLES
    clock,    \* the current hour
    polling,  \* the hour of a poll that has its readings and inserts them
    raw,      \* sensor_samples that have a value
    text,     \* the hours that have samples without one
    hourly,   \* sensor_samples_hourly
    daily,    \* sensor_samples_daily
    total,    \* samples with a value ever inserted, by hour (history)
    due,      \* those of them that were inserted in their own hour (history)
    job,      \* the job that runs: its step, kind, clock and next bucket
    aborts,   \* jobs that ended early (history)
    kinds     \* the kinds of jobs that this database sees

tables == <<raw, text, hourly, daily>>
history == <<total, due>>
vars == <<clock, polling, tables, history, job, aborts, kinds>>

Day(h) == h \div HoursPerDay
Trunc(h) == HoursPerDay * Day(h)
IsMax(m, S) == m \in S /\ \A h \in S : h <= m
IsMin(m, S) == m \in S /\ \A h \in S : m <= h
Larger(a, b) == IF a < b THEN b ELSE a

RawHours == {h \in Hours : raw[h] > 0} \cup text
HourlyRows == {h \in Hours : hourly[h] > 0}
DailyRows == {Trunc(h) : h \in {g \in Hours : daily[g] > 0}}

NoJob == [pc |-> "idle", kind |-> "daemon", now |-> 0, since |-> 0, t |-> 0]

TypeOK ==
    /\ clock \in Hours /\ polling \in Hours \cup {NoHour}
    /\ raw \in [Hours -> 0..MaxPerHour] /\ hourly \in [Hours -> 0..MaxPerHour]
    /\ daily \in [Hours -> 0..MaxPerHour] /\ total \in [Hours -> 0..MaxPerHour]
    /\ due \in [Hours -> 0..MaxPerHour] /\ text \subseteq Hours
    /\ job \in [pc: {"idle", "hourlyBegin", "hourly", "dailyBegin", "daily",
                     "pruneRaw", "pruneHourly"},
                kind: Kinds,
                now: Hours, since: Hours, t: 0..(MaxHour + HoursPerDay)]
    /\ aborts \in 0..MaxAborts /\ kinds \in Uses

Init ==
    /\ clock = 0 /\ polling = NoHour
    /\ raw = [h \in Hours |-> 0] /\ hourly = [h \in Hours |-> 0]
    /\ daily = [h \in Hours |-> 0] /\ total = [h \in Hours |-> 0]
    /\ due = [h \in Hours |-> 0] /\ text = {}
    /\ job = NoJob
    /\ aborts = 0 /\ kinds \in Uses

-----------------------------------------------------------------------------
(* The clock and the poll goroutine.                                       *)

Tick ==
    /\ clock < MaxHour
    /\ polling # NoHour => polling \in SlowHours
    /\ clock' = clock + 1
    /\ UNCHANGED <<polling, tables, history, job, aborts, kinds>>

\* doPoll takes the time of its samples...
Poll ==
    /\ polling = NoHour
    /\ clock < MaxHour /\ total[clock] < MaxPerHour
    /\ polling' = clock
    /\ UNCHANGED <<clock, tables, history, job, aborts, kinds>>

\* ... and then inserts them, which the clock does not wait for.  A statement
\* that fails is passed over, so that readings may be missing.
InsertSample ==
    /\ polling # NoHour
    /\ \E n \in 0..1, texts \in SUBSET ({polling} \cap TextHours) :
         /\ raw' = [raw EXCEPT ![polling] = @ + n]
         /\ total' = [total EXCEPT ![polling] = @ + n]
         /\ due' = [due EXCEPT ![polling] = IF polling = clock THEN @ + n ELSE @]
         /\ text' = text \cup texts
    /\ polling' = NoHour
    /\ UNCHANGED <<clock, hourly, daily, job, aborts, kinds>>

-----------------------------------------------------------------------------
(* Jobs.                                                                   *)

Goto(l) == job' = [job EXCEPT !.pc = l]

\* doStartupAggregation, doAggregate, and main with -aggregate,
\* -aggregate-backfill or -prune.
StartJob(kind) ==
    /\ job.pc = "idle"
    /\ job' = [pc |-> IF kind = "prune" THEN "pruneRaw" ELSE "hourlyBegin", kind |-> kind,
               now |-> clock, t |-> 0,
               since |-> IF kind = "aggregate" THEN Larger(clock - Window, 0) ELSE 0]
    /\ UNCHANGED <<clock, polling, tables, history, aborts, kinds>>

\* The bucket after the newest one of a table; the first one when it is empty.
After(rows, step) == IF rows = {} THEN 0 ELSE (CHOOSE m \in rows : IsMax(m, rows)) + step

\* Mutant of HourlyStart: the newest bucket plus one hour is not needed.
HourlyStartSkips == Larger(After(HourlyRows, 2), job.since)

HourlyStart == Larger(After(HourlyRows, 1), job.since)

\* AggregateHourly up to its loop: the bucket after the newest one, not before
\* since, not before the oldest sample.
HourlyBegin ==
    /\ job.pc = "hourlyBegin"
    /\ \/ RawHours = {} /\ Goto("dailyBegin")
       \/ \E m \in RawHours :
            /\ IsMin(m, RawHours)
            /\ job' = [job EXCEPT !.pc = "hourly", !.t = Larger(HourlyStart, m)]
    /\ UNCHANGED <<clock, polling, tables, history, aborts, kinds>>

\* Mutant of HourlyEnd: the current hour is aggregated too.
HourlyEndCurrent == job.now + 1

\* until, truncated: the hours before it are over.
HourlyEnd == job.now

\* One hour of the loop: the row counts the samples that have a value; an hour
\* without such samples gets no row.
HourlyStep ==
    /\ job.pc = "hourly" /\ job.t < HourlyEnd
    /\ hourly' = [hourly EXCEPT ![job.t] = IF raw[job.t] > 0 THEN raw[job.t] ELSE @]
    /\ job' = [job EXCEPT !.t = @ + 1]
    /\ UNCHANGED <<clock, polling, raw, text, daily, history, aborts, kinds>>

HourlyDone ==
    /\ job.pc = "hourly" /\ job.t >= HourlyEnd
    /\ Goto("dailyBegin")
    /\ UNCHANGED <<clock, polling, tables, history, aborts, kinds>>

\* Mutant of DailyStart: the newest day is computed again.
DailyStartAgain == Trunc(Larger(After(DailyRows, 0), job.since))

DailyStart == Trunc(Larger(After(DailyRows, HoursPerDay), job.since))

\* AggregateDaily up to its loop.
DailyBegin ==
    /\ job.pc = "dailyBegin"
    /\ \/ HourlyRows = {} /\ job' = [job EXCEPT !.pc = "daily", !.t = Trunc(job.now)]
       \/ \E m \in HourlyRows :
            /\ IsMin(m, HourlyRows)
            /\ job' = [job EXCEPT !.pc = "daily", !.t = Larger(DailyStart, Trunc(m))]
    /\ UNCHANGED <<clock, polling, tables, history, aborts, kinds>>

\* Mutant of DailyEnd: the day under way is aggregated too.
DailyEndCurrent == job.now

DailyEnd == Trunc(job.now)

\* One day of the loop; a day without hourly rows gets no row.
DailyStep ==
    /\ job.pc = "daily" /\ job.t < DailyEnd
    /\ daily' = [h \in Hours |->
                   IF Day(h) = Day(job.t) /\ (\E g \in HourlyRows : Day(g) = Day(h))
                   THEN hourly[h] ELSE daily[h]]
    /\ job' = [job EXCEPT !.t = @ + HoursPerDay]
    /\ UNCHANGED <<clock, polling, raw, text, hourly, history, aborts, kinds>>

\* Only the daemon goes on to prune, and only with a retention.
DailyDone ==
    /\ job.pc = "daily" /\ job.t >= DailyEnd
    /\ job' = IF job.kind = "daemon" /\ Retention > 0 THEN [job EXCEPT !.pc = "pruneRaw"]
                                                      ELSE NoJob
    /\ UNCHANGED <<clock, polling, tables, history, aborts, kinds>>

\* Mutant of RawCutoff: everything that has been sampled before now.
RawCutoffNow == job.now + 1

RawCutoff == job.now - Retention
HourlyCutoff == job.now - HourlyRetention

\* PruneSamples deletes the samples before the cutoff in batches, whether they
\* have a value or not.  The cutoff lies within its hour, so some samples of
\* that hour go as well.
PruneSamples ==
    /\ job.pc = "pruneRaw"
    /\ \E h \in RawHours :
         /\ h <= RawCutoff
         /\ \/ /\ \E n \in 0..(MaxPerHour - 1) : n < raw[h] /\ raw' = [raw EXCEPT ![h] = n]
               /\ UNCHANGED text
            \/ h \in text /\ text' = text \ {h} /\ UNCHANGED raw
    /\ UNCHANGED <<clock, polling, hourly, daily, history, job, aborts, kinds>>

\* A failed PruneSamples does not keep the daemon from PruneHourly.
PruneSamplesDone ==
    /\ job.pc = "pruneRaw"
    /\ \/ \A h \in RawHours : h >= RawCutoff
       \/ job.kind = "daemon" /\ aborts < MaxAborts
    /\ aborts' = IF \A h \in RawHours : h >= RawCutoff THEN aborts ELSE aborts + 1
    /\ Goto("pruneHourly")
    /\ UNCHANGED <<clock, polling, tables, history, kinds>>

\* PruneHourly deletes the oldest rows first.  The cutoff lies within its
\* hour, so the row of that hour goes as well.
PruneHourly ==
    /\ job.pc = "pruneHourly"
    /\ \E m \in HourlyRows :
         /\ m <= HourlyCutoff /\ IsMin(m, HourlyRows)
         /\ hourly' = [hourly EXCEPT ![m] = 0]
    /\ UNCHANGED <<clock, polling, raw, text, daily, history, job, aborts, kinds>>

PruneHourlyDone ==
    /\ job.pc = "pruneHourly" /\ \A h \in HourlyRows : h > HourlyCutoff
    /\ job' = NoJob
    /\ UNCHANGED <<clock, polling, tables, history, aborts, kinds>>

\* A statement fails, the context is cancelled, or the process dies.
Abort ==
    /\ job.pc # "idle" /\ aborts < MaxAborts
    /\ aborts' = aborts + 1
    /\ job' = NoJob
    /\ UNCHANGED <<clock, polling, tables, history, kinds>>

-----------------------------------------------------------------------------

JobStep ==
    \/ HourlyBegin \/ HourlyStep \/ HourlyDone \/ DailyBegin \/ DailyStep \/ DailyDone
    \/ PruneSamples \/ PruneSamplesDone \/ PruneHourly \/ PruneHourlyDone

Next ==
    \/ Tick \/ Poll \/ InsertSample
    \/ \E kind \in kinds : StartJob(kind)
    \/ JobStep
    \/ Abort

Spec == Init /\ [][Next]_vars

-----------------------------------------------------------------------------
(* Properties.                                                             *)

Only(S) == kinds \subseteq S

\* What the properties ask of an hour: that an aggregate has at least the
\* samples that have a value and were inserted in their own hour.  A sample
\* inserted later may come behind the aggregation of its hour (see
\* HoursReaggregated), and text is in no aggregate.
InHourly(h) == hourly[h] >= due[h]
InDaily(h) == daily[h] >= due[h]

\* AggregateHourly: a row has every sample inserted in its hour, none of them
\* after the row was written and none deleted before.  This is said of the
\* hours that are kept: when PruneHourly empties the table the cursor is back
\* at the epoch, and what a failed PruneSamples left of older hours is done
\* again.
HourlyRowComplete ==
    Only({"daemon"}) =>
        \A h \in HourlyRows : h > clock - HourlyRetention => InHourly(h)

\* Before pruning by the daemon has deleted the first sample with a value of an
\* hour, those inserted in the hour are in an aggregate: it "aggregates raw
\* data into hourly and daily summary tables and prunes old raw data".
PrunedOnlyAggregated ==
    Only({"daemon"}) => \A h \in Hours : raw[h] < total[h] => InHourly(h) \/ InDaily(h)

\* A daily row has every sample with a value that was inserted in its own hour,
\* although it is computed from hourly rows that come and go.
DailyRowComplete ==
    Only({"daemon"}) => \A d \in DailyRows : \A h \in Hours : Trunc(h) = d => InDaily(h)

\* Each time the daemon's job has done the hours, all that was inserted with a
\* value in an hour that is over is in an aggregate, whatever earlier jobs have
\* left undone.
DaemonCoversAll ==
    Only({"daemon"}) /\ job.pc \in {"dailyBegin", "daily", "pruneRaw", "pruneHourly"} =>
        \A h \in Hours : h < job.now => InHourly(h) \/ InDaily(h)

\* "Daily aggregates | forever" (README.md): no later run takes anything from
\* a day's row, whatever has been pruned by then and by whichever job.
DailyForever == [][\A h \in Hours : daily'[h] >= daily[h]]_vars

\* "aggregate ALL raw data into hourly/daily tables" (README.md): once
\* -aggregate-backfill has done the hours, the row of an hour that is over has
\* ALL of its samples with a value, where none was inserted late.
BackfillAggregatesAll ==
    job.kind = "backfill" /\ job.pc \in {"dailyBegin", "daily"} =>
        \A h \in Hours : h < job.now /\ total[h] = due[h] => hourly[h] >= raw[h]

\* It does so unless an -aggregate, or the daemon with its pruning, has been at
\* work before.
BackfillCoversAll == Only({"backfill", "prune"}) => BackfillAggregatesAll

\* "Idempotent - safe to re-run" (AggregateHourly), "updated (re-aggregated from
\* raw samples for that hour)" (TODO.md): a run begins no later than the first
\* hour whose row lacks a sample.
HoursReaggregated ==
    job.pc = "hourlyBegin" =>
        \A h \in HourlyRows : h < job.now /\ hourly[h] < raw[h] => HourlyStart <= h
=============================================================================
