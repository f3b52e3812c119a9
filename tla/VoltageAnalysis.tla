-------------------------- MODULE VoltageAnalysis --------------------------
(***************************************************************************)
(* pkg/analysis/voltage.go, RunVoltageAnalysis, on the tables it uses      *)
(* (pkg/db/store.go): sensor_samples, voltage_events and the one row of    *)
(* voltage_analysis_cursor.                                                *)
(*                                                                         *)
(* The daemon runs the analysis after every poll, in the goroutine that    *)
(* stored the samples; -offline-analyze-voltage runs it in a process of    *)
(* its own, on the same database.  Every statement commits by itself, so   *)
(* a run is a sequence of steps, and an error or a crash at any of them    *)
(* leaves what the earlier ones wrote.                                     *)
(*                                                                         *)
(* A sample's rowid is its place in samples and stands for its time; the   *)
(* average and the duration of an event, computed from the same samples    *)
(* as its extremes and its end, are left out.                              *)
(***************************************************************************)
EXTENDS Integers, Sequences, FiniteSets, FiniteSetsExt

CONSTANTS
    Phases,        \* the sensors, a sequence: meter_voltage1, 2, 3
    Voltages,      \* readings, in volts
    Null,          \* a sample without a numeric value
    VoltageMin, VoltageMax,
    Offline,       \* whether an offline analysis may run beside the daemon
    MaxAborts,     \* bound: runs that end early (store error, crash)
    MaxSamples     \* bound: rows of sensor_samples

ASSUME VoltageAssumption ==
    Voltages \subseteq Int /\ VoltageMin \in Int /\ VoltageMax \in Int /\ Null \notin Int
ASSUME BoundsAssumption == Offline \in BOOLEAN /\ MaxAborts \in Nat /\ MaxSamples \in Nat

Sensor == {Phases[i] : i \in DOMAIN Phases}

\* The sensors of RunVoltageAnalysis are a literal: there are some, each once.
ASSUME PhasesAssumption ==
    Phases \in Seq(Sensor) /\ Phases # <<>>
    /\ \A i, j \in DOMAIN Phases : Phases[i] = Phases[j] => i = j

Analysers == {"daemon"} \cup (IF Offline THEN {"offline"} ELSE {})

VARIABLES
    samples,  \* sensor_samples: the voltage readings in rowid order
    events,   \* voltage_events in id order
    cursor,   \* voltage_analysis_cursor
    run,      \* per analyser: the local variables of RunVoltageAnalysis
    seen,     \* the samples some analyser has looked at (history)
    aborts    \* runs that ended early (history)

vars == <<samples, events, cursor, run, seen, aborts>>

\* The event of a cursor or of a phaseState; 0 for nil.
EventID == 0..Len(events)

\* Mutant of IsOut: an overvoltage is missed.
IsOutLow(v) == v < VoltageMin

IsOut(v) == v < VoltageMin \/ v > VoltageMax

Idle == [pc |-> "idle", last |-> 0, ongoing |-> [p \in Sensor |-> 0], maxSeen |-> 0,
         i |-> 1, rows |-> {}, event |-> 0, lo |-> 0, hi |-> 0, count |-> 0]

TypeOK ==
    /\ samples \in Seq([phase: Sensor, v: Voltages \cup {Null}])
    /\ events \in Seq([phase: Sensor, start: 1..Len(samples), end: 0..Len(samples),
                       lo: Voltages, hi: Voltages])
    /\ cursor \in [last: 0..Len(samples), ongoing: [Sensor -> EventID]]
    /\ seen \subseteq 1..Len(samples) /\ aborts \in 0..MaxAborts
    /\ \A a \in Analysers :
         /\ run[a].pc \in {"idle", "fetch", "scan", "save"}
         /\ run[a].last \in 0..Len(samples) /\ run[a].maxSeen \in 0..Len(samples)
         /\ run[a].ongoing \in [Sensor -> EventID] /\ run[a].event \in EventID
         /\ run[a].i \in 1..(Len(Phases) + 1)
         /\ run[a].rows \subseteq 1..Len(samples)

Init ==
    /\ samples = <<>> /\ events = <<>>
    /\ cursor = [last |-> 0, ongoing |-> [p \in Sensor |-> 0]]
    /\ run = [a \in Analysers |-> Idle]
    /\ seen = {} /\ aborts = 0

-----------------------------------------------------------------------------

\* InsertSample, by the poll goroutine, which is not analysing meanwhile.
InsertSample(p, v) ==
    /\ run["daemon"].pc = "idle"
    /\ Len(samples) < MaxSamples
    /\ samples' = Append(samples, [phase |-> p, v |-> v])
    /\ UNCHANGED <<events, cursor, run, seen, aborts>>

\* GetVoltageAnalysisCursor.
Begin(a) ==
    /\ run[a].pc = "idle"
    /\ run' = [run EXCEPT ![a] = [Idle EXCEPT !.pc = "fetch", !.last = cursor.last,
                                  !.maxSeen = cursor.last, !.ongoing = cursor.ongoing]]
    /\ UNCHANGED <<samples, events, cursor, seen, aborts>>

\* Mutant of NewRows: off by one.
NewRowsSkips(p, sinceID) == {k \in DOMAIN samples : samples[k].phase = p /\ k > sinceID + 1}

\* GetNewVoltageSampleRows.
NewRows(p, sinceID) == {k \in DOMAIN samples : samples[k].phase = p /\ k > sinceID}

\* Mutant of Fetch: the event of the previous run is not resumed.
FetchFresh(a) ==
    /\ run[a].pc = "fetch"
    /\ LET p == Phases[run[a].i] IN
         run' = [run EXCEPT ![a] = [@ EXCEPT !.pc = "scan", !.rows = NewRows(p, run[a].last),
                                    !.event = 0, !.count = 0]]
    /\ UNCHANGED <<samples, events, cursor, seen, aborts>>

\* The start of a sensor's turn: query its new samples and resume its ongoing
\* event.
Fetch(a) ==
    /\ run[a].pc = "fetch"
    /\ LET p == Phases[run[a].i] IN
         run' = [run EXCEPT ![a] = [@ EXCEPT !.pc = "scan", !.rows = NewRows(p, run[a].last),
                                    !.event = run[a].ongoing[p], !.count = 0]]
    /\ UNCHANGED <<samples, events, cursor, seen, aborts>>

\* The event state after an out-of-range reading: a new event, or the ongoing
\* one with the extremes of the readings of this run.
Extremes(a, v) ==
    IF run[a].event = 0 \/ run[a].count = 0 THEN [lo |-> v, hi |-> v]
    ELSE [lo |-> Min({v, run[a].lo}), hi |-> Max({v, run[a].hi})]

\* The three statements that write events.
InsertVoltageEvent(k, x) ==
    events' = Append(events, [phase |-> samples[k].phase, start |-> k, end |-> 0,
                              lo |-> x.lo, hi |-> x.hi])
UpdateVoltageEvent(e, x) == events' = [events EXCEPT ![e] = [@ EXCEPT !.lo = x.lo, !.hi = x.hi]]
CloseVoltageEvent(e, k) == events' = [events EXCEPT ![e] = [@ EXCEPT !.end = k]]

\* One sample of the current sensor, in rowid order.
Scan(a) ==
    /\ run[a].pc = "scan" /\ run[a].rows # {}
    /\ LET k == Min(run[a].rows)
           v == samples[k].v
           e == run[a].event
           x == Extremes(a, v)
           next == [run[a] EXCEPT !.rows = @ \ {k}, !.maxSeen = Max({@, k})]
       IN /\ seen' = seen \cup {k}
          /\ \/ v = Null /\ run' = [run EXCEPT ![a] = next] /\ UNCHANGED events
             \/ /\ v # Null /\ IsOut(v) /\ e = 0
                /\ InsertVoltageEvent(k, x)
                /\ run' = [run EXCEPT ![a] = [next EXCEPT !.event = Len(events) + 1,
                                              !.lo = x.lo, !.hi = x.hi, !.count = 1]]
             \/ /\ v # Null /\ IsOut(v) /\ e # 0
                /\ UpdateVoltageEvent(e, x)
                /\ run' = [run EXCEPT ![a] = [next EXCEPT !.lo = x.lo, !.hi = x.hi, !.count = 1]]
             \/ v # Null /\ ~IsOut(v) /\ e = 0 /\ run' = [run EXCEPT ![a] = next] /\ UNCHANGED events
             \/ /\ v # Null /\ ~IsOut(v) /\ e # 0
                /\ CloseVoltageEvent(e, k)
                /\ run' = [run EXCEPT ![a] = [next EXCEPT !.event = 0]]
    /\ UNCHANGED <<samples, cursor, aborts>>

\* The end of a sensor's turn: its event is kept for the next run.
NextSensor(a) ==
    /\ run[a].pc = "scan" /\ run[a].rows = {}
    /\ run' = [run EXCEPT ![a] =
                 [@ EXCEPT !.ongoing[Phases[run[a].i]] = run[a].event, !.i = run[a].i + 1,
                           !.pc = IF run[a].i = Len(Phases) THEN "save" ELSE "fetch"]]
    /\ UNCHANGED <<samples, events, cursor, seen, aborts>>

\* SaveVoltageAnalysisCursor.
Save(a) ==
    /\ run[a].pc = "save"
    /\ cursor' = [last |-> run[a].maxSeen, ongoing |-> run[a].ongoing]
    /\ run' = [run EXCEPT ![a] = Idle]
    /\ UNCHANGED <<samples, events, seen, aborts>>

\* A store call fails and the run returns its error, or the process dies: the
\* cursor is not saved.
Abort(a) ==
    /\ run[a].pc # "idle" /\ aborts < MaxAborts
    /\ aborts' = aborts + 1
    /\ run' = [run EXCEPT ![a] = Idle]
    /\ UNCHANGED <<samples, events, cursor, seen>>

-----------------------------------------------------------------------------

Analyse(a) == Begin(a) \/ Fetch(a) \/ Scan(a) \/ NextSensor(a) \/ Save(a)

Next ==
    \/ \E p \in Sensor, v \in Voltages \cup {Null} : InsertSample(p, v)
    \/ \E a \in Analysers : Analyse(a) \/ Abort(a)

Spec == Init /\ [][Next]_vars

-----------------------------------------------------------------------------
(* What the analysis should find, read off the samples up to rowid n: the  *)
(* maximal runs of out-of-range readings of each sensor.                   *)

OutOfRange(v) == v # Null /\ v \notin VoltageMin..VoltageMax
InRange(v) == v \in VoltageMin..VoltageMax

Readings(p, n) == {k \in 1..n : samples[k].phase = p /\ samples[k].v # Null}

Starts(p, n) ==
    {k \in Readings(p, n) : /\ OutOfRange(samples[k].v)
                            /\ \A j \in Readings(p, k - 1) :
                                 (\A i \in Readings(p, k - 1) : i <= j) => InRange(samples[j].v)}

EndOf(p, k, n) ==
    LET back == {j \in Readings(p, n) : j > k /\ InRange(samples[j].v)}
    IN IF back = {} THEN 0 ELSE Min(back)

\* The readings of the event that starts at k.
Members(p, k, n) ==
    {j \in Readings(p, n) : j >= k /\ (EndOf(p, k, n) = 0 \/ j < EndOf(p, k, n))}

Spans(p, n) == {[start |-> k, end |-> EndOf(p, k, n)] : k \in Starts(p, n)}

\* The events of a sensor in the table.
Found(p) == {e \in DOMAIN events : events[e].phase = p}

Quiet == \A a \in Analysers : run[a].pc = "idle"

-----------------------------------------------------------------------------
(* Properties.                                                             *)

\* Run by run, the analysis finds exactly the events that one look at all
\* samples would: every one once, with its start and its end, across any
\* division of the samples into runs ("Incremental cursor-based processing",
\* "Ongoing event detection across daemon restarts", TODO.md); and the cursor
\* remembers the one that is still open.  Said as long as no run was cut short:
\* see OneOngoingEvent.
IncrementalEqualsBatch ==
    Quiet /\ aborts = 0 => \A p \in Sensor :
        /\ {[start |-> events[e].start, end |-> events[e].end] : e \in Found(p)}
             = Spans(p, cursor.last)
        /\ Cardinality(Found(p)) = Cardinality(Starts(p, cursor.last))
        /\ {e \in Found(p) : events[e].end = 0} = {cursor.ongoing[p]} \ {0}

\* No sample up to the cursor has been passed over.
NoSampleSkipped == 1..cursor.last \subseteq seen

\* Whatever run was cut short where, every out-of-range reading up to the
\* cursor lies in an event of its sensor.
OutOfRangeCovered ==
    \A k \in 1..cursor.last : OutOfRange(samples[k].v) =>
        \E e \in Found(samples[k].phase) :
            events[e].start <= k /\ (events[e].end = 0 \/ k < events[e].end)

\* Once the analysis has caught up, a sensor has one ongoing event at most, the
\* one the cursor knows, so that its end will be recorded ("Resume ongoing
\* event from previous run", voltage.go).
OneOngoingEvent ==
    Quiet /\ cursor.last = Len(samples) => \A p \in Sensor :
        {e \in Found(p) : events[e].end = 0} \subseteq {cursor.ongoing[p]}

\* An event's extremes are those of all its readings, as an update is to
\* "Accumulate into ongoing event" (voltage.go).
ExtremesOfWholeEvent ==
    Quiet => \A e \in DOMAIN events :
        LET vs == {samples[k].v : k \in Members(events[e].phase, events[e].start, cursor.last)}
        IN events[e].lo = Min(vs) /\ events[e].hi = Max(vs)
=============================================================================
