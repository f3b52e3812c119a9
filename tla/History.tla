------------------------------ MODULE History -------------------------------
(***************************************************************************)
(* The samples of a counter (e_total_imp) as the dashboard asks for them:  *)
(* handleGetAggregate (pkg/api/handler.go) with LatestSample, SampleAt and *)
(* QueryRawSamples (pkg/db/store.go).  The queries of a request are steps  *)
(* of their own, and between them the daemon inserts and prunes samples.   *)
(*                                                                         *)
(* Time is counted in polls.  The answer of ?bucket=hour and =day, which   *)
(* lists the rows of Aggregation, is left out.                             *)
(***************************************************************************)
EXTENDS Integers, Sequences, FiniteSets

CONSTANTS
    MaxTime,    \* bound: polls
    Window,     \* the default of ?since: 24 hours
    Retention,  \* the youngest sample that pruning may delete
    Limits,     \* the values of ?limit to try
    MaxPoints   \* points of an answer (2000)

ASSUME HistoryAssumption ==
    /\ MaxTime \in Nat /\ Window \in Nat /\ Retention \in Nat
    /\ Limits \subseteq Nat \ {0} /\ MaxPoints \in Nat \ {0}

VARIABLES
    clock,      \* the time; the counter of the inverter grows with it
    raw,        \* sensor_samples of the sensor
    asked,      \* the request under way and where it is
    reference,  \* its delta reference
    points      \* the samples of its answer

historyVars == <<clock, raw, asked, reference, points>>

NoRequest == [kind |-> "none"]
NoSample == [at |-> -1, value |-> 0]

HistoryInit ==
    /\ clock = 0 /\ raw = {}
    /\ asked = NoRequest /\ reference = NoSample /\ points = <<>>

-----------------------------------------------------------------------------
(* The daemon.                                                             *)

\* InsertSample, unless the poll fails; the counter counts on.
Tick ==
    /\ clock < MaxTime /\ clock' = clock + 1
    /\ raw' \in {raw, raw \cup {[at |-> clock', value |-> clock']}}
    /\ UNCHANGED <<asked, reference, points>>

\* PruneSamples: the samples before a cutoff.
PruneRaw ==
    /\ \E cutoff \in 1..(clock - Retention) :
         /\ \E s \in raw : s.at < cutoff
         /\ raw' = {s \in raw : s.at >= cutoff}
    /\ UNCHANGED <<clock, asked, reference, points>>

-----------------------------------------------------------------------------
(* The queries.                                                            *)

\* ORDER BY sampled_at DESC LIMIT 1.
Newest(S) == IF S = {} THEN NoSample ELSE CHOOSE s \in S : \A t \in S : t.at <= s.at

LatestSample == Newest(raw)

\* The last sample not after a time.
SampleAt(at) == Newest({s \in raw : s.at <= at})

InRange(since, until) == {s \in raw : since <= s.at /\ s.at <= until}

\* The samples of a set by their time.
Ascending(S) ==
    [i \in 1..Cardinality(S) |-> CHOOSE s \in S : Cardinality({t \in S : t.at < s.at}) = i - 1]

\* Mutant of QueryRawSamples: the oldest ones.
QueryRawSamplesOldest(since, until, limit) ==
    LET match == InRange(since, until)
    IN Ascending({s \in match : Cardinality({t \in match : t.at < s.at}) < limit})

\* ORDER BY sampled_at DESC LIMIT limit, and then ascending.
QueryRawSamples(since, until, limit) ==
    LET match == InRange(since, until)
    IN Ascending({s \in match : Cardinality({t \in match : t.at > s.at}) < limit})

\* Mutant of downsample: the step is rounded down.
downsampleFloor(samples, max) ==
    IF Len(samples) <= max THEN samples
    ELSE LET step == Len(samples) \div max
         IN [i \in 1..((Len(samples) + step - 1) \div step) |-> samples[(i - 1) * step + 1]]

\* Every step-th sample from the first on.
downsample(samples, max) ==
    IF Len(samples) <= max THEN samples
    ELSE LET step == (Len(samples) + max - 1) \div max
         IN [i \in 1..((Len(samples) + step - 1) \div step) |-> samples[(i - 1) * step + 1]]

-----------------------------------------------------------------------------
(* handleGetAggregate.                                                     *)

\* The parameters: until is not later than now, which is read once, and since
\* not later than until (400 otherwise).  Without ?delta, at is -1; with it,
\* since has its default here.
AskSamples ==
    /\ asked.kind = "none"
    /\ \E since, until \in 0..clock, limit \in Limits, at \in -1..(clock + 1) :
         /\ since <= until
         /\ since \in {0, clock - Window} /\ (at # -1 => since = clock - Window \/ clock < Window)
         /\ asked' = [kind |-> IF at = -1 THEN "raw" ELSE "delta",
                      since |-> since, until |-> until, limit |-> limit, at |-> at,
                      now |-> clock]
    /\ UNCHANGED <<clock, raw, reference, points>>

\* ?latest=true.
AskLatest ==
    /\ asked.kind = "none"
    /\ asked' = [kind |-> "answered", limit |-> 1, at |-> -1]
    /\ points' = IF LatestSample = NoSample THEN <<>> ELSE <<LatestSample>>
    /\ UNCHANGED <<clock, raw, reference>>

\* The delta reference; without one the request is refused.
DeltaReference ==
    /\ asked.kind = "delta"
    /\ reference' = SampleAt(asked.at)
    /\ asked' = IF reference' = NoSample THEN NoRequest ELSE [asked EXCEPT !.kind = "raw"]
    /\ UNCHANGED <<clock, raw, points>>

\* The samples, thinned out and then taken relative to the reference.
QuerySamples ==
    /\ asked.kind = "raw"
    /\ LET samples == downsample(QueryRawSamples(asked.since, asked.until, asked.limit), MaxPoints)
       IN points' = [i \in DOMAIN samples |->
                       [samples[i] EXCEPT !.value = @ - reference.value]]
    /\ asked' = [asked EXCEPT !.kind = "answered"]
    /\ UNCHANGED <<clock, raw, reference>>

\* A query fails, or the client goes away: no samples (500).
QueryFails ==
    /\ asked.kind \in {"delta", "raw"}
    /\ asked' = NoRequest /\ reference' = NoSample
    /\ UNCHANGED <<clock, raw, points>>

Answered ==
    /\ asked.kind = "answered"
    /\ asked' = NoRequest /\ reference' = NoSample /\ points' = <<>>
    /\ UNCHANGED <<clock, raw>>

HistoryNext ==
    \/ Tick \/ PruneRaw
    \/ AskSamples \/ AskLatest \/ DeltaReference \/ QuerySamples \/ QueryFails \/ Answered

-----------------------------------------------------------------------------
(* Properties.                                                             *)

\* Today's energy is not negative (index.html: loadStatus asks for ?delta=
\* midnight&limit=1): the newest sample is not older than the reference, which
\* was read by an earlier query, whatever was inserted or pruned in between.
\* A delta time ahead of the server's clock is excepted.
DeltaNotNegative ==
    (asked.kind = "answered" /\ asked.at # -1 /\ asked.limit = 1) =>
        (asked.at <= asked.now /\ asked.until = asked.now =>
            \A i \in DOMAIN points : points[i].value >= 0)

\* An answer has at most MaxPoints samples, in ascending order, and spans the
\* newest limit samples of the range evenly: it begins with the first of
\* them, between two points there are equally many left out, and behind the
\* last one not more than that.
AnswerEven ==
    [][asked.kind = "raw" /\ points # points' =>
        LET match == InRange(asked.since, asked.until)
            newest == {s \in match : Cardinality({t \in match : t.at > s.at}) < asked.limit}
            Between(a, b) == Cardinality({s \in newest : a < s.at /\ s.at < b})
            n == Len(points')
        IN /\ n <= MaxPoints
           /\ \A i \in 1..n : \E s \in newest :
                s.at = points'[i].at /\ points'[i].value = s.value - reference.value
           /\ Between(-1, points'[1].at) = 0
           /\ \A i \in 1..(n - 1) :
                /\ points'[i].at < points'[i + 1].at
                /\ Between(points'[i].at, points'[i + 1].at) = Between(points'[1].at, points'[2].at)
           /\ n > 1 => Between(points'[n].at, MaxTime + 1) <= Between(points'[1].at, points'[2].at)
      ]_historyVars
=============================================================================
