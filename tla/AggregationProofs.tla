------------------------- MODULE AggregationProofs --------------------------
(***************************************************************************)
(* Proofs about Aggregation.                                               *)
(***************************************************************************)
EXTENDS Aggregation, WellFoundedInduction, TLAPS

-----------------------------------------------------------------------------
(* Days.                                                                   *)

\* The hours of a day are those between its first one and the next day's.
LEMMA DayIs ==
  ASSUME NEW h \in Nat
  PROVE  /\ Day(h) \in Nat /\ Trunc(h) \in Nat
         /\ Trunc(h) <= h /\ h < Trunc(h) + HoursPerDay
<1>1. HoursPerDay \in Nat /\ HoursPerDay > 0
  BY HoursAssumption
<1>2. h \div HoursPerDay \in Nat
  BY <1>1
<1>3. HoursPerDay * (h \div HoursPerDay) <= h
  BY <1>1
<1>4. h < HoursPerDay * (h \div HoursPerDay) + HoursPerDay
  BY <1>1
<1>5. HoursPerDay * (h \div HoursPerDay) \in Nat
  BY <1>1, <1>2
<1>6. QED
  BY <1>2, <1>3, <1>4, <1>5 DEF Day, Trunc

\* Multiples of the length of a day.
LEMMA Multiples ==
  ASSUME NEW a \in Nat, NEW b \in Nat
  PROVE  /\ HoursPerDay * a \in Nat
         /\ a < b => HoursPerDay * a + HoursPerDay <= HoursPerDay * b
<1>1. HoursPerDay \in Nat /\ HoursPerDay > 0
  BY HoursAssumption
<1>2. HoursPerDay * a \in Nat /\ HoursPerDay * b \in Nat
  BY <1>1
<1>3. ASSUME a < b PROVE HoursPerDay * a + HoursPerDay <= HoursPerDay * b
  <2>1. b - a - 1 \in Nat
    BY <1>3
  <2>2. HoursPerDay * (b - a - 1) \in Nat
    BY <1>1, <2>1
  <2>3. HoursPerDay * b = HoursPerDay * a + HoursPerDay + HoursPerDay * (b - a - 1)
    BY <1>1, <2>1
  <2>4. QED
    BY <1>1, <1>2, <2>2, <2>3
<1>4. QED
  BY <1>2, <1>3

\* The order of days is that of their hours.
LEMMA DayOrder ==
  ASSUME NEW a \in Nat, NEW b \in Nat
  PROVE  /\ a <= b => Day(a) <= Day(b)
         /\ Day(a) < Day(b) => a < b /\ Trunc(a) + HoursPerDay <= Trunc(b) /\ a < Trunc(b)
         /\ a < Trunc(b) => Day(a) < Day(b)
         /\ a + HoursPerDay <= b => Day(a) < Day(b)
<1>1. HoursPerDay \in Nat /\ HoursPerDay > 0
  BY HoursAssumption
<1>2. /\ Day(a) \in Nat /\ Trunc(a) \in Nat /\ Trunc(a) <= a /\ a < Trunc(a) + HoursPerDay
      /\ Day(b) \in Nat /\ Trunc(b) \in Nat /\ Trunc(b) <= b /\ b < Trunc(b) + HoursPerDay
  BY DayIs
<1>3. Day(a) < Day(b) => Trunc(a) + HoursPerDay <= Trunc(b)
  BY <1>2, Multiples DEF Trunc
<1>4. Day(b) < Day(a) => Trunc(b) + HoursPerDay <= Trunc(a)
  BY <1>2, Multiples DEF Trunc
<1>5. Day(a) = Day(b) => Trunc(a) = Trunc(b)
  BY DEF Trunc
<1>6. QED
  BY <1>1, <1>2, <1>3, <1>4, <1>5

\* The first hour of a day, and of the day behind it.
LEMMA TruncIs ==
  ASSUME NEW a \in Nat
  PROVE  /\ Day(Trunc(a)) = Day(a) /\ Trunc(Trunc(a)) = Trunc(a)
         /\ Day(a + HoursPerDay) = Day(a) + 1 /\ Trunc(a + HoursPerDay) = Trunc(a) + HoursPerDay
<1>1. HoursPerDay \in Nat /\ HoursPerDay > 0
  BY HoursAssumption
<1> DEFINE b == a + HoursPerDay
           c == Trunc(a)
<1>2. /\ b \in Nat /\ c \in Nat /\ c <= a /\ a < c + HoursPerDay
      /\ Day(a) \in Nat /\ Day(b) \in Nat /\ Day(c) \in Nat
  BY <1>1, DayIs
<1>3. Day(c) <= Day(a) /\ ~(Day(c) < Day(a))
  <2>1. Day(c) <= Day(a)
    BY <1>2, DayOrder
  <2>2. Day(c) < Day(a) => c < Trunc(a)
    BY <1>2, DayOrder
  <2>3. QED
    BY <1>2, <2>1, <2>2
<1>4. Day(c) = Day(a)
  BY <1>2, <1>3
<1>5. Trunc(b) = Trunc(a) + HoursPerDay /\ Day(b) = Day(a) + 1
  <2>1. Trunc(b) \in Nat /\ Trunc(b) <= b /\ b < Trunc(b) + HoursPerDay
    BY <1>2, DayIs
  <2>2. HoursPerDay * (Day(a) + 1) = Trunc(a) + HoursPerDay
    BY <1>1, <1>2 DEF Trunc
  <2>3. Day(a) + 1 < Day(b) => HoursPerDay * (Day(a) + 1) + HoursPerDay <= HoursPerDay * Day(b)
    BY <1>2, Multiples
  <2>4. ~(Day(a) + 1 < Day(b))
    BY <1>1, <1>2, <2>1, <2>2, <2>3 DEF Trunc
  <2>5. Day(a) < Day(b)
    BY <1>2, DayOrder
  <2>6. Day(b) = Day(a) + 1
    BY <1>2, <2>4, <2>5
  <2>7. QED
    BY <2>2, <2>6 DEF Trunc
<1>6. QED
  BY <1>4, <1>5 DEF Trunc

\* A table that is not empty has a newest bucket.
LEMMA NewestIs ==
  ASSUME NEW S \in SUBSET Hours, S # {}
  PROVE  /\ IsMax(CHOOSE m \in S : IsMax(m, S), S)
         /\ \A k : After(S, k) = (CHOOSE m \in S : IsMax(m, S)) + k
<1> DEFINE T == {MaxHour - h : h \in S}
<1>0. MaxHour \in Nat /\ \A h \in S : h \in Nat /\ h <= MaxHour
  BY HoursAssumption DEF Hours
<1>1. T \subseteq Nat /\ T # {}
  BY <1>0
<1>2. IsWellFoundedOn(OpToRel(<, Nat), Nat)
  BY NatLessThanWellFounded
<1>3. PICK x \in T : \A y \in T : ~(<<y, x>> \in OpToRel(<, Nat))
  BY <1>1, <1>2, WFMin
<1>4. ASSUME NEW y \in T PROVE x <= y
  <2> HIDE DEF T
  <2>1. x \in Nat /\ y \in Nat
    BY <1>1
  <2>2. y < x => <<y, x>> \in OpToRel(<, Nat)
    BY <2>1 DEF OpToRel
  <2>3. ~(y < x)
    BY <1>3, <2>2, Zenon
  <2>4. QED
    BY <2>1, <2>3
<1>5. PICK m \in S : x = MaxHour - m
  OBVIOUS
<1>6. \A h \in S : h <= m
  <2> TAKE h \in S
  <2>1. x <= MaxHour - h
    BY <1>4
  <2>2. QED
    BY <1>0, <1>5, <2>1
<1>7. IsMax(m, S)
  BY <1>5, <1>6 DEF IsMax
<1>8. QED
  BY <1>7 DEF After

-----------------------------------------------------------------------------
(* The invariant.                                                          *)

\* The hours in or before the newest day of the daily table.
Done(h) == \E g \in Hours : daily[g] > 0 /\ Day(h) <= Day(g)

\* What holds whatever jobs run: what the tables hold was inserted; buckets are
\* over when they are written; and the days that the job has yet to do, from t
\* on, have no row, so that it only adds rows.
TablesInv ==
    /\ TypeOK
    /\ polling # NoHour => polling <= clock /\ total[polling] < MaxPerHour
    /\ \A h \in Hours : raw[h] <= total[h] /\ hourly[h] <= total[h] /\ due[h] <= total[h]
    /\ \A h \in Hours : due[h] > 0 => h <= clock
    /\ \A h \in Hours : hourly[h] > 0 => h < clock
    /\ \A h \in Hours : daily[h] > 0 => Day(h) < Day(clock)

JobInv ==
    /\ job.now <= clock
    /\ job.pc # "idle" =>
         /\ job.kind \in kinds
         /\ \A h \in Hours : hourly[h] > 0 => h < job.now
         /\ \A h \in Hours : daily[h] > 0 => Day(h) < Day(job.now)
    /\ job.pc = "daily" =>
         /\ job.t = Trunc(job.t)
         /\ \A h \in Hours : daily[h] > 0 => Day(h) < Day(job.t)

\* The hours whose hourly row must not be lost: those that PruneHourly keeps,
\* and those that no daily row has.
Kept(h) == h > clock - HourlyRetention \/ ~Done(h)

\* A row holds what was inserted in its hour.
Whole(h) == InHourly(h)

\* The daemon alone.  The newest day done and all before it are whole.  Of the
\* hours kept, one that has lost a sample has a whole row, and nothing is
\* missing below the newest hourly row...
DaemonTables ==
    /\ \A h \in Hours : raw[h] < total[h] => h < clock
    /\ \A h \in Hours : Done(h) => InDaily(h)
    /\ \A h \in Hours : Kept(h) /\ raw[h] < total[h] => Whole(h)
    /\ \A h \in Hours, g \in HourlyRows : Kept(h) /\ h <= g => Whole(h)

\* ... nor below the place its job has got to; and PruneHourly only takes rows
\* of days that are done.
DaemonJob ==
    /\ job.kind = "daemon" /\ job.since = 0
    /\ job.pc = "hourly" =>
         /\ \A h \in Hours : h < job.t /\ h < job.now /\ Kept(h) => Whole(h)
         /\ \A h \in HourlyRows : h < job.t
    /\ job.pc \in {"dailyBegin", "daily", "pruneRaw", "pruneHourly"} =>
         \A h \in Hours : h < job.now /\ Kept(h) => Whole(h)
    /\ job.pc = "daily" => \A g \in HourlyRows : Day(g) < Day(job.t) => Done(g)
    /\ job.pc \in {"pruneRaw", "pruneHourly"} =>
         /\ Retention > 0
         /\ \A g \in HourlyRows : Day(g) < Day(job.now) => Done(g)

DaemonInv == DaemonTables /\ DaemonJob

\* Backfill and prune alone: below the newest hourly row, and below the place
\* the job has got to, an hour without late samples has in its row whatever it
\* has.  PruneHourly runs when the samples older than its rows are gone.
Covered(h) == total[h] = due[h] => hourly[h] >= raw[h]
Late(h) == total[h] # due[h]

BackfillInv ==
    /\ job.since = 0 /\ (job.pc # "idle" => job.kind \in {"backfill", "prune"})
    /\ \A h \in Hours, g \in HourlyRows : h <= g => Covered(h)
    /\ job.pc = "hourly" => \A h \in Hours : h < job.t /\ h < job.now => Covered(h)
    /\ job.pc \in {"dailyBegin", "daily"} => \A h \in Hours : h < job.now => Covered(h)
    /\ job.pc = "pruneHourly" =>
         \A h \in Hours : raw[h] > 0 => h >= job.now - Retention \/ Late(h)

IInv ==
    /\ TablesInv /\ JobInv
    /\ HourlyRetention >= HoursPerDay /\ Only({"daemon"}) => DaemonInv
    /\ Retention < HourlyRetention /\ Only({"backfill", "prune"}) => BackfillInv

JobType ==
    [pc: {"idle", "hourlyBegin", "hourly", "dailyBegin", "daily", "pruneRaw", "pruneHourly"},
     kind: Kinds,
     now: Hours, since: Hours, t: 0..(MaxHour + HoursPerDay)]

\* Constants and variables as numbers.
LEMMA Numbers ==
  /\ HoursPerDay \in Nat /\ HoursPerDay > 0 /\ MaxHour \in Nat /\ MaxPerHour \in Nat
  /\ Retention \in Nat /\ HourlyRetention \in Nat /\ MaxAborts \in Nat /\ Window \in Nat
  /\ \A h \in Hours : h \in Nat /\ h <= MaxHour
  /\ TypeOK => /\ clock \in Nat /\ job.now \in Nat /\ job.since \in Nat /\ job.t \in Nat
               /\ job \in JobType
               /\ \A h \in Hours : /\ raw[h] \in Nat /\ hourly[h] \in Nat /\ daily[h] \in Nat
                                   /\ total[h] \in Nat /\ due[h] \in Nat
<1>1. /\ HoursPerDay \in Nat /\ HoursPerDay > 0 /\ MaxHour \in Nat /\ MaxPerHour \in Nat
      /\ Retention \in Nat /\ HourlyRetention \in Nat /\ MaxAborts \in Nat /\ Window \in Nat
  BY HoursAssumption
<1>2. \A h \in Hours : h \in Nat /\ h <= MaxHour
  BY <1>1 DEF Hours
<1>3. ASSUME TypeOK
      PROVE  /\ clock \in Nat /\ job.now \in Nat /\ job.since \in Nat /\ job.t \in Nat
             /\ job \in JobType
  BY <1>1, <1>2, <1>3 DEF TypeOK, JobType
<1>4. ASSUME TypeOK, NEW h \in Hours
      PROVE  /\ raw[h] \in Nat /\ hourly[h] \in Nat /\ daily[h] \in Nat /\ total[h] \in Nat
             /\ due[h] \in Nat
  BY <1>1, <1>4 DEF TypeOK
<1>5. QED
  BY <1>1, <1>2, <1>3, <1>4

\* A step of a job that moves it but writes no table.
LEMMA TablesKept ==
  ASSUME TablesInv, UNCHANGED <<clock, polling, tables, history>>,
         job' \in JobType, aborts' \in 0..MaxAborts, kinds' \in Uses
  PROVE  TablesInv'
BY DEF TablesInv, TypeOK, JobType, tables, history

\* Where the daily loop begins: behind the newest day, not before the oldest
\* hourly row.
LEMMA DailyStartIs ==
  ASSUME TablesInv, NEW m \in Hours, NEW t, t = Larger(DailyStart, Trunc(m))
  PROVE  /\ t \in 0..(MaxHour + HoursPerDay) /\ t = Trunc(t) /\ Day(m) <= Day(t)
         /\ \A h \in Hours : daily[h] > 0 => Day(h) < Day(t)
         /\ job.since = 0 => t = Trunc(m) \/ t = 0
                              \/ \E g \in Hours : daily[g] > 0 /\ Day(t) = Day(g) + 1
<1> DEFINE a == After(DailyRows, HoursPerDay)
           x == Larger(a, job.since)
<1>1. /\ HoursPerDay \in Nat /\ HoursPerDay > 0 /\ MaxHour \in Nat
      /\ job.since \in Nat /\ job.since <= MaxHour /\ m \in Nat /\ m <= MaxHour
      /\ \A h \in Hours : h \in Nat /\ h <= MaxHour
  <2>1. job.since \in Hours
    BY DEF TablesInv, TypeOK
  <2>2. QED
    BY <2>1, Numbers
<1>2. \A h \in Hours : Trunc(h) \in Hours /\ Trunc(h) <= h
  BY <1>1, DayIs DEF Hours
<1>3. DailyRows \in SUBSET Hours
  BY <1>2 DEF DailyRows
<1>4. /\ a \in Nat /\ a <= MaxHour + HoursPerDay
      /\ \A h \in Hours : daily[h] > 0 => Day(h) < Day(a)
      /\ a = 0 \/ \E g \in Hours : daily[g] > 0 /\ Day(a) = Day(g) + 1
  <2>1. CASE DailyRows = {}
    <3>1. a = 0
      BY <2>1 DEF After
    <3>2. \A h \in Hours : ~(daily[h] > 0)
      BY <2>1 DEF DailyRows
    <3>3. QED
      BY <1>1, <3>1, <3>2
  <2>2. CASE DailyRows # {}
    <3> DEFINE n == CHOOSE k \in DailyRows : IsMax(k, DailyRows)
    <3>1. IsMax(n, DailyRows) /\ a = n + HoursPerDay
      BY <1>3, <2>2, NewestIs
    <3> HIDE DEF n, a
    <3>2. n \in Hours /\ \A k \in DailyRows : k <= n
      BY <1>3, <3>1 DEF IsMax
    <3>3. PICK g \in Hours : daily[g] > 0 /\ n = Trunc(g)
      BY <3>1 DEF IsMax, DailyRows
    <3>4. Day(a) = Day(g) + 1
      BY <1>1, <3>1, <3>2, <3>3, TruncIs
    <3>5. ASSUME NEW h \in Hours, daily[h] > 0 PROVE Day(h) < Day(a)
      <4>1. Trunc(h) <= n
        BY <3>2, <3>5 DEF DailyRows
      <4>2. Trunc(h) \in Nat /\ a \in Nat /\ Trunc(h) + HoursPerDay <= a
        <5>1. Trunc(h) \in Hours
          BY <1>2
        <5> DEFINE c == Trunc(h)
        <5>2. c \in Nat /\ n \in Nat /\ c <= n
          BY <1>1, <3>2, <4>1, <5>1
        <5> HIDE DEF c
        <5>3. c \in Nat /\ a \in Nat /\ c + HoursPerDay <= a
          BY <1>1, <3>1, <5>2
        <5>4. QED
          BY <5>3 DEF c
      <4>3. Day(Trunc(h)) < Day(a)
        BY <4>2, DayOrder
      <4>4. QED
        BY <1>1, <4>3, TruncIs
    <3>6. QED
      BY <1>1, <3>1, <3>2, <3>3, <3>4, <3>5
  <2>3. QED
    BY <2>1, <2>2
<1> HIDE DEF a
<1>5. /\ x \in Nat /\ a <= x /\ x <= MaxHour + HoursPerDay /\ (job.since = 0 => x = a)
  BY <1>1, <1>4 DEF Larger
<1> HIDE DEF x
<1>6. DailyStart = Trunc(x)
  BY DEF DailyStart, x, a
<1>7. /\ Day(x) \in Nat /\ Day(a) \in Nat /\ Day(a) <= Day(x) /\ Day(m) \in Nat
      /\ Trunc(x) \in Nat /\ Trunc(x) <= x /\ Trunc(m) \in Nat /\ Trunc(m) <= m
      /\ Day(Trunc(x)) = Day(x) /\ Trunc(Trunc(x)) = Trunc(x)
      /\ Day(Trunc(m)) = Day(m) /\ Trunc(Trunc(m)) = Trunc(m)
      /\ \A h \in Hours : Day(h) \in Nat
  BY <1>1, <1>4, <1>5, DayIs, DayOrder, TruncIs
<1>8. t = Trunc(m) \/ t = Trunc(x)
  BY <1>6 DEF Larger
<1>9. Trunc(x) <= t /\ Trunc(m) <= t /\ t \in 0..(MaxHour + HoursPerDay) /\ t \in Nat
  BY <1>1, <1>5, <1>6, <1>7 DEF Larger
<1>10. Day(x) <= Day(t) /\ Day(m) <= Day(t) /\ Day(t) \in Nat
  BY <1>7, <1>9, DayOrder, DayIs
<1>11. t = Trunc(t)
  BY <1>7, <1>8
<1>12. \A h \in Hours : daily[h] > 0 => Day(h) < Day(t)
  BY <1>4, <1>7, <1>10
<1>13. ASSUME job.since = 0, t # Trunc(m), t # 0
       PROVE  \E g \in Hours : daily[g] > 0 /\ Day(t) = Day(g) + 1
  <2>1. x = a /\ t = Trunc(a) /\ Day(t) = Day(a)
    BY <1>5, <1>7, <1>8, <1>13
  <2>2. a # 0
    <3>1. Trunc(0) <= 0 /\ Trunc(0) \in Nat
      BY DayIs
    <3>2. QED
      BY <1>13, <2>1, <3>1
  <2>3. QED
    BY <1>4, <2>1, <2>2
<1>14. QED
  BY <1>9, <1>10, <1>11, <1>12, <1>13

\* The tables and the job, whatever jobs run.
LEMMA TablesNext == TablesInv /\ JobInv /\ [Next]_vars => TablesInv' /\ JobInv'
<1> SUFFICES ASSUME TablesInv, JobInv, [Next]_vars PROVE TablesInv' /\ JobInv'
  OBVIOUS
<1>1. /\ TypeOK /\ clock \in Nat /\ job.now \in Nat /\ job.since \in Nat /\ job.t \in Nat
      /\ job \in JobType /\ \A h \in Hours : h \in Nat /\ h <= MaxHour
      /\ \A h \in Hours : /\ raw[h] \in Nat /\ hourly[h] \in Nat /\ daily[h] \in Nat
                          /\ total[h] \in Nat /\ due[h] \in Nat
  BY Numbers DEF TablesInv
<1>2. /\ HoursPerDay \in Nat /\ HoursPerDay > 0 /\ MaxHour \in Nat /\ MaxPerHour \in Nat
      /\ MaxAborts \in Nat
  BY Numbers
<1>3. \A h \in Hours : Day(h) \in Nat /\ Trunc(h) \in Nat /\ Trunc(h) <= h /\ Day(Trunc(h)) = Day(h)
  BY <1>1, DayIs, TruncIs
<1>4. job.now \in Hours /\ job.since \in Hours /\ clock \in Hours
      /\ aborts \in 0..MaxAborts /\ kinds \in Uses
  BY <1>1 DEF TypeOK, JobType
<1>5. CASE Tick
  <2>1. clock' = clock + 1 /\ clock' \in Hours
        /\ UNCHANGED <<polling, tables, history, job, aborts, kinds>>
    BY <1>1, <1>2, <1>5 DEF Tick, Hours
  <2>2. Day(clock) <= Day(clock')
    BY <1>1, <2>1, DayOrder
  <2>3. Day(clock') \in Nat
    BY <1>3, <2>1
  <2>4. TypeOK'
    BY <2>1 DEF TablesInv, TypeOK, tables, history
  <2>5. TablesInv'
    BY <1>1, <1>3, <1>4, <2>1, <2>2, <2>3, <2>4, HoursAssumption DEF TablesInv, TypeOK, NoHour,
       tables, history
  <2>6. JobInv'
    BY <1>1, <2>1 DEF JobInv, tables, history
  <2>7. QED
    BY <2>5, <2>6
<1>6. CASE Poll
  <2>1. polling' = clock /\ total[clock] < MaxPerHour
        /\ UNCHANGED <<clock, tables, history, job, aborts, kinds>>
    BY <1>6 DEF Poll
  <2>2. TablesInv'
    BY <1>1, <1>4, <2>1 DEF TablesInv, TypeOK, tables, history
  <2>3. JobInv'
    BY <2>1 DEF JobInv, tables, history
  <2>4. QED
    BY <2>2, <2>3
<1>7. CASE InsertSample
  <2>1. PICK n \in 0..1, texts \in SUBSET ({polling} \cap TextHours) :
          /\ polling # NoHour /\ polling' = NoHour
          /\ raw' = [raw EXCEPT ![polling] = @ + n] /\ total' = [total EXCEPT ![polling] = @ + n]
          /\ due' = [due EXCEPT ![polling] = IF polling = clock THEN @ + n ELSE @]
          /\ text' = text \cup texts
          /\ UNCHANGED <<clock, hourly, daily, job, aborts, kinds>>
    BY <1>7 DEF InsertSample
  <2>2. /\ polling \in Hours /\ total[polling] < MaxPerHour /\ polling <= clock
        /\ n \in Nat /\ n <= 1
    BY <2>1 DEF TablesInv, TypeOK
  <2>3. \A h \in Hours : /\ raw'[h] = raw[h] + (IF h = polling THEN n ELSE 0)
                         /\ total'[h] = total[h] + (IF h = polling THEN n ELSE 0)
                         /\ due'[h] = due[h] + (IF h = polling /\ h = clock THEN n ELSE 0)
    BY <1>1, <1>2, <2>1, <2>2 DEF TypeOK
  <2>4. \A h \in Hours : /\ raw'[h] <= total'[h] /\ hourly'[h] <= total'[h]
                         /\ due'[h] <= total'[h] /\ total'[h] <= MaxPerHour
                         /\ due'[h] > 0 => h <= clock'
    <3> SUFFICES ASSUME NEW h \in Hours
                 PROVE  /\ raw'[h] <= total'[h] /\ hourly'[h] <= total'[h]
                        /\ due'[h] <= total'[h] /\ total'[h] <= MaxPerHour
                        /\ due'[h] > 0 => h <= clock'
      OBVIOUS
    <3>1. /\ raw[h] <= total[h] /\ hourly[h] <= total[h] /\ due[h] <= total[h]
          /\ total[h] <= MaxPerHour /\ (due[h] > 0 => h <= clock)
      BY <1>1, <1>2 DEF TablesInv, TypeOK
    <3>2. CASE h # polling
      BY <1>1, <1>2, <2>1, <2>3, <3>1, <3>2
    <3>3. CASE h = polling
      <4>1. /\ raw'[h] = raw[h] + n /\ total'[h] = total[h] + n /\ total[h] < MaxPerHour
            /\ due'[h] = due[h] + n \/ due'[h] = due[h]
            /\ h <= clock'
        BY <1>1, <2>1, <2>2, <2>3, <3>3
      <4>2. hourly' = hourly
        BY <2>1
      <4>3. /\ raw[h] \in Nat /\ hourly[h] \in Nat /\ total[h] \in Nat /\ due[h] \in Nat
            /\ raw[h] <= total[h] /\ hourly[h] <= total[h] /\ due[h] <= total[h]
        BY <1>1, <3>1
      <4>4. raw'[h] <= total'[h] /\ due'[h] <= total'[h] /\ total'[h] <= MaxPerHour
        BY <1>2, <2>2, <4>1, <4>3
      <4>5. hourly'[h] <= total'[h]
        BY <2>2, <4>1, <4>2, <4>3
      <4>6. QED
        BY <4>1, <4>4, <4>5
    <3>4. QED
      BY <3>2, <3>3
  <2>5. /\ raw' \in [Hours -> 0..MaxPerHour] /\ total' \in [Hours -> 0..MaxPerHour]
        /\ due' \in [Hours -> 0..MaxPerHour]
    <3>1. raw' \in [Hours -> Nat] /\ total' \in [Hours -> Nat] /\ due' \in [Hours -> Nat]
      BY <1>1, <1>2, <2>1, <2>2 DEF TypeOK
    <3>2. \A h \in Hours : /\ raw'[h] \in 0..MaxPerHour /\ total'[h] \in 0..MaxPerHour
                           /\ due'[h] \in 0..MaxPerHour
      BY <1>1, <1>2, <2>3, <2>4, <3>1
    <3>3. QED
      BY <3>1, <3>2
  <2>6. text' \subseteq Hours
    BY <2>1, <2>2 DEF TablesInv, TypeOK
  <2>7. TablesInv'
    BY <2>1, <2>4, <2>5, <2>6 DEF TablesInv, TypeOK
  <2>8. JobInv'
    BY <2>1 DEF JobInv
  <2>9. QED
    BY <2>7, <2>8
<1>8. ASSUME NEW kind \in kinds, StartJob(kind) PROVE TablesInv' /\ JobInv'
  <2>1. UNCHANGED <<clock, polling, tables, history, aborts, kinds>>
    BY <1>8 DEF StartJob
  <2>2. Larger(clock - Window, 0) \in Hours
    BY <1>1, <1>4, Numbers DEF Larger, Hours
  <2>3. /\ job' \in JobType /\ job'.kind = kind /\ job'.now = clock
        /\ job'.pc \in {"pruneRaw", "hourlyBegin"}
    <3>1. kind \in Kinds /\ 0 \in Hours
      BY <1>2, <1>4, <1>8, UsesAssumption DEF Hours
    <3>2. QED
      BY <1>2, <1>4, <1>8, <2>2, <3>1 DEF StartJob, JobType
  <2>4. TablesInv'
    BY <1>4, <2>1, <2>3, TablesKept
  <2>5. JobInv'
    BY <1>1, <2>1, <2>3 DEF JobInv, TablesInv, tables, history
  <2>6. QED
    BY <2>4, <2>5
<1>9. ASSUME UNCHANGED <<clock, polling, tables, history>>, kinds' = kinds, aborts' \in 0..MaxAborts,
             job' \in JobType, job'.now = job.now, job.pc # "idle", job'.kind = job.kind,
             job'.pc # "daily"
      PROVE  TablesInv' /\ JobInv'
  BY <1>4, <1>9, TablesKept DEF JobInv, tables, history
<1>10. ASSUME UNCHANGED <<clock, polling, tables, history>>, kinds' = kinds, aborts' \in 0..MaxAborts,
             job' = NoJob
       PROVE  TablesInv' /\ JobInv'
  <2>1. NoJob \in JobType
    BY <1>2 DEF JobType, NoJob, Kinds, Hours
  <2>2. JobInv'
    BY <1>1, <1>10 DEF JobInv, NoJob
  <2>3. QED
    BY <1>4, <1>10, <2>1, <2>2, TablesKept
<1>11. CASE HourlyBegin
  <2>1. UNCHANGED <<clock, polling, tables, history, aborts, kinds>> /\ job.pc = "hourlyBegin"
    BY <1>11 DEF HourlyBegin
  <2>2. CASE RawHours = {} /\ Goto("dailyBegin")
    BY <1>1, <1>4, <1>9, <2>1, <2>2 DEF Goto, JobType
  <2>3. CASE \E m \in RawHours :
            /\ IsMin(m, RawHours)
            /\ job' = [job EXCEPT !.pc = "hourly", !.t = Larger(HourlyStart, m)]
    <3>1. PICK m \in RawHours : job' = [job EXCEPT !.pc = "hourly", !.t = Larger(HourlyStart, m)]
      BY <2>3
    <3>2. After(HourlyRows, 1) \in 0..(MaxHour + 1)
      <4>1. CASE HourlyRows = {}
        BY <1>2, <4>1 DEF After
      <4>2. CASE HourlyRows # {}
        <5> DEFINE n == CHOOSE k \in HourlyRows : IsMax(k, HourlyRows)
        <5>1. IsMax(n, HourlyRows) /\ After(HourlyRows, 1) = n + 1
          BY <4>2, NewestIs DEF HourlyRows
        <5> HIDE DEF n
        <5>2. n \in Hours
          BY <5>1 DEF IsMax, HourlyRows
        <5>3. QED
          BY <1>1, <1>2, <5>1, <5>2
      <4>3. QED
        BY <4>1, <4>2
    <3>3. m \in Nat /\ m <= MaxHour /\ job.since <= MaxHour
      BY <1>1, <1>4 DEF RawHours, TypeOK
    <3>4. Larger(HourlyStart, m) \in 0..(MaxHour + HoursPerDay)
      BY <1>1, <1>2, <3>2, <3>3 DEF Larger, HourlyStart
    <3>5. job' \in JobType /\ job'.now = job.now /\ job'.kind = job.kind /\ job'.pc = "hourly"
      BY <1>1, <3>1, <3>4 DEF JobType
    <3>6. QED
      BY <1>4, <1>9, <2>1, <3>5
  <2>4. QED
    BY <1>11, <2>2, <2>3 DEF HourlyBegin
<1>12. CASE HourlyStep
  <2>1. /\ job.pc = "hourly" /\ job.t < job.now
        /\ hourly' = [hourly EXCEPT ![job.t] = IF raw[job.t] > 0 THEN raw[job.t] ELSE @]
        /\ job' = [job EXCEPT !.t = @ + 1]
        /\ UNCHANGED <<clock, polling, raw, text, daily, history, aborts, kinds>>
    BY <1>12 DEF HourlyStep, HourlyEnd
  <2>2. job.t \in Hours /\ job.t + 1 \in 0..(MaxHour + HoursPerDay)
    BY <1>1, <1>2, <1>4, <2>1 DEF Hours
  <2>3. job' \in JobType /\ job'.now = job.now /\ job'.kind = job.kind /\ job'.pc = "hourly"
    BY <1>1, <2>1, <2>2 DEF JobType
  <2>4. /\ hourly' \in [Hours -> 0..MaxPerHour]
        /\ \A h \in Hours : hourly'[h] = hourly[h] \/ (h = job.t /\ hourly'[h] = raw[h])
    BY <1>1, <2>1, <2>2 DEF TypeOK
  <2>5. job.now <= clock
    BY DEF JobInv
  <2>6. TablesInv'
    <3>1. TypeOK'
      BY <1>1, <2>1, <2>3, <2>4 DEF TypeOK, JobType, history
    <3>2. \A h \in Hours : hourly'[h] <= total[h] /\ (hourly'[h] > 0 => h < clock)
      BY <1>1, <2>1, <2>2, <2>4, <2>5 DEF TablesInv
    <3>3. QED
      BY <2>1, <3>1, <3>2 DEF TablesInv, history
  <2>7. JobInv'
    BY <1>1, <2>1, <2>2, <2>3, <2>4 DEF JobInv
  <2>8. QED
    BY <2>6, <2>7
<1>13. CASE HourlyDone
  BY <1>1, <1>4, <1>9, <1>13 DEF HourlyDone, Goto, JobType
<1>14. CASE DailyBegin
  <2>1. UNCHANGED <<clock, polling, tables, history, aborts, kinds>> /\ job.pc = "dailyBegin"
    BY <1>14 DEF DailyBegin
  <2>2. ASSUME NEW t \in 0..(MaxHour + HoursPerDay), job' = [job EXCEPT !.pc = "daily", !.t = t],
               t = Trunc(t), \A h \in Hours : daily[h] > 0 => Day(h) < Day(t)
        PROVE  TablesInv' /\ JobInv'
    <3>1. /\ job' \in JobType /\ job'.now = job.now /\ job'.kind = job.kind /\ job'.pc = "daily"
          /\ job'.t = t
      BY <1>1, <2>2 DEF JobType
    <3>2. TablesInv'
      BY <1>4, <2>1, <3>1, TablesKept
    <3>3. JobInv'
      BY <2>1, <2>2, <3>1 DEF JobInv, tables, history
    <3>4. QED
      BY <3>2, <3>3
  <2>3. CASE HourlyRows = {} /\ job' = [job EXCEPT !.pc = "daily", !.t = Trunc(job.now)]
    <3>1. /\ Trunc(job.now) \in 0..(MaxHour + HoursPerDay)
          /\ Trunc(Trunc(job.now)) = Trunc(job.now) /\ Day(Trunc(job.now)) = Day(job.now)
      BY <1>1, <1>2, <1>3, <1>4, TruncIs
    <3>2. \A h \in Hours : daily[h] > 0 => Day(h) < Day(Trunc(job.now))
      BY <2>1, <3>1 DEF JobInv
    <3>3. QED
      BY <2>2, <2>3, <3>1, <3>2
  <2>4. CASE \E m \in HourlyRows :
            /\ IsMin(m, HourlyRows)
            /\ job' = [job EXCEPT !.pc = "daily", !.t = Larger(DailyStart, Trunc(m))]
    <3>1. PICK m \in HourlyRows : job' = [job EXCEPT !.pc = "daily", !.t = Larger(DailyStart, Trunc(m))]
      BY <2>4
    <3>2. m \in Hours
      BY DEF HourlyRows
    <3> DEFINE t == Larger(DailyStart, Trunc(m))
    <3>3. /\ t \in 0..(MaxHour + HoursPerDay) /\ t = Trunc(t)
          /\ \A h \in Hours : daily[h] > 0 => Day(h) < Day(t)
      BY <3>2, DailyStartIs
    <3>4. QED
      BY <2>2, <3>1, <3>3
  <2>5. QED
    BY <1>14, <2>3, <2>4 DEF DailyBegin
<1>15. CASE DailyStep
  <2>1. /\ job.pc = "daily" /\ job.t < Trunc(job.now)
        /\ daily' = [h \in Hours |->
                       IF Day(h) = Day(job.t) /\ (\E g \in HourlyRows : Day(g) = Day(h))
                       THEN hourly[h] ELSE daily[h]]
        /\ job' = [job EXCEPT !.t = @ + HoursPerDay]
        /\ UNCHANGED <<clock, polling, raw, text, hourly, history, aborts, kinds>>
    BY <1>15 DEF DailyStep, DailyEnd
  <2>2. /\ job.t = Trunc(job.t) /\ Day(job.t) < Day(job.now) /\ job.t < job.now
        /\ Day(job.now) <= Day(clock) /\ Day(job.t) \in Nat /\ Day(job.now) \in Nat
        /\ Day(clock) \in Nat
    BY <1>1, <2>1, DayIs, DayOrder DEF JobInv
  <2>3. /\ Day(job.t + HoursPerDay) = Day(job.t) + 1
        /\ Trunc(job.t + HoursPerDay) = job.t + HoursPerDay
    BY <1>1, <2>2, TruncIs
  <2>4. job.t + HoursPerDay \in 0..(MaxHour + HoursPerDay)
    BY <1>1, <1>2, <1>4, <2>2
  <2>5. /\ job' \in JobType /\ job'.now = job.now /\ job'.kind = job.kind /\ job'.pc = "daily"
        /\ job'.t = job.t + HoursPerDay
    BY <1>1, <2>1, <2>4 DEF JobType
  <2>6. \A h \in Hours : daily'[h] = daily[h] \/ (Day(h) = Day(job.t) /\ daily'[h] = hourly[h])
    BY <2>1
  <2>7. daily' \in [Hours -> 0..MaxPerHour]
    BY <1>1, <2>1 DEF TypeOK
  <2>8. \A h \in Hours : daily'[h] > 0 => Day(h) < Day(job.t) + 1 /\ Day(h) < Day(job.now)
    BY <1>3, <2>1, <2>2, <2>6 DEF JobInv
  <2>9. TablesInv'
    <3>1. TypeOK'
      BY <1>1, <2>1, <2>5, <2>7 DEF TypeOK, JobType, history
    <3>2. \A h \in Hours : daily'[h] > 0 => Day(h) < Day(clock)
      BY <1>3, <2>2, <2>8
    <3>3. QED
      BY <2>1, <3>1, <3>2 DEF TablesInv, history
  <2>10. JobInv'
    BY <2>1, <2>3, <2>5, <2>8 DEF JobInv
  <2>11. QED
    BY <2>9, <2>10
<1>16. CASE DailyDone
  BY <1>1, <1>4, <1>9, <1>10, <1>16 DEF DailyDone, JobType
<1>17. CASE PruneSamples
  <2>1. /\ \/ \E h \in RawHours, n \in 0..(MaxPerHour - 1) : n < raw[h] /\ raw' = [raw EXCEPT ![h] = n]
           \/ raw' = raw
        /\ text' \subseteq text
    BY <1>17 DEF PruneSamples
  <2>2. UNCHANGED <<clock, polling, hourly, daily, total, due, job, aborts, kinds>>
    BY <1>17 DEF PruneSamples, history
  <2>3. raw' \in [Hours -> 0..MaxPerHour] /\ \A k \in Hours : raw'[k] <= raw[k]
    <3>1. CASE raw' = raw
      BY <1>1, <3>1 DEF TypeOK
    <3>2. CASE raw' # raw
      <4>1. PICK h \in RawHours, n \in 0..(MaxPerHour - 1) : n < raw[h] /\ raw' = [raw EXCEPT ![h] = n]
        BY <2>1, <3>2
      <4>2. h \in Hours /\ n \in 0..MaxPerHour
        BY <1>1, <1>2 DEF RawHours, TypeOK
      <4>3. QED
        BY <1>1, <4>1, <4>2 DEF TypeOK
    <3>3. QED
      BY <3>1, <3>2
  <2>4. \A k \in Hours : raw'[k] <= total[k]
    <3> TAKE k \in Hours
    <3>1. raw'[k] \in Nat /\ raw[k] \in Nat /\ total[k] \in Nat /\ raw[k] <= total[k]
      BY <1>1, <1>2, <2>3 DEF TablesInv
    <3>2. QED
      BY <2>3, <3>1
  <2>5. TypeOK'
    BY <1>1, <2>1, <2>2, <2>3 DEF TypeOK
  <2>6. TablesInv' /\ JobInv'
    BY <2>2, <2>4, <2>5 DEF TablesInv, JobInv
  <2>7. QED
    BY <2>6
<1>18. CASE PruneSamplesDone
  <2>1. aborts' \in 0..MaxAborts
    BY <1>2, <1>4, <1>18 DEF PruneSamplesDone
  <2>2. QED
    BY <1>1, <1>9, <1>18, <2>1 DEF PruneSamplesDone, Goto, JobType
<1>19. CASE PruneHourly
  <2>1. PICK m \in HourlyRows : hourly' = [hourly EXCEPT ![m] = 0]
    BY <1>19 DEF PruneHourly
  <2>2. UNCHANGED <<clock, polling, raw, text, daily, history, job, aborts, kinds>>
    BY <1>19 DEF PruneHourly
  <2>3. m \in Hours
    BY DEF HourlyRows
  <2>4. hourly' \in [Hours -> 0..MaxPerHour] /\ \A k \in Hours : hourly'[k] = hourly[k] \/ hourly'[k] = 0
    BY <1>1, <1>2, <2>1, <2>3 DEF TypeOK
  <2>5. TablesInv' /\ JobInv'
    BY <1>1, <2>2, <2>4 DEF TablesInv, TypeOK, JobInv, history
  <2>6. QED
    BY <2>5
<1>20. CASE PruneHourlyDone
  BY <1>4, <1>10, <1>20 DEF PruneHourlyDone
<1>21. CASE Abort
  BY <1>2, <1>4, <1>10, <1>21 DEF Abort
<1>22. CASE UNCHANGED vars
  BY <1>22 DEF vars, tables, history, TablesInv, TypeOK, JobInv, HourlyRows
<1>23. QED
  BY <1>5, <1>6, <1>7, <1>8, <1>11, <1>12, <1>13, <1>14, <1>15, <1>16, <1>17, <1>18, <1>19, <1>20,
     <1>21, <1>22 DEF Next, JobStep

\* The kinds of jobs stay those of the start.
LEMMA KindsStay == ASSUME [Next]_vars, NEW S, Only(S)' PROVE Only(S)
<1>1. kinds' = kinds
  BY DEF Next, vars, Tick, Poll, InsertSample, StartJob, JobStep, HourlyBegin, HourlyStep,
     HourlyDone, DailyBegin, DailyStep, DailyDone, PruneSamples, PruneSamplesDone, PruneHourly,
     PruneHourlyDone, Abort
<1>2. QED
  BY <1>1 DEF Only

\* An hour that is over and has no samples left is whole, kept as it is.
LEMMA GoneIsWhole ==
  ASSUME TypeOK, TablesInv, DaemonTables, NEW h \in Hours, raw[h] = 0, Kept(h)
  PROVE  Whole(h)
<1>1. raw[h] \in Nat /\ hourly[h] \in Nat /\ total[h] \in Nat /\ due[h] \in Nat
  BY Numbers
<1>2. due[h] <= total[h]
  BY DEF TablesInv
<1>3. CASE raw[h] < total[h]
  BY <1>3 DEF DaemonTables
<1>4. CASE total[h] = 0
  BY <1>1, <1>2, <1>4 DEF Whole, InHourly
<1>5. QED
  BY <1>1, <1>3, <1>4

\* The daemon alone.
LEMMA DaemonNext ==
  ASSUME TablesInv, JobInv, JobInv', DaemonInv, [Next]_vars, Only({"daemon"})',
         HourlyRetention >= HoursPerDay
  PROVE  DaemonInv'
<1>1. /\ TypeOK /\ clock \in Nat /\ job.now \in Nat /\ job.since \in Nat /\ job.t \in Nat
      /\ job \in JobType /\ \A h \in Hours : h \in Nat
      /\ \A h \in Hours : /\ raw[h] \in Nat /\ hourly[h] \in Nat /\ daily[h] \in Nat
                          /\ total[h] \in Nat /\ due[h] \in Nat
  BY Numbers DEF TablesInv
<1>2. HoursPerDay \in Nat /\ HoursPerDay > 0 /\ Retention \in Nat /\ HourlyRetention \in Nat
  BY Numbers
<1>3. \A h \in Hours : Day(h) \in Nat
  BY <1>1, DayIs
<1>4. /\ job.now <= clock /\ \A h \in HourlyRows : h \in Hours /\ h < clock
      /\ \A h \in Hours : daily[h] > 0 => Day(h) < Day(clock)
  BY DEF TablesInv, JobInv, HourlyRows
<1>5. /\ Day(clock) \in Nat /\ Day(job.now) \in Nat /\ Day(job.t) \in Nat
  BY <1>1, DayIs
<1>6. /\ \A h \in Hours : ~(clock <= h /\ Done(h))
  <2> SUFFICES ASSUME NEW h \in Hours, clock <= h, Done(h) PROVE FALSE
    OBVIOUS
  <2>1. PICK g \in Hours : daily[g] > 0 /\ Day(h) <= Day(g)
    BY DEF Done
  <2>2. Day(clock) <= Day(h)
    BY <1>1, DayOrder
  <2>3. QED
    BY <1>3, <1>4, <1>5, <2>1, <2>2
<1>7. CASE Tick
  <2>1. clock' = clock + 1 /\ UNCHANGED <<tables, history, job>>
    BY <1>7 DEF Tick
  <2>2. \A h \in Hours : (Kept(h)' => Kept(h)) /\ (Done(h)' <=> Done(h)) /\ (Whole(h)' <=> Whole(h))
    BY <1>1, <1>2, <2>1 DEF Kept, Done, Whole, InHourly, tables, history
  <2>3. HourlyRows' = HourlyRows
    BY <2>1 DEF HourlyRows, tables, history
  <2>4. DaemonTables'
    BY <1>1, <1>4, <2>1, <2>2, <2>3 DEF DaemonTables, DaemonInv, InDaily, tables, history
  <2>5. DaemonJob'
    BY <1>4, <2>1, <2>2, <2>3 DEF DaemonJob, DaemonInv, tables, history
  <2>6. QED
    BY <2>4, <2>5 DEF DaemonInv
<1>8. ASSUME UNCHANGED <<clock, tables, history, job>> PROVE DaemonInv'
  BY <1>8 DEF DaemonInv, DaemonTables, DaemonJob, Kept, Done, Whole, InHourly, InDaily,
     HourlyRows, tables,
     history
<1>9. CASE InsertSample
  <2>1. PICK n \in 0..1 :
          /\ polling # NoHour /\ UNCHANGED <<clock, hourly, daily, job>>
          /\ raw' = [raw EXCEPT ![polling] = @ + n] /\ total' = [total EXCEPT ![polling] = @ + n]
          /\ due' = [due EXCEPT ![polling] = IF polling = clock THEN @ + n ELSE @]
    BY <1>9 DEF InsertSample
  <2>2. polling \in Hours /\ polling <= clock /\ n \in Nat
    BY <1>1, <2>1 DEF TablesInv, TypeOK
  <2>3. \A h \in Hours : /\ raw'[h] = raw[h] + (IF h = polling THEN n ELSE 0)
                         /\ total'[h] = total[h] + (IF h = polling THEN n ELSE 0)
                         /\ h # clock => due'[h] = due[h]
    BY <1>1, <2>1, <2>2 DEF TypeOK
  <2>4. /\ \A h \in Hours : (Kept(h)' <=> Kept(h)) /\ (Done(h)' <=> Done(h))
        /\ \A h \in Hours : h # clock => (Whole(h)' <=> Whole(h)) /\ (InDaily(h)' <=> InDaily(h))
        /\ HourlyRows' = HourlyRows
    BY <2>1, <2>3 DEF Kept, Done, Whole, InHourly, InDaily, HourlyRows
  <2>5. DaemonTables'
    <3>1. \A h \in Hours : raw'[h] < total'[h] => h < clock /\ h # clock /\ raw[h] < total[h]
      <4> SUFFICES ASSUME NEW h \in Hours, raw'[h] < total'[h]
                   PROVE  h < clock /\ h # clock /\ raw[h] < total[h]
        OBVIOUS
      <4>1. raw[h] < total[h]
        BY <1>1, <2>2, <2>3
      <4>2. h < clock
        BY <4>1 DEF DaemonInv, DaemonTables
      <4>3. QED
        BY <1>1, <4>1, <4>2
    <3>2. \A h \in Hours : Done(h) => InDaily(h) /\ h # clock
      BY <1>1, <1>6 DEF DaemonInv, DaemonTables
    <3>3. \A h \in Hours, g \in HourlyRows : Kept(h) /\ h <= g => Whole(h) /\ h # clock
      <4> SUFFICES ASSUME NEW h \in Hours, NEW g \in HourlyRows, Kept(h), h <= g
                   PROVE  Whole(h) /\ h # clock
        OBVIOUS
      <4>1. g \in Nat /\ g < clock
        BY <1>1, <1>4
      <4>2. h # clock
        BY <1>1, <4>1
      <4>3. QED
        BY <4>2 DEF DaemonInv, DaemonTables
    <3>4. QED
      BY <2>1, <2>4, <3>1, <3>2, <3>3 DEF DaemonInv, DaemonTables
  <2>6. DaemonJob'
    <3>1. \A h \in Hours : h < job.now => h # clock
      BY <1>1, <1>4
    <3>2. QED
      BY <1>4, <2>1, <2>4, <3>1 DEF DaemonJob, DaemonInv
  <2>7. QED
    BY <2>5, <2>6 DEF DaemonInv
<1>10. ASSUME UNCHANGED <<clock, tables, history>>, DaemonJob' PROVE DaemonInv'
  BY <1>10 DEF DaemonInv, DaemonTables, Kept, Done, Whole, InHourly, InDaily, HourlyRows, tables,
     history
<1>11. ASSUME UNCHANGED <<clock, tables, history>>
       PROVE  /\ \A h \in Hours : (Kept(h)' <=> Kept(h)) /\ (Done(h)' <=> Done(h)) /\ (Whole(h)' <=> Whole(h))
              /\ HourlyRows' = HourlyRows /\ RawHours' = RawHours
  BY <1>11 DEF Kept, Done, Whole, InHourly, HourlyRows, RawHours, tables, history
<1>12. ASSUME UNCHANGED <<clock, tables, history>>, job' = NoJob PROVE DaemonInv'
  <2>1. DaemonJob'
    BY <1>12 DEF DaemonJob, NoJob
  <2>2. QED
    BY <1>10, <1>12, <2>1
<1>13. CASE \E kind \in kinds : StartJob(kind)
  <2>1. PICK kind \in kinds : StartJob(kind)
    BY <1>13
  <2>2. kind = "daemon"
    BY <2>1 DEF StartJob, Only
  <2>3. UNCHANGED <<clock, tables, history>> /\ job'.kind = "daemon" /\ job'.since = 0 /\ job'.pc = "hourlyBegin"
    BY <2>1, <2>2 DEF StartJob
  <2>4. DaemonJob'
    BY <2>3 DEF DaemonJob
  <2>5. QED
    BY <1>10, <2>3, <2>4
<1>14. CASE HourlyBegin
  <2>1. UNCHANGED <<clock, tables, history>> /\ job.kind = "daemon" /\ job.since = 0
    BY <1>14 DEF HourlyBegin, DaemonInv, DaemonJob
  <2>2. CASE RawHours = {} /\ Goto("dailyBegin")
    <3>1. \A h \in Hours : raw[h] = 0
      BY <1>1, <2>2 DEF RawHours
    <3>2. \A h \in Hours : Kept(h) => Whole(h)
      BY <1>1, <3>1, GoneIsWhole DEF DaemonInv
    <3>3. job'.pc = "dailyBegin" /\ job'.kind = job.kind /\ job'.since = job.since
      BY <1>1, <2>2 DEF Goto, JobType
    <3>4. DaemonJob'
      BY <1>11, <2>1, <3>2, <3>3 DEF DaemonJob
    <3>5. QED
      BY <1>10, <2>1, <3>4
  <2>3. CASE \E m \in RawHours :
            /\ IsMin(m, RawHours)
            /\ job' = [job EXCEPT !.pc = "hourly", !.t = Larger(HourlyStart, m)]
    <3>1. PICK m \in RawHours : IsMin(m, RawHours)
                                /\ job' = [job EXCEPT !.pc = "hourly", !.t = Larger(HourlyStart, m)]
      BY <2>3
    <3> DEFINE a == After(HourlyRows, 1)
    <3>2. /\ a \in Nat /\ \A h \in HourlyRows : h < a
          /\ \A h \in Hours : h < a => \E g \in HourlyRows : h <= g
      <4>1. CASE HourlyRows = {}
        BY <1>1, <4>1 DEF After
      <4>2. CASE HourlyRows # {}
        <5> DEFINE n == CHOOSE k \in HourlyRows : IsMax(k, HourlyRows)
        <5>1. IsMax(n, HourlyRows) /\ a = n + 1
          BY <4>2, NewestIs DEF HourlyRows
        <5> HIDE DEF n, a
        <5>2. n \in HourlyRows /\ n \in Nat /\ \A h \in HourlyRows : h \in Nat /\ h <= n
          BY <1>1, <1>4, <5>1 DEF IsMax
        <5>3. QED
          BY <1>1, <5>1, <5>2
      <4>3. QED
        BY <4>1, <4>2
    <3> HIDE DEF a
    <3>3. HourlyStart = a
      BY <2>1, <3>2 DEF HourlyStart, Larger, a
    <3> DEFINE t == Larger(a, m)
    <3>4. m \in Nat /\ (t = a \/ t = m) /\ a <= t
      BY <1>1, <3>2 DEF Larger, RawHours, TypeOK
    <3>5. /\ job'.pc = "hourly" /\ job'.kind = job.kind /\ job'.since = job.since /\ job'.t = t
      BY <1>1, <3>1, <3>3 DEF JobType
    <3> HIDE DEF t
    <3>6. \A h \in Hours : h < t /\ Kept(h) => Whole(h)
      <4> SUFFICES ASSUME NEW h \in Hours, h < t, Kept(h) PROVE Whole(h)
        OBVIOUS
      <4>1. CASE t = a
        BY <3>2, <4>1 DEF DaemonInv, DaemonTables
      <4>2. CASE t = m
        <5>1. h \notin RawHours
          BY <1>1, <3>1, <3>4, <4>2 DEF IsMin
        <5>2. raw[h] = 0
          BY <1>1, <5>1 DEF RawHours
        <5>3. QED
          BY <1>1, <5>2, GoneIsWhole DEF DaemonInv
      <4>3. QED
        BY <3>4, <4>1, <4>2
    <3>7. \A h \in HourlyRows : h < t
      <4> SUFFICES ASSUME NEW h \in HourlyRows PROVE h < t
        OBVIOUS
      <4>1. h \in Nat /\ t \in Nat /\ a \in Nat /\ h < a /\ a <= t
        BY <1>1, <1>4, <3>2, <3>4
      <4>2. QED
        BY <4>1
    <3>8. DaemonJob'
      BY <1>11, <2>1, <3>5, <3>6, <3>7 DEF DaemonJob
    <3>9. QED
      BY <1>10, <2>1, <3>8
  <2>4. QED
    BY <1>14, <2>2, <2>3 DEF HourlyBegin
<1>15. CASE HourlyStep
  <2>1. /\ job.pc = "hourly" /\ job.t < job.now
        /\ hourly' = [hourly EXCEPT ![job.t] = IF raw[job.t] > 0 THEN raw[job.t] ELSE @]
        /\ job' = [job EXCEPT !.t = @ + 1]
        /\ UNCHANGED <<clock, raw, text, daily, history>>
    BY <1>15 DEF HourlyStep, HourlyEnd
  <2>0. job.t \in Hours
    <3>1. job.now \in Hours
      BY <1>1 DEF TypeOK
    <3>2. job.now <= MaxHour /\ MaxHour \in Nat
      BY <3>1, Numbers
    <3>3. QED
      BY <1>1, <2>1, <3>2 DEF Hours
  <2>2. PICK t \in Hours : t = job.t
    BY <2>0
  <2>3. /\ job'.pc = "hourly" /\ job'.kind = job.kind /\ job'.since = job.since
        /\ job'.t = t + 1 /\ job'.now = job.now
    BY <1>1, <2>1, <2>2 DEF JobType
  <2>4. /\ \A h \in Hours : h < t /\ h < job.now /\ Kept(h) => Whole(h)
        /\ \A h \in HourlyRows : h < t
    BY <2>1, <2>2 DEF DaemonInv, DaemonJob
  <2>5. hourly[t] = 0
    <3>1. t \notin HourlyRows
      BY <1>1, <2>2, <2>4
    <3>2. QED
      BY <1>1, <2>2, <3>1 DEF HourlyRows
  <2>6. hourly'[t] = raw[t] /\ \A h \in Hours : h # t => hourly'[h] = hourly[h]
    <3>1. raw[t] > 0 \/ raw[t] = 0
      BY <1>1, <2>2
    <3>2. QED
      BY <1>1, <2>1, <2>2, <2>5, <3>1 DEF TypeOK
  <2>7. \A h \in Hours : (Kept(h)' <=> Kept(h)) /\ (Done(h)' <=> Done(h)) /\ (h # t /\ Whole(h) => Whole(h)')
    BY <2>1, <2>6 DEF Kept, Done, Whole, InHourly, history
  <2>8. Kept(t) => Whole(t)'
    <3>1. raw[t] <= total[t] /\ due[t] <= total[t] /\ due' = due
      BY <2>1, <2>2 DEF TablesInv, history
    <3>2. CASE raw[t] = total[t]
      BY <2>6, <3>1, <3>2 DEF Whole, InHourly
    <3>3. ASSUME raw[t] < total[t], Kept(t) PROVE Whole(t)'
      <4>1. hourly[t] >= due[t]
        BY <2>2, <3>3 DEF DaemonInv, DaemonTables, Whole, InHourly
      <4>2. hourly'[t] >= due[t]
        BY <1>1, <2>2, <2>5, <2>6, <4>1
      <4>3. QED
        BY <3>1, <4>2 DEF Whole, InHourly
    <3>4. QED
      BY <1>1, <2>2, <3>1, <3>2, <3>3
  <2>9. \A h \in Hours : h < t + 1 /\ Kept(h) => Whole(h)'
    <3> SUFFICES ASSUME NEW h \in Hours, h < t + 1, Kept(h) PROVE Whole(h)'
      OBVIOUS
    <3>1. CASE h = t
      BY <2>8, <3>1
    <3>2. CASE h # t
      <4>1. h < t /\ h < job.now
        BY <1>1, <2>1, <2>2, <3>2
      <4>2. QED
        BY <2>4, <2>7, <3>2, <4>1
    <3>3. QED
      BY <3>1, <3>2
  <2>10. \A g \in HourlyRows' : g \in Hours /\ g < t + 1
    <3> SUFFICES ASSUME NEW g \in HourlyRows' PROVE g \in Hours /\ g < t + 1
      OBVIOUS
    <3>1. g \in Hours /\ hourly'[g] > 0
      BY DEF HourlyRows
    <3>2. CASE g = t
      BY <1>1, <2>2, <3>1, <3>2
    <3>3. CASE g # t
      <4>1. g \in HourlyRows
        BY <2>6, <3>1, <3>3 DEF HourlyRows
      <4>2. g < t
        BY <2>4, <4>1
      <4>3. QED
        BY <1>1, <2>2, <3>1, <4>2
    <3>4. QED
      BY <3>2, <3>3
  <2>11. DaemonTables'
    <3>1. \A h \in Hours : Kept(h)' /\ raw'[h] < total'[h] => Whole(h)'
      BY <2>1, <2>7, <2>8 DEF DaemonInv, DaemonTables, history
    <3>2. \A h \in Hours, g \in HourlyRows' : Kept(h)' /\ h <= g => Whole(h)'
      <4> SUFFICES ASSUME NEW h \in Hours, NEW g \in HourlyRows', Kept(h)', h <= g PROVE Whole(h)'
        OBVIOUS
      <4>1. g \in Nat /\ h \in Nat /\ t \in Nat /\ g < t + 1
        BY <1>1, <2>2, <2>10
      <4>2. h < t + 1
        BY <4>1
      <4>3. QED
        BY <2>7, <2>9, <4>2
    <3>3. QED
      BY <2>1, <2>7, <3>1, <3>2 DEF DaemonInv, DaemonTables, InDaily, history
  <2>12. DaemonJob'
    BY <2>3, <2>7, <2>9, <2>10 DEF DaemonInv, DaemonJob
  <2>13. QED
    BY <2>11, <2>12 DEF DaemonInv
<1>16. CASE HourlyDone
  <2>1. /\ job.pc = "hourly" /\ job.t >= job.now /\ Goto("dailyBegin")
        /\ UNCHANGED <<clock, tables, history>>
    BY <1>16 DEF HourlyDone, HourlyEnd
  <2>2. /\ job'.pc = "dailyBegin" /\ job'.kind = job.kind /\ job'.since = job.since
        /\ job'.now = job.now
    BY <1>1, <2>1 DEF Goto, JobType
  <2>3. \A h \in Hours : h < job.now /\ Kept(h) => Whole(h)
    <3>1. \A h \in Hours : h < job.now => h < job.t
      BY <1>1, <2>1
    <3>2. QED
      BY <2>1, <3>1 DEF DaemonInv, DaemonJob
  <2>4. DaemonJob'
    BY <1>11, <2>1, <2>2, <2>3 DEF DaemonInv, DaemonJob
  <2>5. QED
    BY <1>10, <2>1, <2>4
<1>17. CASE DailyBegin
  <2>1. UNCHANGED <<clock, tables, history>> /\ job.pc = "dailyBegin" /\ job.kind = "daemon" /\ job.since = 0
    BY <1>17 DEF DailyBegin, DaemonInv, DaemonJob
  <2>2. ASSUME NEW t, job' = [job EXCEPT !.pc = "daily", !.t = t],
               \A g \in HourlyRows : Day(g) < Day(t) => Done(g)
        PROVE  DaemonInv'
    <3>1. /\ job'.pc = "daily" /\ job'.kind = job.kind /\ job'.since = job.since
          /\ job'.now = job.now /\ job'.t = t
      BY <1>1, <2>2 DEF JobType
    <3>2. DaemonJob'
      BY <1>4, <1>11, <2>1, <2>2, <3>1 DEF DaemonInv, DaemonJob
    <3>3. QED
      BY <1>10, <2>1, <3>2
  <2>3. CASE HourlyRows = {} /\ job' = [job EXCEPT !.pc = "daily", !.t = Trunc(job.now)]
    BY <2>2, <2>3
  <2>4. CASE \E m \in HourlyRows :
            /\ IsMin(m, HourlyRows)
            /\ job' = [job EXCEPT !.pc = "daily", !.t = Larger(DailyStart, Trunc(m))]
    <3>1. PICK m \in HourlyRows : IsMin(m, HourlyRows)
                          /\ job' = [job EXCEPT !.pc = "daily", !.t = Larger(DailyStart, Trunc(m))]
      BY <2>4
    <3>2. m \in Hours
      BY <1>4
    <3> DEFINE t == Larger(DailyStart, Trunc(m))
    <3>3. /\ t \in Nat
          /\ t = Trunc(m) \/ t = 0 \/ \E g \in Hours : daily[g] > 0 /\ Day(t) = Day(g) + 1
      <4>1. t \in 0..(MaxHour + HoursPerDay)
        BY <3>2, DailyStartIs
      <4>2. QED
        BY <2>1, <3>2, <4>1, DailyStartIs, Numbers
    <3> HIDE DEF t
    <3>4. ASSUME NEW g \in HourlyRows, Day(g) < Day(t) PROVE Done(g)
      <4>1. g \in Hours /\ g \in Nat /\ m \in Nat /\ m <= g
        BY <1>1, <1>4, <3>1, <3>2 DEF IsMin
      <4>2. Day(m) <= Day(g) /\ Day(0) <= Day(g) /\ Day(Trunc(m)) = Day(m)
            /\ Day(m) \in Nat /\ Day(g) \in Nat /\ Day(0) \in Nat /\ Day(t) \in Nat
        BY <3>3, <4>1, DayOrder, TruncIs, DayIs
      <4>3. t # Trunc(m) /\ t # 0
        BY <3>4, <4>2
      <4>4. PICK k \in Hours : daily[k] > 0 /\ Day(t) = Day(k) + 1
        BY <3>3, <4>3
      <4>5. Day(g) <= Day(k)
        BY <1>3, <3>4, <4>2, <4>4
      <4>6. QED
        BY <4>1, <4>4, <4>5 DEF Done
    <3>5. QED
      BY <2>2, <3>1, <3>4 DEF t
  <2>5. QED
    BY <1>17, <2>3, <2>4 DEF DailyBegin
<1>18. CASE DailyStep
  <2>1. /\ job.pc = "daily" /\ job.t < Trunc(job.now)
        /\ daily' = [h \in Hours |->
                       IF Day(h) = Day(job.t) /\ (\E g \in HourlyRows : Day(g) = Day(h))
                       THEN hourly[h] ELSE daily[h]]
        /\ job' = [job EXCEPT !.t = @ + HoursPerDay]
        /\ UNCHANGED <<clock, raw, text, hourly, history>>
    BY <1>18 DEF DailyStep, DailyEnd
  <2>2. PICK d \in Nat : d = Day(job.t)
    BY <1>5
  <2>3. /\ d < Day(job.now) /\ Day(job.t + HoursPerDay) = d + 1
        /\ \A h \in Hours : daily[h] > 0 => Day(h) < d
    BY <1>1, <2>1, <2>2, DayOrder, TruncIs DEF JobInv
  <2>4. /\ job'.pc = "daily" /\ job'.kind = job.kind /\ job'.since = job.since
        /\ job'.now = job.now /\ job'.t = job.t + HoursPerDay
    BY <1>1, <2>1 DEF JobType
  <2>5. /\ \A h \in Hours : h < job.now /\ Kept(h) => Whole(h)
        /\ \A g \in HourlyRows : Day(g) < d => Done(g)
    BY <2>1, <2>2 DEF DaemonInv, DaemonJob
  <2>6. \A h \in Hours : /\ Day(h) # d => daily'[h] = daily[h]
                         /\ Day(h) = d /\ (\E g \in HourlyRows : Day(g) = d) => daily'[h] = hourly[h]
                         /\ Day(h) = d /\ daily'[h] # hourly[h] => daily'[h] = daily[h]
                         /\ (\A g \in HourlyRows : Day(g) # d) => daily'[h] = daily[h]
    BY <2>1, <2>2
  <2>7. \A h \in Hours : Day(h) <= d => h < job.now
    <3> SUFFICES ASSUME NEW h \in Hours, Day(h) <= d PROVE h < job.now
      OBVIOUS
    <3>1. Day(h) < Day(job.now)
      BY <1>3, <1>5, <2>3
    <3>2. QED
      BY <1>1, <3>1, DayOrder
  <2>8. \A h \in Hours : Done(h) => Done(h)'
    BY <1>3, <2>3, <2>6 DEF Done
  <2>9. \A h \in Hours : Kept(h)' => Kept(h)
    BY <2>1, <2>8 DEF Kept
  <2>10. \A h \in Hours : Done(h)' => Done(h) \/ (Day(h) <= d /\ \E g \in HourlyRows : Day(g) = d)
    <3> SUFFICES ASSUME NEW h \in Hours, Done(h)', ~Done(h)
                 PROVE  Day(h) <= d /\ \E g \in HourlyRows : Day(g) = d
      OBVIOUS
    <3>1. PICK g \in Hours : daily'[g] > 0 /\ Day(h) <= Day(g)
      BY DEF Done
    <3>2. daily'[g] # daily[g]
      BY <3>1 DEF Done
    <3>3. QED
      BY <2>6, <3>1, <3>2
  <2>11. \A h \in Hours : Done(h)' => daily'[h] >= due[h]
    <3> SUFFICES ASSUME NEW h \in Hours, Done(h)' PROVE daily'[h] >= due[h]
      OBVIOUS
    <3>1. CASE Done(h)
      <4>1. Day(h) # d
        BY <1>3, <2>3, <3>1 DEF Done
      <4>2. QED
        BY <2>6, <3>1, <4>1 DEF DaemonInv, DaemonTables, InDaily
    <3>2. CASE ~Done(h)
      <4>1. Day(h) <= d /\ \E g \in HourlyRows : Day(g) = d
        BY <2>10, <3>2
      <4>2. hourly[h] >= due[h]
        BY <2>5, <2>7, <3>2, <4>1 DEF Kept, Whole, InHourly
      <4>3. CASE Day(h) = d
        BY <2>6, <4>1, <4>2, <4>3
      <4>4. CASE Day(h) # d
        <5>1. Day(h) < d
          BY <1>3, <4>1, <4>4
        <5>2. h \notin HourlyRows
          BY <2>5, <3>2, <5>1
        <5>3. hourly[h] = 0
          BY <1>1, <5>2 DEF HourlyRows
        <5>4. Day(h) <= Day(h)
          BY <1>3
        <5>5. ~(daily[h] > 0)
          BY <3>2, <5>4 DEF Done
        <5>6. daily[h] = 0
          BY <1>1, <5>5
        <5>7. QED
          BY <1>1, <2>6, <4>2, <4>4, <5>3, <5>6
      <4>5. QED
        BY <4>3, <4>4
    <3>3. QED
      BY <3>1, <3>2
  <2>12. /\ HourlyRows' = HourlyRows
         /\ \A h \in Hours : Whole(h)' <=> Whole(h)
    BY <2>1 DEF HourlyRows, Whole, InHourly, history
  <2>13. DaemonTables'
    BY <2>1, <2>9, <2>11, <2>12 DEF DaemonInv, DaemonTables, InDaily, history
  <2>14. \A g \in HourlyRows : Day(g) < d + 1 => Done(g)'
    <3> SUFFICES ASSUME NEW g \in HourlyRows, Day(g) < d + 1 PROVE Done(g)'
      OBVIOUS
    <3>1. g \in Hours /\ hourly[g] > 0
      BY DEF HourlyRows
    <3>2. CASE Day(g) = d
      <4>1. daily'[g] > 0
        BY <2>6, <3>1, <3>2
      <4>2. QED
        BY <1>3, <3>1, <4>1 DEF Done
    <3>3. CASE Day(g) # d
      <4>1. Day(g) < d
        BY <1>3, <3>1, <3>3
      <4>2. QED
        BY <2>5, <2>8, <3>1, <4>1
    <3>4. QED
      BY <3>2, <3>3
  <2>15. DaemonJob'
    BY <1>4, <2>3, <2>4, <2>5, <2>9, <2>12, <2>14 DEF DaemonInv, DaemonJob
  <2>16. QED
    BY <2>13, <2>15 DEF DaemonInv
<1>19. CASE DailyDone
  <2>1. /\ job.pc = "daily" /\ job.t >= Trunc(job.now) /\ UNCHANGED <<clock, tables, history>>
        /\ job' = NoJob \/ (Retention > 0 /\ job' = [job EXCEPT !.pc = "pruneRaw"])
    BY <1>19 DEF DailyDone, DailyEnd
  <2>2. CASE Retention > 0 /\ job' = [job EXCEPT !.pc = "pruneRaw"]
    <3>1. /\ job'.pc = "pruneRaw" /\ job'.kind = job.kind /\ job'.since = job.since
          /\ job'.now = job.now
      BY <1>1, <2>2 DEF JobType
    <3>2. Day(job.now) <= Day(job.t)
      <4>1. Trunc(job.now) \in Nat /\ Day(Trunc(job.now)) = Day(job.now)
        BY <1>1, DayIs, TruncIs
      <4>2. QED
        BY <1>1, <2>1, <4>1, DayOrder
    <3>3. \A g \in HourlyRows : Day(g) < Day(job.now) => Done(g)
      BY <1>3, <1>4, <1>5, <2>1, <3>2 DEF DaemonInv, DaemonJob
    <3>4. \A h \in Hours : h < job.now /\ Kept(h) => Whole(h)
      BY <2>1 DEF DaemonInv, DaemonJob
    <3>5. job.kind = "daemon" /\ job.since = 0
      BY DEF DaemonInv, DaemonJob
    <3>6. DaemonJob'
      BY <1>4, <1>11, <2>1, <2>2, <3>1, <3>3, <3>4, <3>5 DEF DaemonJob
    <3>7. QED
      BY <1>10, <2>1, <3>6
  <2>3. QED
    BY <1>12, <2>1, <2>2
<1>20. CASE PruneSamples
  <2>1. PICK k \in RawHours :
           /\ k <= RawCutoff
           /\ \/ \E n \in 0..(MaxPerHour - 1) : n < raw[k] /\ raw' = [raw EXCEPT ![k] = n]
              \/ raw' = raw
    BY <1>20 DEF PruneSamples
  <2>2. UNCHANGED <<clock, hourly, daily, history, job>> /\ job.pc = "pruneRaw"
    BY <1>20 DEF PruneSamples
  <2>3. k \in Hours /\ k < job.now /\ Retention > 0
    <3>1. k \in Hours /\ Retention > 0
      BY <1>1, <2>2 DEF RawHours, DaemonInv, DaemonJob, TypeOK
    <3>2. QED
      BY <1>1, <1>2, <2>1, <3>1 DEF RawCutoff
  <2>4. \A h \in Hours : h # k => raw'[h] = raw[h]
    BY <1>1, <2>1, <2>3 DEF TypeOK
  <2>5. /\ \A h \in Hours : (Kept(h)' <=> Kept(h)) /\ (Done(h)' <=> Done(h)) /\ (Whole(h)' <=> Whole(h))
        /\ HourlyRows' = HourlyRows
    BY <2>2 DEF Kept, Done, Whole, InHourly, HourlyRows, history
  <2>6. k < clock /\ (Kept(k) => Whole(k))
    <3>1. k < clock
      BY <1>1, <1>4, <2>3
    <3>2. Kept(k) => Whole(k)
      BY <2>2, <2>3 DEF DaemonInv, DaemonJob
    <3>3. QED
      BY <3>1, <3>2
  <2>7. DaemonTables'
    BY <2>2, <2>4, <2>5, <2>6 DEF DaemonInv, DaemonTables, InDaily, history
  <2>8. DaemonJob'
    BY <1>4, <2>2, <2>5 DEF DaemonInv, DaemonJob
  <2>9. QED
    BY <2>7, <2>8 DEF DaemonInv
<1>21. CASE PruneSamplesDone
  <2>1. job.pc = "pruneRaw" /\ UNCHANGED <<clock, tables, history>> /\ Goto("pruneHourly")
    BY <1>21 DEF PruneSamplesDone
  <2>2. /\ job'.pc = "pruneHourly" /\ job'.kind = job.kind /\ job'.since = job.since
        /\ job'.now = job.now
    BY <1>1, <2>1 DEF Goto, JobType
  <2>3. DaemonJob'
    BY <1>4, <1>11, <2>1, <2>2 DEF DaemonInv, DaemonJob
  <2>4. QED
    BY <1>10, <2>1, <2>3
<1>22. CASE PruneHourly
  <2>1. PICK m \in HourlyRows : m <= HourlyCutoff /\ hourly' = [hourly EXCEPT ![m] = 0]
    BY <1>22 DEF PruneHourly
  <2>2. UNCHANGED <<clock, raw, text, daily, history, job>> /\ job.pc = "pruneHourly"
    BY <1>22 DEF PruneHourly
  <2>3. m \in Hours /\ Day(m) < Day(job.now) /\ m <= clock - HourlyRetention
    <3>1. m \in Hours /\ m \in Nat
      BY <1>1, <1>4
    <3>2. m + HoursPerDay <= job.now /\ m <= clock - HourlyRetention
      BY <1>1, <1>2, <1>4, <2>1, <3>1 DEF HourlyCutoff
    <3>3. QED
      BY <1>1, <3>1, <3>2, DayOrder
  <2>4. Done(m)
    BY <2>2, <2>3 DEF DaemonInv, DaemonJob
  <2>5. \A h \in Hours : h # m => hourly'[h] = hourly[h]
    BY <1>1, <2>1, <2>3 DEF TypeOK
  <2>6. hourly'[m] = 0
    BY <1>1, <2>1, <2>3 DEF TypeOK
  <2>7. \A h \in Hours : (Kept(h)' <=> Kept(h)) /\ (Done(h)' <=> Done(h)) /\ (h # m /\ Whole(h) => Whole(h)')
    BY <2>2, <2>5 DEF Kept, Done, Whole, InHourly, history
  <2>8. ~Kept(m)
    BY <1>1, <1>2, <2>3, <2>4 DEF Kept
  <2>9. \A h \in Hours : Kept(h)' /\ Whole(h) => Whole(h)'
    BY <2>7, <2>8
  <2>10. \A g \in HourlyRows' : g \in HourlyRows
    <3> SUFFICES ASSUME NEW g \in HourlyRows' PROVE g \in HourlyRows
      OBVIOUS
    <3>1. g \in Hours /\ hourly'[g] > 0
      BY DEF HourlyRows
    <3>2. g # m
      BY <2>6, <3>1
    <3>3. QED
      BY <2>5, <3>1, <3>2 DEF HourlyRows
  <2>11. DaemonTables'
    BY <2>2, <2>7, <2>9, <2>10 DEF DaemonInv, DaemonTables, InDaily, history
  <2>12. DaemonJob'
    BY <1>4, <2>2, <2>7, <2>9, <2>10 DEF DaemonInv, DaemonJob
  <2>13. QED
    BY <2>11, <2>12 DEF DaemonInv
<1>23. CASE PruneHourlyDone
  BY <1>12, <1>23 DEF PruneHourlyDone
<1>24. CASE Abort
  BY <1>12, <1>24 DEF Abort
<1>25. CASE Poll
  BY <1>8, <1>25 DEF Poll
<1>26. CASE UNCHANGED vars
  BY <1>8, <1>26 DEF vars
<1>27. QED
  BY <1>7, <1>9, <1>13, <1>14, <1>15, <1>16, <1>17, <1>18, <1>19, <1>20, <1>21, <1>22, <1>23,
     <1>24, <1>25, <1>26 DEF Next, JobStep

\* Backfill and prune alone.
LEMMA BackfillNext ==
  ASSUME TablesInv, JobInv, BackfillInv, [Next]_vars, Only({"backfill", "prune"})',
         Retention < HourlyRetention
  PROVE  BackfillInv'
<1>1. /\ TypeOK /\ clock \in Nat /\ job.now \in Nat /\ job.since \in Nat /\ job.t \in Nat
      /\ job \in JobType /\ \A h \in Hours : h \in Nat
      /\ \A h \in Hours : raw[h] \in Nat /\ hourly[h] \in Nat /\ total[h] \in Nat /\ due[h] \in Nat
  BY Numbers DEF TablesInv
<1>2. Retention \in Nat /\ HourlyRetention \in Nat
  BY Numbers
<1>3. job.now <= clock /\ \A h \in HourlyRows : h \in Hours /\ h < clock
  BY DEF TablesInv, JobInv, HourlyRows
<1>4. ASSUME job' = job, hourly' = hourly,
             \A h \in Hours : Covered(h) => Covered(h)' \/ (h >= clock /\ h >= job.now),
             \A h \in Hours : raw'[h] > 0 => raw[h] > 0 \/ h >= job.now - Retention \/ Late(h)',
             \A h \in Hours : Late(h) => Late(h)' \/ h >= job.now - Retention
      PROVE  BackfillInv'
  <2>1. HourlyRows' = HourlyRows
    BY <1>4 DEF HourlyRows
  <2>2. ASSUME NEW h \in Hours, NEW g \in HourlyRows, h <= g PROVE Covered(h)'
    <3>1. g \in Nat /\ g < clock
      BY <1>1, <1>3
    <3>2. Covered(h) /\ ~(h >= clock)
      BY <1>1, <2>2, <3>1 DEF BackfillInv
    <3>3. QED
      BY <1>4, <3>2
  <2>3. ASSUME NEW h \in Hours, h < job.now, Covered(h) PROVE Covered(h)'
    BY <1>1, <1>4, <2>3
  <2>4. QED
    BY <1>4, <2>1, <2>2, <2>3 DEF BackfillInv
<1>5. CASE Tick \/ Poll \/ UNCHANGED vars
  <2>1. job' = job /\ hourly' = hourly /\ raw' = raw /\ history' = history
    BY <1>5 DEF Tick, Poll, vars, tables
  <2>2. QED
    BY <1>4, <2>1 DEF Covered, Late, history
<1>6. CASE InsertSample
  <2>1. PICK n \in 0..1 :
          /\ polling # NoHour /\ UNCHANGED <<hourly, job>>
          /\ raw' = [raw EXCEPT ![polling] = @ + n] /\ total' = [total EXCEPT ![polling] = @ + n]
          /\ due' = [due EXCEPT ![polling] = IF polling = clock THEN @ + n ELSE @]
    BY <1>6 DEF InsertSample
  <2>2. polling \in Hours /\ n \in Nat /\ due[polling] <= total[polling] /\ polling <= clock
    BY <1>1, <2>1 DEF TablesInv, TypeOK
  <2>3. \A h \in Hours : /\ h # polling => raw'[h] = raw[h] /\ total'[h] = total[h] /\ due'[h] = due[h]
                         /\ h = polling => raw'[h] = raw[h] + n /\ total'[h] = total[h] + n
                         /\ h = polling /\ h # clock => due'[h] = due[h]
    BY <1>1, <2>1, <2>2 DEF TypeOK
  <2>4. ASSUME NEW h \in Hours, h = clock
        PROVE  h >= clock /\ h >= job.now /\ h >= job.now - Retention
    BY <1>1, <1>2, <1>3, <2>4
  <2>5. ASSUME NEW h \in Hours, h # clock
        PROVE  /\ Covered(h) => Covered(h)'
               /\ raw'[h] > 0 => raw[h] > 0 \/ Late(h)'
               /\ Late(h) => Late(h)'
    <3>1. CASE h # polling
      BY <2>1, <2>3, <3>1 DEF Covered, Late
    <3>2. CASE h = polling
      <4>1. /\ raw'[h] = raw[h] + n /\ total'[h] = total[h] + n /\ due'[h] = due[h]
            /\ hourly'[h] = hourly[h] /\ due[h] <= total[h] /\ n \in {0, 1}
        BY <2>1, <2>2, <2>3, <2>5, <3>2
      <4>2. CASE n = 0
        BY <1>1, <4>1, <4>2 DEF Covered, Late
      <4>3. CASE n = 1
        <5>1. total'[h] # due'[h]
          BY <1>1, <4>1, <4>3
        <5>2. QED
          BY <5>1 DEF Covered, Late
      <4>4. QED
        BY <4>1, <4>2, <4>3
    <3>3. QED
      BY <3>1, <3>2
  <2>6. QED
    BY <1>4, <2>1, <2>4, <2>5
<1>7. CASE \E kind \in kinds : StartJob(kind)
  <2>1. PICK kind \in kinds : StartJob(kind)
    BY <1>7
  <2>2. kind \in {"backfill", "prune"}
    BY <2>1 DEF StartJob, Only
  <2>3. /\ UNCHANGED <<raw, hourly, history>> /\ job'.kind = kind /\ job'.since = 0
        /\ job'.pc \in {"hourlyBegin", "pruneRaw"}
    BY <2>1, <2>2 DEF StartJob, tables
  <2>4. QED
    BY <2>2, <2>3 DEF BackfillInv, HourlyRows, Covered, history
<1>8. ASSUME UNCHANGED <<raw, hourly, history>>, job' = NoJob PROVE BackfillInv'
  BY <1>8 DEF BackfillInv, HourlyRows, Covered, history, NoJob
<1>9. ASSUME UNCHANGED <<raw, hourly, history>>, job.pc # "idle", job'.since = job.since,
             job'.kind = job.kind, job'.now = job.now, NEW l, job'.pc = l,
             l = "hourly" => \A h \in Hours : h < job'.t /\ h < job.now => Covered(h),
             l \in {"dailyBegin", "daily"} => \A h \in Hours : h < job.now => Covered(h),
             l = "pruneHourly" =>
               \A h \in Hours : raw[h] > 0 => h >= job.now - Retention \/ Late(h)
      PROVE  BackfillInv'
  <2>1. /\ HourlyRows' = HourlyRows
        /\ \A h \in Hours : /\ Covered(h)' <=> Covered(h)
                            /\ Late(h)' <=> Late(h)
    BY <1>9 DEF HourlyRows, Covered, Late, history
  <2>2. QED
    BY <1>9, <2>1 DEF BackfillInv
<1>10. CASE HourlyBegin
  <2>1. UNCHANGED <<raw, hourly, history>> /\ job.pc = "hourlyBegin"
    BY <1>10 DEF HourlyBegin, tables
  <2>2. CASE RawHours = {} /\ Goto("dailyBegin")
    <3>1. \A h \in Hours : Covered(h)
      <4>1. \A h \in Hours : raw[h] = 0
        BY <1>1, <2>2 DEF RawHours
      <4>2. QED
        BY <1>1, <4>1 DEF Covered
    <3>2. QED
      BY <1>1, <1>9, <2>1, <2>2, <3>1 DEF Goto, JobType
  <2>3. CASE \E m \in RawHours :
            /\ IsMin(m, RawHours)
            /\ job' = [job EXCEPT !.pc = "hourly", !.t = Larger(HourlyStart, m)]
    <3>1. PICK m \in RawHours : IsMin(m, RawHours)
                                /\ job' = [job EXCEPT !.pc = "hourly", !.t = Larger(HourlyStart, m)]
      BY <2>3
    <3> DEFINE a == After(HourlyRows, 1)
    <3>2. a \in Nat /\ \A h \in Hours : h < a => \E g \in HourlyRows : h <= g
      <4>1. CASE HourlyRows = {}
        BY <1>1, <4>1 DEF After
      <4>2. CASE HourlyRows # {}
        <5> DEFINE n == CHOOSE k \in HourlyRows : IsMax(k, HourlyRows)
        <5>1. IsMax(n, HourlyRows) /\ a = n + 1
          BY <4>2, NewestIs DEF HourlyRows
        <5> HIDE DEF n, a
        <5>2. n \in HourlyRows /\ n \in Nat
          BY <1>1, <1>3, <5>1 DEF IsMax
        <5>3. QED
          BY <1>1, <5>1, <5>2
      <4>3. QED
        BY <4>1, <4>2
    <3> HIDE DEF a
    <3>3. HourlyStart = a
      BY <3>2 DEF HourlyStart, Larger, a, BackfillInv
    <3> DEFINE t == Larger(a, m)
    <3>4. t = a \/ t = m
      BY DEF Larger
    <3>5. /\ job'.pc = "hourly" /\ job'.kind = job.kind /\ job'.since = job.since /\ job'.t = t
          /\ job'.now = job.now
      BY <1>1, <3>1, <3>3 DEF JobType
    <3> HIDE DEF t
    <3>6. ASSUME NEW h \in Hours, h < t PROVE Covered(h)
      <4>1. CASE t = a
        BY <3>2, <3>6, <4>1 DEF BackfillInv
      <4>2. CASE t = m
        <5>1. m \in Nat /\ (h \in RawHours => m <= h)
          BY <1>1, <3>1 DEF IsMin, RawHours, TypeOK
        <5>2. h \notin RawHours
          BY <1>1, <3>6, <4>2, <5>1
        <5>3. raw[h] = 0
          BY <1>1, <5>2 DEF RawHours
        <5>4. QED
          BY <1>1, <5>3 DEF Covered
      <4>3. QED
        BY <3>4, <4>1, <4>2
    <3>7. QED
      BY <1>9, <2>1, <3>5, <3>6
  <2>4. QED
    BY <1>10, <2>2, <2>3 DEF HourlyBegin
<1>11. CASE HourlyStep
  <2>1. /\ job.pc = "hourly" /\ job.t < job.now /\ raw' = raw /\ history' = history
        /\ hourly' = [hourly EXCEPT ![job.t] = IF raw[job.t] > 0 THEN raw[job.t] ELSE @]
        /\ job' = [job EXCEPT !.t = @ + 1]
    BY <1>11 DEF HourlyStep, HourlyEnd
  <2>2. PICK t \in Hours : t = job.t
    <3>1. job.now <= MaxHour /\ MaxHour \in Nat
      BY <1>1, Numbers DEF TypeOK
    <3>2. job.t \in Hours
      BY <1>1, <2>1, <3>1 DEF Hours
    <3>3. QED
      BY <3>2
  <2>3. /\ job'.pc = "hourly" /\ job'.kind = job.kind /\ job'.since = job.since
        /\ job'.t = t + 1 /\ job'.now = job.now
    BY <1>1, <2>1, <2>2 DEF JobType
  <2>4. \A h \in Hours : /\ h # t => hourly'[h] = hourly[h]
                         /\ h = t => hourly'[h] >= raw[h]
    BY <1>1, <2>1, <2>2 DEF TypeOK
  <2>5. \A h \in Hours : (h = t \/ Covered(h)) => Covered(h)'
    BY <2>1, <2>4 DEF Covered, history
  <2>6. ASSUME NEW h \in Hours, h < t + 1 PROVE Covered(h)'
    <3>1. CASE h = t
      BY <2>5, <3>1
    <3>2. CASE h # t
      <4>1. h < t /\ h < job.now
        BY <1>1, <2>1, <2>2, <2>6, <3>2
      <4>2. Covered(h)
        BY <2>1, <2>2, <4>1 DEF BackfillInv
      <4>3. QED
        BY <2>5, <4>2
    <3>3. QED
      BY <3>1, <3>2
  <2>7. ASSUME NEW h \in Hours, NEW g \in HourlyRows', h <= g PROVE Covered(h)'
    <3>1. g \in Hours /\ hourly'[g] > 0
      BY DEF HourlyRows
    <3>2. CASE g = t
      <4>1. h < t + 1
        BY <1>1, <2>7, <3>2
      <4>2. QED
        BY <2>6, <4>1
    <3>3. CASE g # t
      <4>1. g \in HourlyRows
        BY <2>4, <3>1, <3>3 DEF HourlyRows
      <4>2. Covered(h)
        BY <2>7, <4>1 DEF BackfillInv
      <4>3. QED
        BY <2>5, <4>2
    <3>4. QED
      BY <3>2, <3>3
  <2>8. QED
    BY <2>1, <2>3, <2>6, <2>7 DEF BackfillInv
<1>12. CASE HourlyDone
  <2>1. /\ job.pc = "hourly" /\ job.t >= job.now /\ Goto("dailyBegin")
        /\ UNCHANGED <<raw, hourly, history>>
    BY <1>12 DEF HourlyDone, HourlyEnd, tables
  <2>2. ASSUME NEW h \in Hours, h < job.now PROVE Covered(h)
    <3>1. h < job.t
      BY <1>1, <2>1, <2>2
    <3>2. QED
      BY <2>1, <2>2, <3>1 DEF BackfillInv
  <2>3. QED
    BY <1>1, <1>9, <2>1, <2>2 DEF Goto, JobType
<1>13. CASE DailyBegin
  <2>1. /\ job.pc = "dailyBegin" /\ UNCHANGED <<raw, hourly, history>>
        /\ \E t : job' = [job EXCEPT !.pc = "daily", !.t = t]
    BY <1>13 DEF DailyBegin, tables
  <2>2. /\ job'.pc = "daily" /\ job'.kind = job.kind /\ job'.since = job.since /\ job'.now = job.now
    BY <1>1, <2>1 DEF JobType
  <2>3. \A h \in Hours : h < job.now => Covered(h)
    BY <2>1 DEF BackfillInv
  <2>4. QED
    BY <1>9, <2>1, <2>2, <2>3
<1>14. CASE DailyStep
  <2>1. /\ job.pc = "daily" /\ UNCHANGED <<raw, hourly, history>>
        /\ job' = [job EXCEPT !.t = @ + HoursPerDay]
    BY <1>14 DEF DailyStep
  <2>2. /\ job'.pc = "daily" /\ job'.kind = job.kind /\ job'.since = job.since /\ job'.now = job.now
    BY <1>1, <2>1 DEF JobType
  <2>3. \A h \in Hours : h < job.now => Covered(h)
    BY <2>1 DEF BackfillInv
  <2>4. QED
    BY <1>9, <2>1, <2>2, <2>3
<1>15. CASE DailyDone
  <2>1. job.kind # "daemon"
    BY <1>15 DEF DailyDone, BackfillInv
  <2>2. QED
    BY <1>8, <1>15, <2>1 DEF DailyDone, tables
<1>16. CASE PruneSamples
  <2>1. \/ \E k \in RawHours, n \in 0..(MaxPerHour - 1) : n < raw[k] /\ raw' = [raw EXCEPT ![k] = n]
        \/ raw' = raw
    BY <1>16 DEF PruneSamples
  <2>2. UNCHANGED <<hourly, history, job>>
    BY <1>16 DEF PruneSamples
  <2>3. \A h \in Hours : raw'[h] \in Nat /\ raw'[h] <= raw[h]
    <3>1. MaxPerHour \in Nat
      BY Numbers
    <3>2. QED
      BY <1>1, <2>1, <3>1 DEF TypeOK
  <2>4. \A h \in Hours : Covered(h) => Covered(h)'
    BY <1>1, <2>2, <2>3 DEF Covered, history
  <2>5. \A h \in Hours : /\ raw'[h] > 0 => raw[h] > 0
                         /\ Late(h)' <=> Late(h)
    BY <1>1, <2>2, <2>3 DEF Late, history
  <2>6. QED
    BY <1>4, <2>2, <2>4, <2>5
<1>17. CASE PruneSamplesDone
  <2>1. job.pc = "pruneRaw" /\ UNCHANGED <<raw, hourly, history>> /\ Goto("pruneHourly")
    BY <1>17 DEF PruneSamplesDone, tables
  <2>2. \A h \in RawHours : h >= job.now - Retention
    BY <1>17, <2>1 DEF PruneSamplesDone, BackfillInv, RawCutoff
  <2>3. \A h \in Hours : raw[h] > 0 => h >= job.now - Retention
    BY <2>2 DEF RawHours
  <2>4. /\ job'.pc = "pruneHourly" /\ job'.kind = job.kind /\ job'.since = job.since
        /\ job'.now = job.now
    BY <1>1, <2>1 DEF Goto, JobType
  <2>5. QED
    BY <1>9, <2>1, <2>3, <2>4
<1>18. CASE PruneHourly
  <2>1. PICK m \in HourlyRows : m <= HourlyCutoff /\ hourly' = [hourly EXCEPT ![m] = 0]
    BY <1>18 DEF PruneHourly
  <2>2. UNCHANGED <<raw, history, job>> /\ job.pc = "pruneHourly" /\ m \in Hours
    BY <1>3, <1>18 DEF PruneHourly
  <2>3. raw[m] > 0 => Late(m)
    <3>1. raw[m] > 0 => m >= job.now - Retention \/ Late(m)
      BY <2>2 DEF BackfillInv
    <3>2. ~(m >= job.now - Retention)
      BY <1>1, <1>2, <2>1, <2>2 DEF HourlyCutoff
    <3>3. QED
      BY <3>1, <3>2
  <2>4. \A h \in Hours : h # m => hourly'[h] = hourly[h]
    BY <1>1, <2>1, <2>2 DEF TypeOK
  <2>5. hourly'[m] = 0
    BY <1>1, <2>1, <2>2 DEF TypeOK
  <2>6. \A h \in Hours : Covered(h) => Covered(h)'
    <3> SUFFICES ASSUME NEW h \in Hours, Covered(h) PROVE Covered(h)'
      OBVIOUS
    <3>1. CASE h # m
      BY <2>2, <2>4, <3>1 DEF Covered, history
    <3>2. CASE h = m
      BY <1>1, <2>2, <2>3, <2>5, <3>2 DEF Covered, Late, history
    <3>3. QED
      BY <3>1, <3>2
  <2>7. \A g \in HourlyRows' : g \in HourlyRows
    <3> SUFFICES ASSUME NEW g \in HourlyRows' PROVE g \in HourlyRows
      OBVIOUS
    <3>1. g \in Hours /\ hourly'[g] > 0 /\ g # m
      BY <2>5 DEF HourlyRows
    <3>2. QED
      BY <2>4, <3>1 DEF HourlyRows
  <2>8. \A h \in Hours : Late(h)' <=> Late(h)
    BY <2>2 DEF Late, history
  <2>9. QED
    BY <2>2, <2>6, <2>7, <2>8 DEF BackfillInv
<1>19. CASE PruneHourlyDone
  BY <1>8, <1>19 DEF PruneHourlyDone, tables
<1>20. CASE Abort
  BY <1>8, <1>20 DEF Abort, tables
<1>21. QED
  BY <1>5, <1>6, <1>7, <1>10, <1>11, <1>12, <1>13, <1>14, <1>15, <1>16, <1>17, <1>18, <1>19,
     <1>20 DEF Next, JobStep

-----------------------------------------------------------------------------
(* The theorems.                                                           *)

\* Nothing has been sampled and no job runs.
LEMMA InitInv == Init => IInv
<1> SUFFICES ASSUME Init PROVE IInv
  OBVIOUS
<1>1. MaxHour \in Nat /\ MaxPerHour \in Nat /\ HoursPerDay \in Nat /\ MaxAborts \in Nat
  BY Numbers
<1>2. 0 \in Hours /\ 0 \in 0..MaxPerHour /\ 0 \in 0..MaxAborts /\ 0 \in 0..(MaxHour + HoursPerDay)
  BY <1>1 DEF Hours
<1>3. TypeOK
  BY <1>2 DEF Init, TypeOK, NoJob, Kinds
<1>4. \A h \in Hours : raw[h] = 0 /\ hourly[h] = 0 /\ daily[h] = 0 /\ total[h] = 0 /\ due[h] = 0
  BY DEF Init
<1>5. TablesInv
  BY <1>3, <1>4 DEF Init, TablesInv
<1>6. JobInv
  BY DEF Init, JobInv, NoJob
<1>8. HourlyRows = {}
  BY <1>4 DEF HourlyRows
<1>9. DaemonTables
  BY <1>4 DEF DaemonTables, Whole, InHourly, Done
<1>10. DaemonJob
  BY DEF Init, DaemonJob, NoJob
<1>11. BackfillInv
  BY <1>4, <1>8 DEF Init, BackfillInv, NoJob
<1>12. QED
  BY <1>5, <1>6, <1>9, <1>10, <1>11 DEF IInv, DaemonInv

\* No step breaks the invariant.
LEMMA NextInv == IInv /\ [Next]_vars => IInv'
<1> SUFFICES ASSUME IInv, [Next]_vars PROVE IInv'
  OBVIOUS
<1>1. TablesInv' /\ JobInv'
  BY TablesNext DEF IInv
<1>2. ASSUME HourlyRetention >= HoursPerDay, Only({"daemon"})' PROVE DaemonInv'
  <2>1. Only({"daemon"})
    BY <1>2, KindsStay
  <2>2. QED
    BY <1>1, <1>2, <2>1, DaemonNext DEF IInv
<1>3. ASSUME Retention < HourlyRetention, Only({"backfill", "prune"})' PROVE BackfillInv'
  <2>1. Only({"backfill", "prune"})
    BY <1>3, KindsStay
  <2>2. QED
    BY <1>3, <2>1, BackfillNext DEF IInv
<1>4. QED
  BY <1>1, <1>2, <1>3 DEF IInv

\* The invariant of every job, alone or with the others.
LEMMA Invariance == Spec => []IInv
BY InitInv, NextInv, PTL DEF Spec

\* The types of the clock, the tables and the job; Retention and the rest are
\* any numbers, and any jobs run.
THEOREM TypeCorrect == Spec => []TypeOK
<1>1. IInv => TypeOK
  BY DEF IInv, TablesInv
<1>2. QED
  BY <1>1, Invariance, PTL

\* Whatever the daily table says of an hour, no later run of whichever job
\* takes it back: a loop begins behind the newest day there is.
THEOREM DaysAreForever == Spec => DailyForever
<1>1. ASSUME IInv, [Next]_vars PROVE [\A h \in Hours : daily'[h] >= daily[h]]_vars
  <2> SUFFICES ASSUME Next, NEW h \in Hours PROVE daily'[h] >= daily[h]
    BY <1>1
  <2>1. /\ TypeOK /\ daily[h] \in Nat /\ hourly[h] \in Nat
    BY <1>1, Numbers DEF IInv, TablesInv
  <2>2. CASE DailyStep
    <3>1. daily'[h] = daily[h] \/ (Day(h) = Day(job.t) /\ daily'[h] = hourly[h])
      BY <2>2 DEF DailyStep
    <3>2. Day(h) = Day(job.t) => ~(daily[h] > 0)
      <4>1. daily[h] > 0 => Day(h) < Day(job.t)
        BY <1>1, <2>2 DEF DailyStep, IInv, JobInv
      <4>2. Day(h) \in Nat /\ h \in Nat
        BY Numbers, DayIs
      <4>3. QED
        BY <4>1, <4>2
    <3>3. QED
      BY <2>1, <3>1, <3>2
  <2>3. CASE daily' = daily
    BY <2>1, <2>3
  <2>4. DailyStep \/ daily' = daily
    BY DEF Next, Tick, Poll, InsertSample, StartJob, JobStep, HourlyBegin, HourlyStep, HourlyDone,
       DailyBegin, DailyDone, PruneSamples, PruneSamplesDone, PruneHourly, PruneHourlyDone, Abort,
       tables, history
  <2>5. QED
    BY <2>2, <2>3, <2>4
<1>2. QED
  BY <1>1, Invariance, PTL DEF Spec, DailyForever

\* If hourly rows live for a day at least, the daemon's hourly rows have every
\* sample that was inserted in its hour, whenever polls insert.
THEOREM HoursComplete ==
  ASSUME HourlyRetention >= HoursPerDay
  PROVE  Spec => []HourlyRowComplete
<1>1. IInv => HourlyRowComplete
  <2> SUFFICES ASSUME IInv, Only({"daemon"}), NEW h \in HourlyRows, h > clock - HourlyRetention
               PROVE  InHourly(h)
    BY DEF HourlyRowComplete
  <2>1. h \in Hours /\ h <= h /\ Kept(h)
    BY Numbers DEF HourlyRows, Kept
  <2>2. QED
    BY <2>1 DEF IInv, DaemonInv, DaemonTables, Whole
<1>2. QED
  BY <1>1, Invariance, PTL

\* Under the same condition, the daemon takes no sample with a value before
\* those of its hour are in an aggregate.
THEOREM NothingPrunedUnaggregated ==
  ASSUME HourlyRetention >= HoursPerDay
  PROVE  Spec => []PrunedOnlyAggregated
<1>1. IInv => PrunedOnlyAggregated
  <2> SUFFICES ASSUME IInv, Only({"daemon"}), NEW h \in Hours, raw[h] < total[h]
               PROVE  InHourly(h) \/ InDaily(h)
    BY DEF PrunedOnlyAggregated
  <2>1. CASE Done(h)
    BY <2>1 DEF IInv, DaemonInv, DaemonTables
  <2>2. CASE ~Done(h)
    BY <2>2 DEF IInv, DaemonInv, DaemonTables, Kept, Whole
  <2>3. QED
    BY <2>1, <2>2
<1>2. QED
  BY <1>1, Invariance, PTL

\* Under the same condition, the daemon's daily rows have every sample that was
\* inserted in its hour, although they are computed from hourly rows that come
\* and go.
THEOREM DaysComplete ==
  ASSUME HourlyRetention >= HoursPerDay
  PROVE  Spec => []DailyRowComplete
<1>1. IInv => DailyRowComplete
  <2> SUFFICES ASSUME IInv, Only({"daemon"}), NEW d \in DailyRows, NEW h \in Hours, Trunc(h) = d
               PROVE  InDaily(h)
    BY DEF DailyRowComplete
  <2>1. PICK g \in Hours : daily[g] > 0 /\ d = Trunc(g)
    BY DEF DailyRows
  <2>2. /\ Day(Trunc(h)) = Day(h) /\ Day(Trunc(g)) = Day(g) /\ Day(h) \in Nat
    BY Numbers, TruncIs, DayIs
  <2>3. Day(h) <= Day(g)
    BY <2>1, <2>2
  <2>4. Done(h)
    BY <2>1, <2>3 DEF Done
  <2>5. QED
    BY <2>4 DEF IInv, DaemonInv, DaemonTables
<1>2. QED
  BY <1>1, Invariance, PTL

\* Under the same condition, once the daemon's job has done the hours, all that
\* was inserted in an hour that is over is in an aggregate.
THEOREM DaemonLeavesNothing ==
  ASSUME HourlyRetention >= HoursPerDay
  PROVE  Spec => []DaemonCoversAll
<1>1. IInv => DaemonCoversAll
  <2> SUFFICES ASSUME IInv, Only({"daemon"}), NEW h \in Hours, h < job.now,
                      job.pc \in {"dailyBegin", "daily", "pruneRaw", "pruneHourly"}
               PROVE  InHourly(h) \/ InDaily(h)
    BY DEF DaemonCoversAll
  <2>1. CASE Done(h)
    BY <2>1 DEF IInv, DaemonInv, DaemonTables
  <2>2. CASE ~Done(h)
    BY <2>2 DEF IInv, DaemonInv, DaemonJob, Kept, Whole
  <2>3. QED
    BY <2>1, <2>2
<1>2. QED
  BY <1>1, Invariance, PTL

\* If raw samples do not outlive the hourly rows, -aggregate-backfill leaves no
\* sample of an hour without late ones out of its row, however often it was cut
\* short and whatever -prune has taken before.
THEOREM BackfillLeavesNothing ==
  ASSUME Retention < HourlyRetention
  PROVE  Spec => []BackfillCoversAll
<1>1. IInv => BackfillCoversAll
  BY DEF IInv, BackfillInv, BackfillCoversAll, BackfillAggregatesAll, Covered
<1>2. QED
  BY <1>1, Invariance, PTL
=============================================================================
