---------------------------- MODULE VoltageProofs ----------------------------
(***************************************************************************)
(* Proofs about VoltageAnalysis, for the daemon alone (Offline = FALSE).   *)
(***************************************************************************)
EXTENDS VoltageAnalysis, FiniteSetTheorems, FunctionTheorems, SequenceTheorems, WellFoundedInduction, TLAPS

-----------------------------------------------------------------------------
(* What the analysis should find, said of any sequence of samples.         *)

SampleSet == [phase: Sensor, v: Voltages \cup {Null}]
Event == [phase: Sensor, start: Nat, end: Nat, lo: Voltages, hi: Voltages]

\* Readings and Starts of a sequence of samples.
ReadingsOf(s, p, n) == {k \in 1..n : s[k].phase = p /\ s[k].v # Null}
LastOf(s, p, n, j) == j \in ReadingsOf(s, p, n) /\ \A i \in ReadingsOf(s, p, n) : i <= j
StartsOf(s, p, n) ==
    {k \in ReadingsOf(s, p, n) : /\ OutOfRange(s[k].v)
                                 /\ \A j : LastOf(s, p, k - 1, j) => InRange(s[j].v)}

\* m is EndOf an event that starts at k.
BackOf(s, p, k, n) == {j \in ReadingsOf(s, p, n) : j > k /\ InRange(s[j].v)}
IsEnd(s, p, k, n, m) ==
    \/ m = 0 /\ BackOf(s, p, k, n) = {}
    \/ m \in BackOf(s, p, k, n) /\ \A j \in BackOf(s, p, k, n) : m <= j

\* The events ev of phase p are those of the samples up to n, each once, and o
\* is the one that is open, 0 if there is none.
Describes(s, ev, p, n, o) ==
    /\ \A e \in DOMAIN ev : ev[e].phase = p =>
         /\ ev[e].start \in StartsOf(s, p, n)
         /\ IsEnd(s, p, ev[e].start, n, ev[e].end)
         /\ ev[e].end = 0 <=> e = o
    /\ \A k \in StartsOf(s, p, n) : \E e \in DOMAIN ev : ev[e].phase = p /\ ev[e].start = k
    /\ \A e, f \in DOMAIN ev :
         ev[e].phase = p /\ ev[f].phase = p /\ ev[e].start = ev[f].start => e = f
    /\ o # 0 => o \in DOMAIN ev /\ ev[o].phase = p
    /\ \A j : LastOf(s, p, n, j) => (InRange(s[j].v) <=> o = 0)

-----------------------------------------------------------------------------
(* The invariant.                                                          *)

R == run["daemon"]

RunType ==
    [pc: {"idle", "fetch", "scan", "save"}, last: Nat, ongoing: [Sensor -> Nat], maxSeen: Nat,
     i: 1..(Len(Phases) + 1), rows: SUBSET Nat, event: Nat, lo: Int, hi: Int, count: Nat]

TypeInv ==
    /\ TypeOK /\ run \in [Analysers -> RunType]
    /\ R.count # 0 => R.lo \in Voltages /\ R.hi \in Voltages

\* The samples that lie behind the cursor or that the run has looked at.
Looked(k) ==
    \/ k <= cursor.last
    \/ /\ R.pc # "idle"
       /\ \E j \in DOMAIN Phases :
            /\ samples[k].phase = Phases[j]
            /\ j < R.i \/ (j = R.i /\ R.pc = "scan" /\ k \notin R.rows)

\* Where a run is: it goes through the sensors, and through the rows of each in
\* their order, and has seen what it leaves behind.
RunInv ==
    /\ R.pc # "idle" => R.last = cursor.last /\ cursor.last <= R.maxSeen
    /\ R.pc \in {"fetch", "scan"} => R.i \in DOMAIN Phases
    /\ R.pc = "save" => R.i = Len(Phases) + 1
    /\ R.pc = "scan" =>
         /\ R.rows \subseteq NewRows(Phases[R.i], R.last)
         /\ \A j \in NewRows(Phases[R.i], R.last) \ R.rows, k \in R.rows : j < k
    /\ \A k \in DOMAIN samples : Looked(k) =>
         k \in seen /\ (k <= cursor.last \/ (R.pc # "idle" /\ k <= R.maxSeen))

\* An event covers a sample.
Covers(e, k) ==
    events[e].phase = samples[k].phase /\ events[e].start <= k
    /\ (events[e].end = 0 \/ k < events[e].end)

\* The event that a run resumes may have been closed by a run that was cut
\* short; the reading that closed it is then still to be looked at.
Resumable(p, e) ==
    /\ events[e].phase = p /\ events[e].start <= cursor.last
    /\ events[e].end # 0 =>
         /\ events[e].end > cursor.last /\ samples[events[e].end].phase = p
         /\ InRange(samples[events[e].end].v)

\* The event under way goes on up to the rows that are left.
UnderWay(e) ==
    /\ events[e].phase = Phases[R.i] /\ events[e].start <= R.maxSeen
    /\ \A k \in R.rows : events[e].start < k
    /\ events[e].end # 0 => events[e].end \in R.rows /\ InRange(samples[events[e].end].v)

Covered == \A k \in DOMAIN samples :
    Looked(k) /\ OutOfRange(samples[k].v) => \E e \in DOMAIN events : Covers(e, k)

CursorEvents == \A p \in Sensor : cursor.ongoing[p] # 0 => Resumable(p, cursor.ongoing[p])

\* An event that a sensor's turn has left open.
LeftOpen(p, e) ==
    events[e].phase = p /\ events[e].start <= R.maxSeen /\ events[e].end = 0

RunEvents == R.pc # "idle" => \A j \in DOMAIN Phases :
    /\ j < R.i /\ R.ongoing[Phases[j]] # 0 => LeftOpen(Phases[j], R.ongoing[Phases[j]])
    /\ ~(j < R.i) => R.ongoing[Phases[j]] = cursor.ongoing[Phases[j]]

CoverInv ==
    /\ Covered /\ CursorEvents /\ RunEvents
    /\ R.pc = "scan" /\ R.event # 0 => UnderWay(R.event)

\* The event of a sensor that is open, as the run knows it.
Ongoing(p) ==
    IF R.pc = "idle" THEN cursor.ongoing[p]
    ELSE IF R.pc = "scan" /\ p = Phases[R.i] THEN R.event ELSE R.ongoing[p]

\* Of a sensor, the samples up to n are those that have been looked at.
UpTo(p, n) ==
    \A k \in DOMAIN samples : samples[k].phase = p => (k <= n <=> Looked(k))

\* As long as no run was cut short, the table describes what has been looked at.
BatchInv ==
    aborts = 0 => \A p \in Sensor, n \in 0..Len(samples) :
        UpTo(p, n) => Describes(samples, events, p, n, Ongoing(p))

IInv == TypeInv /\ RunInv /\ CoverInv /\ BatchInv

-----------------------------------------------------------------------------
(* Minima, maxima, types.                                                  *)

\* A set of numbers that is not empty has a least one.
LEMMA MinIs ==
  ASSUME NEW S \in SUBSET Nat, S # {}
  PROVE  Min(S) \in S /\ \A x \in S : Min(S) <= x
<1>1. IsWellFoundedOn(OpToRel(<, Nat), Nat)
  BY NatLessThanWellFounded
<1>2. PICK x \in S : \A y \in S : ~(<<y, x>> \in OpToRel(<, Nat))
  BY <1>1, WFMin
<1>3. ASSUME NEW y \in S PROVE x <= y
  <2>1. x \in Nat /\ y \in Nat
    OBVIOUS
  <2>2. y < x => <<y, x>> \in OpToRel(<, Nat)
    BY <2>1 DEF OpToRel
  <2>3. ~(y < x)
    BY <1>2, <2>2, Zenon
  <2>4. QED
    BY <2>1, <2>3
<1>4. QED
  BY <1>3 DEF Min

\* Of two numbers.
LEMMA OfTwo ==
  ASSUME NEW a \in Int, NEW b \in Int
  PROVE  /\ Min({a, b}) \in {a, b} /\ Max({a, b}) \in {a, b}
         /\ Max({a, b}) >= a /\ Max({a, b}) >= b
<1>1. \E x \in {a, b} : \A y \in {a, b} : x <= y
  <2>1. a <= b \/ b <= a
    OBVIOUS
  <2>2. QED
    BY <2>1
<1>2. \E x \in {a, b} : \A y \in {a, b} : x >= y
  <2>1. a >= b \/ b >= a
    OBVIOUS
  <2>2. QED
    BY <2>1
<1>3. QED
  BY <1>1, <1>2 DEF Min, Max

\* The constants.
LEMMA Constants ==
  /\ Voltages \subseteq Int /\ VoltageMin \in Int /\ VoltageMax \in Int /\ Null \notin Int
  /\ MaxAborts \in Nat /\ MaxSamples \in Nat
  /\ Phases \in Seq(Sensor) /\ Len(Phases) \in Nat /\ Len(Phases) > 0
  /\ DOMAIN Phases = 1..Len(Phases)
  /\ \A i, j \in DOMAIN Phases : Phases[i] = Phases[j] => i = j
  /\ \A i \in DOMAIN Phases : Phases[i] \in Sensor
  /\ \A p \in Sensor : \E i \in DOMAIN Phases : Phases[i] = p
<1>1. Phases \in Seq(Sensor) /\ Phases # <<>>
  BY PhasesAssumption
<1>2. Len(Phases) \in Nat /\ Len(Phases) > 0
  BY <1>1, EmptySeq
<1>3. DOMAIN Phases = 1..Len(Phases)
  BY <1>1
<1>4. \A p \in Sensor : \E i \in DOMAIN Phases : Phases[i] = p
  BY DEF Sensor
<1>5. QED
  BY <1>1, <1>2, <1>3, <1>4, VoltageAssumption, BoundsAssumption, PhasesAssumption DEF Sensor

\* A value is a reading out of range, one in range, or none.
LEMMA RangeIs ==
  ASSUME NEW v \in Voltages \cup {Null}
  PROVE  /\ v # Null => /\ v \in Voltages /\ (OutOfRange(v) <=> IsOut(v))
                        /\ (InRange(v) <=> ~IsOut(v))
         /\ v = Null => ~OutOfRange(v)
         /\ ~(OutOfRange(v) /\ InRange(v))
         /\ InRange(v) => v # Null
BY Constants DEF OutOfRange, IsOut, InRange

\* The variables.
LEMMA Types ==
  ASSUME TypeInv
  PROVE  /\ samples \in Seq(SampleSet) /\ Len(samples) \in Nat /\ DOMAIN samples = 1..Len(samples)
         /\ events \in Seq(Event) /\ Len(events) \in Nat /\ DOMAIN events = 1..Len(events)
         /\ \A k \in DOMAIN samples :
              /\ k \in Nat /\ samples[k] \in SampleSet /\ samples[k].phase \in Sensor
              /\ samples[k].v \in Voltages \cup {Null}
         /\ \A e \in DOMAIN events :
              /\ e \in Nat /\ events[e] \in Event
              /\ events[e].start \in DOMAIN samples /\ events[e].end \in Nat
              /\ events[e].end <= Len(samples)
         /\ cursor.last \in Nat /\ cursor.last <= Len(samples)
         /\ cursor.ongoing \in [Sensor -> 0..Len(events)]
         /\ R \in RunType /\ R.last \in Nat /\ R.last <= Len(samples)
         /\ R.maxSeen \in Nat /\ R.maxSeen <= Len(samples) /\ R.i \in Nat
         /\ R.ongoing \in [Sensor -> 0..Len(events)] /\ R.event \in 0..Len(events)
         /\ R.rows \subseteq DOMAIN samples
         /\ seen \subseteq DOMAIN samples
<1>1. "daemon" \in Analysers
  BY DEF Analysers
<1> DEFINE E == [phase: Sensor, start: 1..Len(samples), end: 0..Len(samples),
                 lo: Voltages, hi: Voltages]
<1>2. samples \in Seq(SampleSet) /\ events \in Seq(E)
  BY DEF TypeInv, TypeOK, SampleSet
<1> HIDE DEF E
<1>3. Len(samples) \in Nat /\ DOMAIN samples = 1..Len(samples)
      /\ Len(events) \in Nat /\ DOMAIN events = 1..Len(events)
  BY <1>2
<1>4. \A k \in DOMAIN samples : k \in Nat /\ samples[k] \in SampleSet
  BY <1>2, <1>3, ElementOfSeq
<1>5. \A e \in DOMAIN events : e \in Nat /\ events[e] \in E
  BY <1>2, <1>3, ElementOfSeq
<1>6. E \subseteq Event
  BY <1>3 DEF Event, E
<1>7. events \in Seq(Event)
  BY <1>2, <1>6, SeqMonotonic
<1>8. /\ cursor.last \in Nat /\ cursor.last <= Len(samples)
      /\ cursor.ongoing \in [Sensor -> 0..Len(events)]
      /\ seen \subseteq DOMAIN samples
  BY <1>3 DEF TypeInv, TypeOK, EventID
<1>9. /\ R \in RunType /\ R.last \in Nat /\ R.last <= Len(samples)
      /\ R.maxSeen \in Nat /\ R.maxSeen <= Len(samples) /\ R.i \in Nat
      /\ R.ongoing \in [Sensor -> 0..Len(events)] /\ R.event \in 0..Len(events)
      /\ R.rows \subseteq DOMAIN samples
  <2>1. R \in RunType
    BY <1>1 DEF TypeInv, R
  <2>2. /\ R.last \in 0..Len(samples) /\ R.maxSeen \in 0..Len(samples)
        /\ R.ongoing \in [Sensor -> EventID] /\ R.event \in EventID
        /\ R.rows \subseteq 1..Len(samples)
    BY <1>1 DEF TypeInv, TypeOK, R
  <2>3. R.i \in Nat
    BY <2>1, Constants DEF RunType
  <2>4. QED
    BY <1>3, <2>1, <2>2, <2>3 DEF EventID
<1>10. \A k \in DOMAIN samples : samples[k].phase \in Sensor /\ samples[k].v \in Voltages \cup {Null}
  BY <1>4 DEF SampleSet
<1>11. \A e \in DOMAIN events : /\ events[e] \in Event /\ events[e].start \in DOMAIN samples
                                /\ events[e].end \in Nat /\ events[e].end <= Len(samples)
  BY <1>3, <1>5, <1>6 DEF E
<1>12. QED
  BY <1>2, <1>3, <1>4, <1>5, <1>7, <1>8, <1>9, <1>10, <1>11

\* A step of the run.
LEMMA RunStep ==
  ASSUME TypeInv, Offline = FALSE, NEW x \in RunType, run' = [run EXCEPT !["daemon"] = x]
  PROVE  R' = x /\ run' \in [Analysers -> RunType]
<1>1. Analysers = {"daemon"} /\ run \in [Analysers -> RunType]
  BY DEF Analysers, TypeInv
<1>2. QED
  BY <1>1 DEF R

\* The types, from those of the run of the daemon.
LEMMA TypesFrom ==
  ASSUME TypeInv, Offline = FALSE, run' \in [Analysers -> RunType],
         samples' = samples, Len(events') >= Len(events), Len(events') \in Nat,
         events' \in Seq(Event),
         \A e \in DOMAIN events' : events'[e].start \in DOMAIN samples /\ events'[e].end <= Len(samples),
         cursor'.last \in 0..Len(samples), cursor'.ongoing \in [Sensor -> 0..Len(events')],
         cursor' \in [last: Nat, ongoing: [Sensor -> Nat]],
         seen' \subseteq DOMAIN samples, aborts' \in 0..MaxAborts,
         R'.last \in 0..Len(samples), R'.maxSeen \in 0..Len(samples),
         R'.ongoing \in [Sensor -> 0..Len(events')], R'.event \in 0..Len(events'),
         R'.rows \subseteq DOMAIN samples,
         R'.count # 0 => R'.lo \in Voltages /\ R'.hi \in Voltages
  PROVE  TypeInv'
<1>1. Analysers = {"daemon"}
  BY DEF Analysers
<1>2. /\ Len(samples) \in Nat /\ DOMAIN samples = 1..Len(samples)
  BY Types
<1> DEFINE E == [phase: Sensor, start: 1..Len(samples), end: 0..Len(samples),
                 lo: Voltages, hi: Voltages]
<1>3. events' \in Seq(E)
  <2>1. events' \in [1..Len(events') -> Event] /\ DOMAIN events' = 1..Len(events')
    OBVIOUS
  <2>2. ASSUME NEW e \in 1..Len(events') PROVE events'[e] \in E
    <3>1. PICK x \in Event : x = events'[e]
      BY <2>1
    <3>2. x.start \in 1..Len(samples) /\ x.end \in 0..Len(samples)
      <4>1. x.end \in Nat /\ x.end <= Len(samples) /\ x.start \in DOMAIN samples
        BY <2>1, <3>1 DEF Event
      <4>2. QED
        BY <1>2, <4>1
    <3>3. x \in E
      BY <3>2 DEF Event
    <3>4. QED
      BY <3>1, <3>3
  <2> HIDE DEF E
  <2>3. events' \in [1..Len(events') -> E]
    BY <2>1, <2>2
  <2>4. QED
    BY <2>3, SeqDef
<1>4. run'["daemon"] \in RunType /\ run'["daemon"] = R'
  BY <1>1 DEF R
<1>5. TypeOK'
  <2>1. cursor' \in [last: 0..Len(samples), ongoing: [Sensor -> 0..Len(events')]]
    OBVIOUS
  <2>2. samples' \in Seq([phase: Sensor, v: Voltages \cup {Null}])
    BY DEF TypeInv, TypeOK
  <2>3. \A a \in Analysers :
          /\ run'[a].pc \in {"idle", "fetch", "scan", "save"}
          /\ run'[a].last \in 0..Len(samples) /\ run'[a].maxSeen \in 0..Len(samples)
          /\ run'[a].ongoing \in [Sensor -> 0..Len(events')] /\ run'[a].event \in 0..Len(events')
          /\ run'[a].i \in 1..(Len(Phases) + 1)
          /\ run'[a].rows \subseteq 1..Len(samples)
    BY <1>1, <1>2, <1>4 DEF RunType
  <2>4. QED
    BY <1>2, <1>3, <2>1, <2>2, <2>3 DEF TypeOK, EventID
<1>6. QED
  BY <1>5 DEF TypeInv

\* The run at rest.
LEMMA IdleIs == Idle \in RunType /\ Idle.pc = "idle" /\ Idle.count = 0
<1>1. 1 \in 1..(Len(Phases) + 1)
  BY Constants
<1>2. QED
  BY <1>1 DEF Idle, RunType

\* What looking at one sample comes to.
LEMMA ScanIs ==
  ASSUME TypeInv, Offline = FALSE, Scan("daemon")
  PROVE  /\ R.pc = "scan" /\ UNCHANGED <<samples, cursor, aborts>>
         /\ R' \in RunType /\ run' \in [Analysers -> RunType]
         /\ \E k \in R.rows :
              /\ k \in DOMAIN samples /\ \A j \in R.rows : k <= j
              /\ seen' = seen \cup {k}
              /\ R'.pc = "scan" /\ R'.last = R.last /\ R'.ongoing = R.ongoing /\ R'.i = R.i
              /\ R'.rows = R.rows \ {k}
              /\ R'.maxSeen \in {R.maxSeen, k} /\ R'.maxSeen >= R.maxSeen /\ R'.maxSeen >= k
              /\ R'.count # 0 => R'.lo \in Voltages /\ R'.hi \in Voltages
              /\ \/ /\ samples[k].v # Null => InRange(samples[k].v) /\ R.event = 0
                    /\ events' = events /\ R'.event = R.event
                 \/ /\ OutOfRange(samples[k].v) /\ R.event = 0
                    /\ R'.event = Len(events) + 1
                    /\ \E new \in Event :
                         /\ events' = Append(events, new)
                         /\ new.phase = samples[k].phase /\ new.start = k /\ new.end = 0
                 \/ /\ OutOfRange(samples[k].v) /\ R.event # 0 /\ R'.event = R.event
                    /\ \E new \in Event :
                         /\ events' = [events EXCEPT ![R.event] = new]
                         /\ new.phase = events[R.event].phase /\ new.start = events[R.event].start
                         /\ new.end = events[R.event].end
                 \/ /\ InRange(samples[k].v) /\ R.event # 0 /\ R'.event = 0
                    /\ \E new \in Event :
                         /\ events' = [events EXCEPT ![R.event] = new]
                         /\ new.phase = events[R.event].phase /\ new.start = events[R.event].start
                         /\ new.end = k
<1>1. /\ DOMAIN samples = 1..Len(samples) /\ Len(samples) \in Nat
      /\ Len(events) \in Nat /\ DOMAIN events = 1..Len(events)
      /\ \A k \in DOMAIN samples : /\ k \in Nat /\ samples[k].phase \in Sensor
                                   /\ samples[k].v \in Voltages \cup {Null}
      /\ \A e \in DOMAIN events : events[e] \in Event
      /\ R \in RunType /\ R.maxSeen \in Nat /\ R.event \in 0..Len(events)
      /\ R.rows \subseteq DOMAIN samples
  BY Types
<1>2. R.pc = "scan" /\ R.rows # {} /\ UNCHANGED <<samples, cursor, aborts>>
  BY DEF Scan, R
<1> DEFINE k0 == Min(R.rows)
<1>3. k0 \in R.rows /\ \A j \in R.rows : k0 <= j
  <2>1. R.rows \in SUBSET Nat
    BY <1>1
  <2>2. QED
    BY <1>2, <2>1, MinIs
<1>4. PICK k \in R.rows : k = k0
  BY <1>3
<1> DEFINE v == samples[k].v
           m == Max({R.maxSeen, k})
           x == Extremes("daemon", v)
           next == [R EXCEPT !.rows = @ \ {k}, !.maxSeen = m]
<1>5. k \in DOMAIN samples /\ k \in Nat /\ \A j \in R.rows : k <= j
  BY <1>1, <1>3, <1>4
<1>6. m \in {R.maxSeen, k} /\ m >= R.maxSeen /\ m >= k /\ m \in Nat
  BY <1>1, <1>5, OfTwo
<1>7. v \in Voltages \cup {Null}
  BY <1>1, <1>5
<1>8. ASSUME v \in Voltages PROVE x = [lo |-> x.lo, hi |-> x.hi] /\ x.lo \in Voltages /\ x.hi \in Voltages
  <2>1. CASE R.event = 0 \/ R.count = 0
    BY <1>8, <2>1 DEF Extremes, R
  <2>2. CASE ~(R.event = 0 \/ R.count = 0)
    <3>1. x = [lo |-> Min({v, R.lo}), hi |-> Max({v, R.hi})]
      BY <2>2 DEF Extremes, R
    <3>2. R.lo \in Voltages /\ R.hi \in Voltages
      BY <2>2 DEF TypeInv
    <3>3. Min({v, R.lo}) \in {v, R.lo} /\ Max({v, R.hi}) \in {v, R.hi}
      BY <1>8, <3>2, OfTwo, Constants
    <3> HIDE DEF v
    <3>4. Min({v, R.lo}) \in Voltages /\ Max({v, R.hi}) \in Voltages
      BY <1>8, <3>2, <3>3
    <3>5. QED
      BY <3>1, <3>4
  <2>3. QED
    BY <2>1, <2>2
<1>9. seen' = seen \cup {k}
      /\ \/ v = Null /\ run' = [run EXCEPT !["daemon"] = next] /\ UNCHANGED events
         \/ /\ v # Null /\ IsOut(v) /\ R.event = 0
            /\ InsertVoltageEvent(k, x)
            /\ run' = [run EXCEPT !["daemon"] = [next EXCEPT !.event = Len(events) + 1,
                                          !.lo = x.lo, !.hi = x.hi, !.count = 1]]
         \/ /\ v # Null /\ IsOut(v) /\ R.event # 0
            /\ UpdateVoltageEvent(R.event, x)
            /\ run' = [run EXCEPT !["daemon"] = [next EXCEPT !.lo = x.lo, !.hi = x.hi, !.count = 1]]
         \/ v # Null /\ ~IsOut(v) /\ R.event = 0 /\ run' = [run EXCEPT !["daemon"] = next] /\ UNCHANGED events
         \/ /\ v # Null /\ ~IsOut(v) /\ R.event # 0
            /\ CloseVoltageEvent(R.event, k)
            /\ run' = [run EXCEPT !["daemon"] = [next EXCEPT !.event = 0]]
  BY <1>4 DEF Scan, R
<1>a. seen' = seen \cup {k}
  BY <1>9
<1>10. /\ next \in RunType /\ next.pc = "scan" /\ next.last = R.last /\ next.ongoing = R.ongoing
       /\ next.i = R.i /\ next.rows = R.rows \ {k} /\ next.maxSeen = m /\ next.event = R.event
       /\ next.count = R.count /\ next.lo = R.lo /\ next.hi = R.hi
  BY <1>1, <1>2, <1>6 DEF RunType
<1> HIDE DEF next
<1>11. CASE (v = Null \/ (v # Null /\ ~IsOut(v) /\ R.event = 0))
            /\ run' = [run EXCEPT !["daemon"] = next] /\ UNCHANGED events
  <2>1. R' = next /\ run' \in [Analysers -> RunType]
    BY <1>10, <1>11, RunStep
  <2>2. v # Null => InRange(v) /\ R.event = 0
    BY <1>7, <1>11, RangeIs
  <2>3. R'.count # 0 => R'.lo \in Voltages /\ R'.hi \in Voltages
    BY <1>10, <2>1 DEF TypeInv
  <2>4. QED
    BY <1>2, <1>5, <1>6, <1>9, <1>10, <1>11, <2>1, <2>2, <2>3
<1>12. CASE /\ v # Null /\ IsOut(v) /\ R.event = 0
            /\ InsertVoltageEvent(k, x)
            /\ run' = [run EXCEPT !["daemon"] = [next EXCEPT !.event = Len(events) + 1,
                                          !.lo = x.lo, !.hi = x.hi, !.count = 1]]
  <2> DEFINE r == [next EXCEPT !.event = Len(events) + 1, !.lo = x.lo, !.hi = x.hi, !.count = 1]
             new == [phase |-> samples[k].phase, start |-> k, end |-> 0, lo |-> x.lo, hi |-> x.hi]
  <2>1. v \in Voltages /\ OutOfRange(v)
    BY <1>7, <1>12, RangeIs
  <2>2. x.lo \in Voltages /\ x.hi \in Voltages /\ x.lo \in Int /\ x.hi \in Int
    BY <1>8, <2>1, Constants
  <2> HIDE DEF x
  <2>3. /\ r \in RunType /\ r.pc = "scan" /\ r.last = R.last /\ r.ongoing = R.ongoing
        /\ r.i = R.i /\ r.rows = R.rows \ {k} /\ r.maxSeen = m /\ r.event = Len(events) + 1
        /\ r.lo = x.lo /\ r.hi = x.hi
    <3>1. next \in RunType /\ Len(events) + 1 \in Nat
      BY <1>1, <1>10
    <3>2. r \in RunType /\ r.lo = x.lo /\ r.hi = x.hi /\ r.event = Len(events) + 1
      BY <2>2, <3>1 DEF RunType
    <3>3. /\ r.pc = next.pc /\ r.last = next.last /\ r.ongoing = next.ongoing /\ r.i = next.i
          /\ r.rows = next.rows /\ r.maxSeen = next.maxSeen
      BY <3>1 DEF RunType
    <3>4. QED
      BY <1>10, <3>2, <3>3
  <2>4. new \in Event /\ new.phase = samples[k].phase /\ new.start = k /\ new.end = 0
    BY <1>1, <1>5, <2>2 DEF Event
  <2>5. events' = Append(events, new)
    BY <1>12 DEF InsertVoltageEvent
  <2> HIDE DEF r, new
  <2>6. R' = r /\ run' \in [Analysers -> RunType]
    BY <1>12, <2>3, RunStep DEF r
  <2>7. R.event = 0
    BY <1>12
  <2>8. QED
    BY <1>2, <1>5, <1>6, <1>a, <2>1, <2>2, <2>3, <2>4, <2>5, <2>6, <2>7
<1>13. CASE /\ v # Null /\ IsOut(v) /\ R.event # 0
            /\ UpdateVoltageEvent(R.event, x)
            /\ run' = [run EXCEPT !["daemon"] = [next EXCEPT !.lo = x.lo, !.hi = x.hi, !.count = 1]]
  <2> DEFINE r == [next EXCEPT !.lo = x.lo, !.hi = x.hi, !.count = 1]
             new == [events[R.event] EXCEPT !.lo = x.lo, !.hi = x.hi]
  <2>1. v \in Voltages /\ OutOfRange(v)
    BY <1>7, <1>13, RangeIs
  <2>2. x.lo \in Voltages /\ x.hi \in Voltages /\ x.lo \in Int /\ x.hi \in Int
    BY <1>8, <2>1, Constants
  <2> HIDE DEF x
  <2>3. /\ r \in RunType /\ r.pc = "scan" /\ r.last = R.last /\ r.ongoing = R.ongoing
        /\ r.i = R.i /\ r.rows = R.rows \ {k} /\ r.maxSeen = m /\ r.event = R.event
        /\ r.lo = x.lo /\ r.hi = x.hi
    <3>1. next \in RunType
      BY <1>10
    <3>2. r \in RunType /\ r.lo = x.lo /\ r.hi = x.hi
      BY <2>2, <3>1 DEF RunType
    <3>3. /\ r.pc = next.pc /\ r.last = next.last /\ r.ongoing = next.ongoing /\ r.i = next.i
          /\ r.rows = next.rows /\ r.maxSeen = next.maxSeen /\ r.event = next.event
      BY <3>1 DEF RunType
    <3>4. QED
      BY <1>10, <3>2, <3>3
  <2>4. /\ new \in Event /\ new.phase = events[R.event].phase /\ new.start = events[R.event].start
        /\ new.end = events[R.event].end
    <3>1. R.event \in DOMAIN events
      BY <1>1, <1>13
    <3>2. events[R.event] \in Event
      BY <1>1, <3>1
    <3>3. QED
      BY <2>2, <3>2 DEF Event
  <2>5. events' = [events EXCEPT ![R.event] = new]
    BY <1>13 DEF UpdateVoltageEvent
  <2> HIDE DEF r, new
  <2>6. R' = r /\ run' \in [Analysers -> RunType]
    BY <1>13, <2>3, RunStep DEF r
  <2>7. R.event # 0
    BY <1>13
  <2>8. QED
    BY <1>2, <1>5, <1>6, <1>a, <2>1, <2>2, <2>3, <2>4, <2>5, <2>6, <2>7
<1>14. CASE /\ v # Null /\ ~IsOut(v) /\ R.event # 0
            /\ CloseVoltageEvent(R.event, k)
            /\ run' = [run EXCEPT !["daemon"] = [next EXCEPT !.event = 0]]
  <2> DEFINE r == [next EXCEPT !.event = 0]
             new == [events[R.event] EXCEPT !.end = k]
  <2>1. InRange(v)
    BY <1>7, <1>14, RangeIs
  <2>2. R'.count # 0 => R'.lo \in Voltages /\ R'.hi \in Voltages
    <3>1. r.count = R.count /\ r.lo = R.lo /\ r.hi = R.hi /\ r \in RunType
      BY <1>10 DEF RunType
    <3>2. R' = r
      BY <1>14, <3>1, RunStep
    <3>3. QED
      BY <3>1, <3>2 DEF TypeInv
  <2>3. /\ r \in RunType /\ r.pc = "scan" /\ r.last = R.last /\ r.ongoing = R.ongoing
        /\ r.i = R.i /\ r.rows = R.rows \ {k} /\ r.maxSeen = m /\ r.event = 0
    BY <1>1, <1>10 DEF RunType
  <2>4. /\ new \in Event /\ new.phase = events[R.event].phase /\ new.start = events[R.event].start
        /\ new.end = k
    <3>1. R.event \in DOMAIN events
      BY <1>1, <1>14
    <3>2. events[R.event] \in Event
      BY <1>1, <3>1
    <3>3. QED
      BY <1>5, <3>2 DEF Event
  <2>5. events' = [events EXCEPT ![R.event] = new]
    BY <1>14 DEF CloseVoltageEvent
  <2> HIDE DEF r, new
  <2>6. R' = r /\ run' \in [Analysers -> RunType]
    BY <1>14, <2>3, RunStep DEF r
  <2>7. R.event # 0
    BY <1>14
  <2>8. QED
    BY <1>2, <1>5, <1>6, <1>a, <2>1, <2>2, <2>3, <2>4, <2>5, <2>6, <2>7
<1>15. QED
  BY <1>9, <1>11, <1>12, <1>13, <1>14

\* GetVoltageAnalysisCursor.
LEMMA BeginIs ==
  ASSUME TypeInv, Offline = FALSE, Begin("daemon")
  PROVE  /\ R.pc = "idle" /\ UNCHANGED <<samples, events, cursor, seen, aborts>>
         /\ run' \in [Analysers -> RunType]
         /\ R'.pc = "fetch" /\ R'.last = cursor.last /\ R'.maxSeen = cursor.last
         /\ R'.ongoing = cursor.ongoing /\ R'.i = 1 /\ R'.rows = {} /\ R'.event = 0 /\ R'.count = 0
<1> DEFINE x == [Idle EXCEPT !.pc = "fetch", !.last = cursor.last, !.maxSeen = cursor.last,
                             !.ongoing = cursor.ongoing]
<1>1. cursor.last \in Nat /\ cursor.ongoing \in [Sensor -> Nat]
  BY Types
<1>2. 1 \in 1..(Len(Phases) + 1)
  BY Constants
<1>3. /\ x \in RunType /\ x.pc = "fetch" /\ x.last = cursor.last /\ x.maxSeen = cursor.last
      /\ x.ongoing = cursor.ongoing /\ x.i = 1 /\ x.rows = {} /\ x.event = 0 /\ x.count = 0
  <2>1. Idle.i = 1 /\ Idle.rows = {} /\ Idle.event = 0 /\ Idle.count = 0
    BY DEF Idle
  <2>2. Idle \in RunType
    BY IdleIs
  <2>3. QED
    BY <1>1, <2>1, <2>2 DEF RunType
<1>4. /\ R.pc = "idle" /\ UNCHANGED <<samples, events, cursor, seen, aborts>>
      /\ run' = [run EXCEPT !["daemon"] = x]
  BY DEF Begin, R
<1> HIDE DEF x
<1>5. QED
  BY <1>3, <1>4, RunStep

\* The start of a sensor's turn.
LEMMA FetchIs ==
  ASSUME TypeInv, RunInv, Offline = FALSE, Fetch("daemon")
  PROVE  /\ R.pc = "fetch" /\ UNCHANGED <<samples, events, cursor, seen, aborts>>
         /\ run' \in [Analysers -> RunType] /\ R.i \in DOMAIN Phases
         /\ R'.pc = "scan" /\ R'.last = R.last /\ R'.maxSeen = R.maxSeen
         /\ R'.ongoing = R.ongoing /\ R'.i = R.i /\ R'.rows = NewRows(Phases[R.i], R.last)
         /\ R'.event = R.ongoing[Phases[R.i]] /\ R'.count = 0
<1> DEFINE p == Phases[R.i]
           x == [R EXCEPT !.pc = "scan", !.rows = NewRows(p, R.last), !.event = R.ongoing[p],
                          !.count = 0]
<1>1. /\ R.pc = "fetch" /\ UNCHANGED <<samples, events, cursor, seen, aborts>>
      /\ run' = [run EXCEPT !["daemon"] = x]
  <2>1. "daemon" \in DOMAIN run
    BY DEF TypeInv, Analysers
  <2>2. run' = [run EXCEPT !["daemon"] = [run["daemon"] EXCEPT !.pc = "scan",
                              !.rows = NewRows(p, R.last), !.event = R.ongoing[p], !.count = 0]]
    BY <2>1 DEF Fetch, R
  <2>3. QED
    BY <2>2 DEF Fetch, R
<1>2. R.i \in DOMAIN Phases
  BY <1>1 DEF RunInv
<1>3. /\ R \in RunType /\ p \in Sensor /\ R.ongoing[p] \in Nat /\ NewRows(p, R.last) \subseteq Nat
  <2>1. R \in RunType /\ p \in Sensor
    BY <1>2, Types, Constants
  <2>2. R.ongoing[p] \in Nat
    BY <2>1 DEF RunType
  <2>3. NewRows(p, R.last) \subseteq Nat
    BY Types DEF NewRows
  <2>4. QED
    BY <2>1, <2>2, <2>3
<1>4. /\ x \in RunType /\ x.pc = "scan" /\ x.last = R.last /\ x.maxSeen = R.maxSeen
      /\ x.ongoing = R.ongoing /\ x.i = R.i /\ x.rows = NewRows(p, R.last)
      /\ x.event = R.ongoing[p] /\ x.count = 0
  <2> HIDE DEF p
  <2>1. QED
    BY <1>3 DEF RunType
<1> HIDE DEF x
<1>5. QED
  BY <1>1, <1>2, <1>4, RunStep

\* The end of a sensor's turn.
LEMMA NextSensorIs ==
  ASSUME TypeInv, RunInv, Offline = FALSE, NextSensor("daemon")
  PROVE  /\ R.pc = "scan" /\ R.rows = {} /\ UNCHANGED <<samples, events, cursor, seen, aborts>>
         /\ run' \in [Analysers -> RunType] /\ R.i \in DOMAIN Phases
         /\ R'.pc = (IF R.i = Len(Phases) THEN "save" ELSE "fetch")
         /\ R'.last = R.last /\ R'.maxSeen = R.maxSeen /\ R'.rows = {} /\ R'.i = R.i + 1
         /\ R'.ongoing = [R.ongoing EXCEPT ![Phases[R.i]] = R.event]
         /\ R'.event = R.event /\ R'.lo = R.lo /\ R'.hi = R.hi /\ R'.count = R.count
<1> DEFINE p == Phases[R.i]
           x == [R EXCEPT !.ongoing[p] = R.event, !.i = R.i + 1,
                          !.pc = IF R.i = Len(Phases) THEN "save" ELSE "fetch"]
<1>1. /\ R.pc = "scan" /\ R.rows = {} /\ UNCHANGED <<samples, events, cursor, seen, aborts>>
      /\ run' = [run EXCEPT !["daemon"] = x]
  BY DEF NextSensor, R
<1>2. R.i \in DOMAIN Phases
  BY <1>1 DEF RunInv
<1>3. /\ R \in RunType /\ p \in Sensor /\ R.event \in Nat /\ R.i + 1 \in 1..(Len(Phases) + 1)
      /\ R.ongoing \in [Sensor -> Nat]
  <2>1. R \in RunType
    BY Types
  <2>2. p \in Sensor /\ R.i \in 1..Len(Phases) /\ Len(Phases) \in Nat
    BY <1>2, Constants
  <2>3. R.i + 1 \in 1..(Len(Phases) + 1)
    BY <2>2
  <2>4. QED
    BY <2>1, <2>2, <2>3 DEF RunType
<1>4. [R.ongoing EXCEPT ![p] = R.event] \in [Sensor -> Nat]
  BY <1>3
<1>5. x = [R EXCEPT !.ongoing = [R.ongoing EXCEPT ![p] = R.event], !.i = R.i + 1,
                    !.pc = IF R.i = Len(Phases) THEN "save" ELSE "fetch"]
  BY <1>3 DEF RunType
<1> DEFINE o == [R.ongoing EXCEPT ![p] = R.event]
<1> HIDE DEF x, o
<1>6. o \in [Sensor -> Nat] /\ x = [R EXCEPT !.ongoing = o, !.i = R.i + 1,
                    !.pc = IF R.i = Len(Phases) THEN "save" ELSE "fetch"]
  BY <1>4, <1>5 DEF o
<1>7. /\ x \in RunType /\ x.pc = (IF R.i = Len(Phases) THEN "save" ELSE "fetch")
      /\ x.last = R.last /\ x.maxSeen = R.maxSeen /\ x.rows = R.rows /\ x.i = R.i + 1
      /\ x.ongoing = o /\ x.event = R.event /\ x.lo = R.lo /\ x.hi = R.hi /\ x.count = R.count
  <2> HIDE DEF p
  <2>1. QED
    BY <1>3, <1>6 DEF RunType
<1>8. QED
  BY <1>1, <1>2, <1>7, RunStep DEF o

\* SaveVoltageAnalysisCursor.
LEMMA SaveIs ==
  ASSUME TypeInv, Offline = FALSE, Save("daemon")
  PROVE  /\ R.pc = "save" /\ UNCHANGED <<samples, events, seen, aborts>>
         /\ cursor' = [last |-> R.maxSeen, ongoing |-> R.ongoing]
         /\ cursor'.last = R.maxSeen /\ cursor'.ongoing = R.ongoing
         /\ run' \in [Analysers -> RunType] /\ R' = Idle /\ R'.pc = "idle"
<1>1. /\ R.pc = "save" /\ UNCHANGED <<samples, events, seen, aborts>>
      /\ cursor' = [last |-> R.maxSeen, ongoing |-> R.ongoing]
      /\ run' = [run EXCEPT !["daemon"] = Idle]
  BY DEF Save, R
<1>2. run' \in [Analysers -> RunType] /\ R' = Idle
  BY <1>1, IdleIs, RunStep
<1>3. R'.pc = "idle"
  BY <1>2, IdleIs
<1>4. cursor'.last = R.maxSeen /\ cursor'.ongoing = R.ongoing
  BY <1>1
<1>5. QED
  BY <1>1, <1>2, <1>3, <1>4

\* A run that is cut short.
LEMMA AbortIs ==
  ASSUME TypeInv, Offline = FALSE, Abort("daemon")
  PROVE  /\ R.pc # "idle" /\ UNCHANGED <<samples, events, cursor, seen>>
         /\ aborts < MaxAborts /\ aborts' = aborts + 1
         /\ run' \in [Analysers -> RunType] /\ R' = Idle
BY IdleIs, RunStep DEF Abort, R

\* InsertSample happens between runs.
LEMMA InsertIs ==
  ASSUME TypeInv, NEW p \in Sensor, NEW v \in Voltages \cup {Null}, InsertSample(p, v)
  PROVE  /\ R.pc = "idle" /\ R' = R /\ UNCHANGED <<events, cursor, run, seen, aborts>>
         /\ samples' \in Seq(SampleSet) /\ Len(samples') = Len(samples) + 1
         /\ DOMAIN samples' = 1..(Len(samples) + 1)
         /\ \A k \in DOMAIN samples : samples'[k] = samples[k]
<1> DEFINE new == [phase |-> p, v |-> v]
<1>1. new \in SampleSet
  BY DEF SampleSet
<1>2. R.pc = "idle" /\ samples' = Append(samples, new) /\ UNCHANGED <<events, cursor, run, seen, aborts>>
  BY DEF InsertSample, R
<1> HIDE DEF new
<1>3. samples \in Seq(SampleSet) /\ DOMAIN samples = 1..Len(samples)
  BY Types
<1>4. QED
  BY <1>1, <1>2, <1>3, AppendProperties DEF R

\* The steps of the daemon alone.
LEMMA Steps ==
  ASSUME Offline = FALSE, Next
  PROVE  \/ \E p \in Sensor, v \in Voltages \cup {Null} : InsertSample(p, v)
         \/ Begin("daemon") \/ Fetch("daemon") \/ Scan("daemon") \/ NextSensor("daemon")
         \/ Save("daemon") \/ Abort("daemon")
BY DEF Next, Analysers, Analyse

-----------------------------------------------------------------------------
(* Each part of the invariant is kept.                                     *)

\* The events after a sample has been looked at: one more, or one changed.
LEMMA EventsAppended ==
  ASSUME TypeInv, NEW new \in Event, events' = Append(events, new)
  PROVE  /\ events' \in Seq(Event) /\ Len(events') = Len(events) + 1
         /\ DOMAIN events' = DOMAIN events \cup {Len(events) + 1}
         /\ Len(events) + 1 \notin DOMAIN events /\ Len(events) + 1 # 0
         /\ events'[Len(events) + 1] = new /\ \A e \in DOMAIN events : events'[e] = events[e]
<1>1. events \in Seq(Event) /\ Len(events) \in Nat /\ DOMAIN events = 1..Len(events)
  BY Types
<1>2. /\ events' \in Seq(Event) /\ Len(events') = Len(events) + 1
      /\ events'[Len(events) + 1] = new /\ \A e \in 1..Len(events) : events'[e] = events[e]
  BY <1>1, AppendProperties
<1>3. DOMAIN events' = 1..(Len(events) + 1)
  BY <1>2
<1>4. QED
  BY <1>1, <1>2, <1>3

\* The same for the event under way.
LEMMA EventsChanged ==
  ASSUME TypeInv, R.event # 0, NEW new \in Event, events' = [events EXCEPT ![R.event] = new]
  PROVE  /\ events' \in Seq(Event) /\ Len(events') = Len(events)
         /\ DOMAIN events' = DOMAIN events /\ R.event \in DOMAIN events
         /\ events'[R.event] = new
         /\ \A e \in DOMAIN events : e # R.event => events'[e] = events[e]
<1>1. /\ events \in Seq(Event) /\ Len(events) \in Nat /\ DOMAIN events = 1..Len(events)
      /\ R.event \in 0..Len(events)
  BY Types
<1>2. R.event \in 1..Len(events)
  BY <1>1
<1>3. PICK e0 \in 1..Len(events) : e0 = R.event
  BY <1>2
<1>4. /\ [events EXCEPT ![e0] = new] \in Seq(Event)
      /\ Len([events EXCEPT ![e0] = new]) = Len(events)
      /\ \A j \in 1..Len(events) : [events EXCEPT ![e0] = new][j] = IF j = e0 THEN new ELSE events[j]
  BY <1>1, ExceptSeq
<1>5. /\ events' \in Seq(Event) /\ Len(events') = Len(events)
      /\ \A j \in 1..Len(events) : events'[j] = IF j = e0 THEN new ELSE events[j]
  BY <1>3, <1>4
<1>6. DOMAIN events' = 1..Len(events)
  BY <1>5
<1>7. QED
  BY <1>1, <1>2, <1>3, <1>5, <1>6

\* The types are kept.
LEMMA TypeNext ==
  ASSUME TypeInv, RunInv, Offline = FALSE, [Next]_vars
  PROVE  TypeInv'
<1>1. /\ samples \in Seq(SampleSet) /\ Len(samples) \in Nat /\ DOMAIN samples = 1..Len(samples)
      /\ events \in Seq(Event) /\ Len(events) \in Nat /\ DOMAIN events = 1..Len(events)
      /\ \A e \in DOMAIN events :
           /\ events[e].start \in DOMAIN samples /\ events[e].end <= Len(samples)
      /\ cursor.last \in Nat /\ cursor.last <= Len(samples)
      /\ cursor.ongoing \in [Sensor -> 0..Len(events)]
      /\ R \in RunType /\ R.last \in Nat /\ R.last <= Len(samples)
      /\ R.maxSeen \in Nat /\ R.maxSeen <= Len(samples)
      /\ R.ongoing \in [Sensor -> 0..Len(events)] /\ R.event \in 0..Len(events)
      /\ R.rows \subseteq DOMAIN samples
      /\ seen \subseteq DOMAIN samples
  BY Types
<1>2. /\ cursor \in [last: Nat, ongoing: [Sensor -> Nat]] /\ aborts \in 0..MaxAborts
      /\ R.count # 0 => R.lo \in Voltages /\ R.hi \in Voltages
  <2>1. cursor \in [last: 0..Len(samples), ongoing: [Sensor -> 0..Len(events)]]
    BY DEF TypeInv, TypeOK, EventID
  <2>2. cursor \in [last: Nat, ongoing: [Sensor -> Nat]]
    BY <1>1, <2>1
  <2>3. QED
    BY <2>2 DEF TypeInv, TypeOK
<1>3. /\ cursor.last \in 0..Len(samples) /\ R.last \in 0..Len(samples)
      /\ R.maxSeen \in 0..Len(samples) /\ Len(events) >= Len(events)
      /\ 0 \in 0..Len(samples) /\ 0 \in 0..Len(events)
  BY <1>1
<1>4. ASSUME NEW p \in Sensor, NEW v \in Voltages \cup {Null}, InsertSample(p, v) PROVE TypeInv'
  <2>1. /\ R' = R /\ UNCHANGED <<events, cursor, run, seen, aborts>>
        /\ samples' \in Seq(SampleSet) /\ Len(samples') = Len(samples) + 1
    BY <1>4, InsertIs
  <2>2. 0..Len(samples) \subseteq 0..Len(samples') /\ 1..Len(samples) \subseteq 1..Len(samples')
    BY <1>1, <2>1
  <2>3. events \in Seq([phase: Sensor, start: 1..Len(samples'), end: 0..Len(samples'),
                        lo: Voltages, hi: Voltages])
    <3> DEFINE E(n) == [phase: Sensor, start: 1..n, end: 0..n, lo: Voltages, hi: Voltages]
    <3>1. events \in Seq(E(Len(samples)))
      BY DEF TypeInv, TypeOK
    <3>2. E(Len(samples)) \subseteq E(Len(samples'))
      BY <2>2
    <3> HIDE DEF E
    <3>3. events \in Seq(E(Len(samples')))
      BY <3>1, <3>2, SeqMonotonic
    <3>4. QED
      BY <3>3 DEF E
  <2>4. cursor \in [last: 0..Len(samples'), ongoing: [Sensor -> EventID]]
    BY <2>2 DEF TypeInv, TypeOK
  <2>5. \A a \in Analysers :
          /\ run[a].pc \in {"idle", "fetch", "scan", "save"}
          /\ run[a].last \in 0..Len(samples') /\ run[a].maxSeen \in 0..Len(samples')
          /\ run[a].ongoing \in [Sensor -> EventID] /\ run[a].event \in EventID
          /\ run[a].i \in 1..(Len(Phases) + 1)
          /\ run[a].rows \subseteq 1..Len(samples')
    BY <2>2 DEF TypeInv, TypeOK
  <2>6. TypeOK'
    BY <2>1, <2>2, <2>3, <2>4, <2>5 DEF TypeInv, TypeOK, EventID, SampleSet
  <2>7. QED
    BY <2>1, <2>6 DEF TypeInv
<1>5. ASSUME UNCHANGED <<samples, events, cursor, seen>>, run' \in [Analysers -> RunType],
             aborts' \in 0..MaxAborts, R'.last \in 0..Len(samples), R'.maxSeen \in 0..Len(samples),
             R'.ongoing \in [Sensor -> 0..Len(events)], R'.event \in 0..Len(events),
             R'.rows \subseteq DOMAIN samples,
             R'.count # 0 => R'.lo \in Voltages /\ R'.hi \in Voltages
      PROVE  TypeInv'
  BY <1>1, <1>2, <1>3, <1>5, TypesFrom
<1>6. CASE Begin("daemon")
  BY <1>1, <1>2, <1>3, <1>5, <1>6, BeginIs
<1>7. CASE Fetch("daemon")
  <2>1. /\ R.i \in DOMAIN Phases /\ UNCHANGED <<samples, events, cursor, seen, aborts>>
        /\ run' \in [Analysers -> RunType]
        /\ R'.last = R.last /\ R'.maxSeen = R.maxSeen
        /\ R'.ongoing = R.ongoing /\ R'.rows = NewRows(Phases[R.i], R.last)
        /\ R'.event = R.ongoing[Phases[R.i]] /\ R'.count = 0
    BY <1>7, FetchIs
  <2>2. R'.event \in 0..Len(events)
    BY <1>1, <2>1, Constants
  <2>3. R'.rows \subseteq DOMAIN samples
    BY <2>1 DEF NewRows
  <2>4. QED
    BY <1>1, <1>2, <1>3, <1>5, <2>1, <2>2, <2>3
<1>8. CASE NextSensor("daemon")
  <2>1. /\ R.i \in DOMAIN Phases /\ UNCHANGED <<samples, events, cursor, seen, aborts>>
        /\ run' \in [Analysers -> RunType]
        /\ R'.last = R.last /\ R'.maxSeen = R.maxSeen /\ R'.rows = {}
        /\ R'.ongoing = [R.ongoing EXCEPT ![Phases[R.i]] = R.event] /\ R'.event = R.event
        /\ R'.lo = R.lo /\ R'.hi = R.hi /\ R'.count = R.count
    BY <1>8, NextSensorIs
  <2>2. R'.ongoing \in [Sensor -> 0..Len(events)]
    BY <1>1, <2>1, Constants
  <2>3. QED
    BY <1>1, <1>2, <1>3, <1>5, <2>1, <2>2
<1>9. Idle.last = 0 /\ Idle.maxSeen = 0 /\ Idle.ongoing = [p \in Sensor |-> 0] /\ Idle.event = 0
      /\ Idle.rows = {} /\ Idle.count = 0
  BY DEF Idle
<1>10. [p \in Sensor |-> 0] \in [Sensor -> 0..Len(events)]
  BY <1>1
<1>11. CASE Abort("daemon")
  <2>1. aborts' \in 0..MaxAborts
    <3>1. aborts < MaxAborts /\ aborts' = aborts + 1
      BY <1>11, AbortIs
    <3>2. aborts \in 0..MaxAborts /\ MaxAborts \in Nat
      BY <1>2, Constants
    <3>3. QED
      BY <3>1, <3>2
  <2>2. UNCHANGED <<samples, events, cursor, seen>> /\ run' \in [Analysers -> RunType] /\ R' = Idle
    BY <1>11, AbortIs
  <2>3. QED
    BY <1>3, <1>5, <1>9, <1>10, <2>1, <2>2
<1>12. CASE Save("daemon")
  <2>1. /\ UNCHANGED <<samples, events, seen, aborts>> /\ run' \in [Analysers -> RunType] /\ R' = Idle
        /\ cursor' = [last |-> R.maxSeen, ongoing |-> R.ongoing]
    BY <1>12, SaveIs
  <2>2. /\ cursor'.last \in 0..Len(samples) /\ cursor'.ongoing \in [Sensor -> 0..Len(events)]
        /\ cursor' \in [last: Nat, ongoing: [Sensor -> Nat]]
    <3>1. R.ongoing \in [Sensor -> Nat]
      BY <1>1
    <3>2. QED
      BY <1>1, <1>3, <2>1, <3>1
  <2>3. QED
    BY <1>1, <1>2, <1>3, <1>9, <1>10, <2>1, <2>2, TypesFrom
<1>13. CASE Scan("daemon")
  <2>1. PICK k \in R.rows :
          /\ k \in DOMAIN samples
          /\ seen' = seen \cup {k}
          /\ R'.last = R.last /\ R'.ongoing = R.ongoing
          /\ R'.rows = R.rows \ {k}
          /\ R'.maxSeen \in {R.maxSeen, k}
          /\ R'.count # 0 => R'.lo \in Voltages /\ R'.hi \in Voltages
          /\ \/ events' = events /\ R'.event = R.event
             \/ /\ R'.event = Len(events) + 1
                /\ \E new \in Event :
                     /\ events' = Append(events, new)
                     /\ new.start = k /\ new.end = 0
             \/ /\ R.event # 0 /\ R'.event = R.event
                /\ \E new \in Event :
                     /\ events' = [events EXCEPT ![R.event] = new]
                     /\ new.start = events[R.event].start
                     /\ new.end = events[R.event].end
             \/ /\ R.event # 0 /\ R'.event = 0
                /\ \E new \in Event :
                     /\ events' = [events EXCEPT ![R.event] = new]
                     /\ new.start = events[R.event].start
                     /\ new.end = k
    BY <1>13, ScanIs
  <2>2. UNCHANGED <<samples, cursor, aborts>> /\ run' \in [Analysers -> RunType]
    BY <1>13, ScanIs
  <2>3. k \in Nat /\ k <= Len(samples) /\ k \in DOMAIN samples
    BY <1>1, <2>1
  <2>4. /\ events' \in Seq(Event) /\ Len(events') >= Len(events) /\ Len(events') \in Nat
        /\ R'.event \in 0..Len(events')
        /\ \A e \in DOMAIN events' : events'[e].start \in DOMAIN samples /\ events'[e].end <= Len(samples)
    <3>1. CASE events' = events /\ R'.event = R.event
      BY <1>1, <3>1
    <3>2. CASE /\ R'.event = Len(events) + 1
               /\ \E new \in Event :
                     events' = Append(events, new) /\ new.start = k /\ new.end = 0
      <4>1. PICK new \in Event : events' = Append(events, new) /\ new.start = k /\ new.end = 0
        BY <3>2
      <4>2. /\ events' \in Seq(Event) /\ Len(events') = Len(events) + 1
            /\ DOMAIN events' = DOMAIN events \cup {Len(events) + 1}
            /\ events'[Len(events) + 1] = new /\ \A e \in DOMAIN events : events'[e] = events[e]
        BY <4>1, EventsAppended
      <4>3. Len(events') >= Len(events) /\ Len(events') \in Nat /\ R'.event \in 0..Len(events')
        BY <1>1, <3>2, <4>2
      <4>4. ASSUME NEW e \in DOMAIN events'
            PROVE  events'[e].start \in DOMAIN samples /\ events'[e].end <= Len(samples)
        <5>1. CASE e \in DOMAIN events
          BY <1>1, <4>2, <5>1
        <5>2. CASE e = Len(events) + 1
          <6>1. events'[e] = new
            BY <4>2, <5>2
          <6>2. Len(samples) \in Nat
            BY <1>1
          <6>3. new.start \in DOMAIN samples /\ new.end <= Len(samples)
            BY <2>3, <4>1, <6>2
          <6>4. QED
            BY <6>1, <6>3
        <5>3. QED
          BY <4>2, <4>4, <5>1, <5>2
      <4>5. QED
        BY <4>2, <4>3, <4>4
    <3>3. ASSUME R.event # 0, R'.event \in {0, R.event}, NEW new \in Event, new.end <= Len(samples),
                 events' = [events EXCEPT ![R.event] = new], new.start = events[R.event].start
          PROVE  <2>4!:
      <4>1. /\ events' \in Seq(Event) /\ Len(events') = Len(events)
            /\ DOMAIN events' = DOMAIN events /\ R.event \in DOMAIN events
            /\ events'[R.event] = new
            /\ \A e \in DOMAIN events : e # R.event => events'[e] = events[e]
        BY <3>3, EventsChanged
      <4>2. QED
        BY <1>1, <3>3, <4>1
    <3>4. CASE /\ R.event # 0 /\ R'.event = R.event
               /\ \E new \in Event :
                     /\ events' = [events EXCEPT ![R.event] = new]
                     /\ new.start = events[R.event].start
                     /\ new.end = events[R.event].end
      <4>1. R.event \in DOMAIN events
        BY <1>1, <3>4
      <4>2. QED
        BY <1>1, <3>3, <3>4, <4>1
    <3>5. CASE /\ R.event # 0 /\ R'.event = 0
               /\ \E new \in Event :
                     /\ events' = [events EXCEPT ![R.event] = new]
                     /\ new.start = events[R.event].start
                     /\ new.end = k
      BY <2>3, <3>3, <3>5
    <3>6. QED
      BY <2>1, <3>1, <3>2, <3>4, <3>5
  <2>5. seen' \subseteq DOMAIN samples /\ R'.rows \subseteq DOMAIN samples
        /\ R'.maxSeen \in 0..Len(samples)
    BY <1>1, <1>3, <2>1, <2>3
  <2>6. cursor'.ongoing \in [Sensor -> 0..Len(events')] /\ R'.ongoing \in [Sensor -> 0..Len(events')]
    <3>1. 0..Len(events) \subseteq 0..Len(events')
      BY <1>1, <2>4
    <3>2. QED
      BY <1>1, <2>1, <2>2, <3>1
  <2>7. QED
    BY <1>2, <1>3, <2>1, <2>2, <2>4, <2>5, <2>6, TypesFrom
<1>14. CASE UNCHANGED vars
  BY <1>14 DEF vars, TypeInv, TypeOK, EventID, R
<1>15. QED
  BY <1>4, <1>6, <1>7, <1>8, <1>11, <1>12, <1>13, <1>14, Steps

\* The start of a run, and of a sensor's turn, and its end change nothing in
\* what has been looked at.
LEMMA LookedSame ==
  ASSUME TypeInv, RunInv, Offline = FALSE,
         Begin("daemon") \/ Fetch("daemon") \/ NextSensor("daemon")
  PROVE  \A k \in DOMAIN samples : Looked(k)' <=> Looked(k)
<1> SUFFICES ASSUME NEW k \in DOMAIN samples PROVE Looked(k)' <=> Looked(k)
  OBVIOUS
<1>1. DOMAIN Phases = 1..Len(Phases) /\ Len(Phases) \in Nat
  BY Constants
<1>2. CASE Begin("daemon")
  <2>1. R.pc = "idle" /\ R'.pc = "fetch" /\ R'.i = 1 /\ UNCHANGED <<samples, cursor>>
    BY <1>2, BeginIs
  <2>2. \A j \in DOMAIN Phases : ~(j < 1)
    BY <1>1
  <2>3. QED
    BY <2>1, <2>2 DEF Looked
<1>3. CASE Fetch("daemon")
  <2>1. /\ R.pc = "fetch" /\ R'.pc = "scan" /\ R'.i = R.i /\ R'.rows = NewRows(Phases[R.i], R.last)
        /\ UNCHANGED <<samples, cursor>> /\ R.last = cursor.last
    BY <1>3, FetchIs DEF RunInv
  <2>2. samples[k].phase = Phases[R.i] /\ k \notin R'.rows => k <= cursor.last
    BY <2>1, Types DEF NewRows
  <2>3. QED
    BY <2>1, <2>2 DEF Looked
<1>4. CASE NextSensor("daemon")
  <2>1. /\ R.pc = "scan" /\ R.rows = {} /\ R'.pc \in {"save", "fetch"} /\ R'.i = R.i + 1
        /\ R.i \in DOMAIN Phases /\ UNCHANGED <<samples, cursor>>
    BY <1>4, NextSensorIs
  <2>2. \A j \in DOMAIN Phases : j < R.i + 1 <=> j < R.i \/ j = R.i
    BY <1>1, <2>1
  <2>3. QED
    BY <2>1, <2>2 DEF Looked
<1>5. QED
  BY <1>2, <1>3, <1>4

\* Looking at a sample adds that one.
LEMMA LookedScan ==
  ASSUME TypeInv, RunInv, Offline = FALSE, Scan("daemon"), NEW k \in R.rows,
         R'.pc = "scan", R'.i = R.i, R'.rows = R.rows \ {k}
  PROVE  \A j \in DOMAIN samples : Looked(j)' <=> Looked(j) \/ j = k
<1>1. R.pc = "scan" /\ UNCHANGED <<samples, cursor>>
  BY ScanIs
<1>2. R.i \in DOMAIN Phases /\ samples[k].phase = Phases[R.i]
  BY <1>1 DEF RunInv, NewRows
<1>3. QED
  BY <1>1, <1>2 DEF Looked

\* When the cursor is saved, all samples have been looked at.
LEMMA LookedSave ==
  ASSUME TypeInv, RunInv, Offline = FALSE, Save("daemon")
  PROVE  \A k \in DOMAIN samples : Looked(k) /\ k <= R.maxSeen /\ Looked(k)' /\ k \in seen
<1> SUFFICES ASSUME NEW k \in DOMAIN samples
             PROVE  Looked(k) /\ k <= R.maxSeen /\ Looked(k)' /\ k \in seen
  OBVIOUS
<1>1. /\ R.pc = "save" /\ R.i = Len(Phases) + 1 /\ UNCHANGED samples /\ cursor'.last = R.maxSeen
      /\ cursor.last <= R.maxSeen
  <2>1. R.pc = "save" /\ UNCHANGED samples /\ cursor'.last = R.maxSeen
    BY SaveIs
  <2>2. QED
    BY <2>1 DEF RunInv
<1>2. PICK j \in DOMAIN Phases : Phases[j] = samples[k].phase
  BY Types, Constants
<1>3. j < R.i
  BY <1>1, Constants
<1>4. Looked(k)
  BY <1>1, <1>2, <1>3 DEF Looked
<1>5. k \in seen /\ (k <= cursor.last \/ k <= R.maxSeen)
  BY <1>4 DEF RunInv
<1>6. k <= R.maxSeen
  BY <1>1, <1>5, Types
<1>7. QED
  BY <1>1, <1>4, <1>5, <1>6 DEF Looked

\* A run goes through the sensors and their rows in order, and the cursor is
\* saved only when it has been through all.
LEMMA RunNext ==
  ASSUME TypeInv, RunInv, Offline = FALSE, [Next]_vars
  PROVE  RunInv'
<1>1. /\ Len(samples) \in Nat /\ DOMAIN samples = 1..Len(samples)
      /\ cursor.last \in Nat /\ cursor.last <= Len(samples) /\ R.maxSeen \in Nat
      /\ R.i \in Nat /\ R.rows \subseteq DOMAIN samples
  BY Types
<1>2. DOMAIN Phases = 1..Len(Phases) /\ Len(Phases) \in Nat /\ Len(Phases) > 0
  BY Constants
<1>3. \A k \in DOMAIN samples : k <= cursor.last => k \in seen
  BY DEF RunInv, Looked
<1>4. ASSUME NEW p \in Sensor, NEW v \in Voltages \cup {Null}, InsertSample(p, v) PROVE RunInv'
  <2>1. /\ R.pc = "idle" /\ R' = R /\ UNCHANGED <<events, cursor, run, seen, aborts>>
        /\ DOMAIN samples' = 1..(Len(samples) + 1)
        /\ \A k \in DOMAIN samples : samples'[k] = samples[k]
    BY <1>4, InsertIs
  <2>2. \A k \in DOMAIN samples' : k <= cursor.last => k \in seen
    BY <1>1, <1>3, <2>1
  <2>3. QED
    BY <2>1, <2>2 DEF RunInv, Looked
<1>5. CASE Begin("daemon")
  <2>1. /\ UNCHANGED <<samples, cursor, seen>> /\ R'.pc = "fetch" /\ R'.last = cursor.last
        /\ R'.maxSeen = cursor.last /\ R'.i = 1 /\ R.pc = "idle"
    BY <1>5, BeginIs
  <2>2. \A k \in DOMAIN samples : Looked(k)' <=> Looked(k)
    BY <1>5, LookedSame
  <2>3. QED
    BY <1>1, <1>2, <2>1, <2>2 DEF RunInv
<1>6. CASE Fetch("daemon")
  <2>1. /\ R.pc = "fetch" /\ UNCHANGED <<samples, cursor, seen>> /\ R'.pc = "scan" /\ R'.last = R.last
        /\ R'.maxSeen = R.maxSeen /\ R'.i = R.i /\ R'.rows = NewRows(Phases[R.i], R.last)
        /\ R.i \in DOMAIN Phases
    BY <1>6, FetchIs
  <2>2. \A k \in DOMAIN samples : Looked(k)' <=> Looked(k)
    BY <1>6, LookedSame
  <2>3. NewRows(Phases[R.i], R.last)' = NewRows(Phases[R.i], R.last)
    BY <2>1 DEF NewRows
  <2>4. QED
    BY <2>1, <2>2, <2>3 DEF RunInv
<1>7. CASE NextSensor("daemon")
  <2>1. /\ R.pc = "scan" /\ UNCHANGED <<samples, cursor, seen>> /\ R'.last = R.last
        /\ R'.pc = (IF R.i = Len(Phases) THEN "save" ELSE "fetch")
        /\ R'.maxSeen = R.maxSeen /\ R'.i = R.i + 1 /\ R.i \in DOMAIN Phases
    BY <1>7, NextSensorIs
  <2>2. \A k \in DOMAIN samples : Looked(k)' <=> Looked(k)
    BY <1>7, LookedSame
  <2>3. R.i # Len(Phases) => R.i + 1 \in DOMAIN Phases
    BY <1>2, <2>1
  <2>4. QED
    BY <2>1, <2>2, <2>3 DEF RunInv
<1>8. CASE Scan("daemon")
  <2>1. PICK k \in R.rows :
          /\ k \in DOMAIN samples /\ \A j \in R.rows : k <= j
          /\ seen' = seen \cup {k}
          /\ R'.pc = "scan" /\ R'.last = R.last /\ R'.i = R.i /\ R'.rows = R.rows \ {k}
          /\ R'.maxSeen \in {R.maxSeen, k} /\ R'.maxSeen >= R.maxSeen /\ R'.maxSeen >= k
    BY <1>8, ScanIs
  <2>2. R.pc = "scan" /\ UNCHANGED <<samples, cursor>>
    BY <1>8, ScanIs
  <2>3. \A j \in DOMAIN samples : Looked(j)' <=> Looked(j) \/ j = k
    BY <1>8, <2>1, LookedScan
  <2>4. k \in Nat /\ R'.maxSeen \in Nat
    BY <1>1, <2>1
  <2>5. /\ R.last = cursor.last /\ cursor.last <= R.maxSeen /\ R.i \in DOMAIN Phases
        /\ R.rows \subseteq NewRows(Phases[R.i], R.last)
        /\ \A j \in NewRows(Phases[R.i], R.last) \ R.rows, m \in R.rows : j < m
    BY <2>2 DEF RunInv
  <2>6. NewRows(Phases[R.i], R.last)' = NewRows(Phases[R.i], R.last)
    BY <2>1, <2>2 DEF NewRows
  <2>7. ASSUME NEW j \in NewRows(Phases[R.i], R.last), j \notin R'.rows, NEW m \in R'.rows PROVE j < m
    <3>1. CASE j \in R.rows
      <4>1. j = k /\ m # k /\ k <= m /\ m \in Nat
        BY <1>1, <2>1, <2>7, <3>1
      <4>2. QED
        BY <2>4, <4>1
    <3>2. CASE j \notin R.rows
      BY <2>1, <2>5, <2>7, <3>2
    <3>3. QED
      BY <3>1, <3>2
  <2>8. ASSUME NEW j \in DOMAIN samples, Looked(j)'
        PROVE  j \in seen' /\ (j <= cursor.last \/ j <= R'.maxSeen)
    <3>1. CASE j = k
      BY <2>1, <3>1
    <3>2. CASE Looked(j)
      <4>1. j \in seen /\ (j <= cursor.last \/ j <= R.maxSeen)
        BY <3>2 DEF RunInv
      <4>2. QED
        BY <1>1, <2>1, <2>4, <4>1
    <3>3. QED
      BY <2>3, <2>8, <3>1, <3>2
  <2>9. cursor.last <= R'.maxSeen
    BY <1>1, <2>1, <2>4, <2>5
  <2>10. QED
    BY <2>1, <2>2, <2>5, <2>6, <2>7, <2>8, <2>9 DEF RunInv
<1>9. CASE Save("daemon")
  <2>1. UNCHANGED <<samples, seen>> /\ R'.pc = "idle" /\ cursor'.last = R.maxSeen
    BY <1>9, SaveIs
  <2>2. \A k \in DOMAIN samples : k \in seen /\ k <= R.maxSeen
    BY <1>9, LookedSave
  <2>3. QED
    BY <2>1, <2>2 DEF RunInv
<1>10. CASE Abort("daemon")
  <2>1. UNCHANGED <<samples, seen, cursor>> /\ R'.pc = "idle"
    BY <1>10, AbortIs, IdleIs
  <2>2. QED
    BY <1>3, <2>1 DEF RunInv, Looked
<1>11. CASE UNCHANGED vars
  <2>1. R' = R /\ UNCHANGED <<samples, cursor, seen>>
    BY <1>11 DEF vars, R
  <2>2. QED
    BY <2>1 DEF RunInv, Looked, NewRows
<1>12. QED
  BY <1>4, <1>5, <1>6, <1>7, <1>8, <1>9, <1>10, <1>11, Steps

\* What looking at a sample does to the events.
LEMMA ScanEvents ==
  ASSUME TypeInv, Offline = FALSE, Scan("daemon")
  PROVE  \E k \in R.rows :
           /\ k \in DOMAIN samples /\ \A j \in R.rows : k <= j
           /\ R'.pc = "scan" /\ R'.last = R.last /\ R'.ongoing = R.ongoing /\ R'.i = R.i
           /\ R'.rows = R.rows \ {k} /\ R'.maxSeen >= R.maxSeen /\ R'.maxSeen >= k
           /\ DOMAIN events \subseteq DOMAIN events'
           /\ \A e \in DOMAIN events :
                /\ events'[e].phase = events[e].phase /\ events'[e].start = events[e].start
                /\ \/ events'[e].end = events[e].end
                   \/ e = R.event /\ R'.event = 0 /\ events'[e].end = k /\ InRange(samples[k].v)
           /\ \/ /\ samples[k].v # Null => InRange(samples[k].v) /\ R.event = 0
                 /\ events' = events /\ R'.event = R.event
              \/ /\ OutOfRange(samples[k].v) /\ R.event = 0 /\ R'.event # 0
                 /\ R'.event \notin DOMAIN events /\ DOMAIN events' = DOMAIN events \cup {R'.event}
                 /\ events'[R'.event].phase = samples[k].phase /\ events'[R'.event].start = k
                 /\ events'[R'.event].end = 0
              \/ /\ OutOfRange(samples[k].v) /\ R.event # 0 /\ R'.event = R.event
                 /\ DOMAIN events' = DOMAIN events
              \/ /\ InRange(samples[k].v) /\ R.event # 0 /\ R'.event = 0
                 /\ DOMAIN events' = DOMAIN events /\ R.event \in DOMAIN events
                 /\ events'[R.event].end = k
                 /\ \A e \in DOMAIN events : e # R.event => events'[e].end = events[e].end
<1>1. PICK k \in R.rows :
        /\ k \in DOMAIN samples /\ \A j \in R.rows : k <= j
        /\ R'.pc = "scan" /\ R'.last = R.last /\ R'.ongoing = R.ongoing /\ R'.i = R.i
        /\ R'.rows = R.rows \ {k} /\ R'.maxSeen >= R.maxSeen /\ R'.maxSeen >= k
        /\ \/ /\ samples[k].v # Null => InRange(samples[k].v) /\ R.event = 0
              /\ events' = events /\ R'.event = R.event
           \/ /\ OutOfRange(samples[k].v) /\ R.event = 0
              /\ R'.event = Len(events) + 1
              /\ \E new \in Event :
                   /\ events' = Append(events, new)
                   /\ new.phase = samples[k].phase /\ new.start = k /\ new.end = 0
           \/ /\ OutOfRange(samples[k].v) /\ R.event # 0 /\ R'.event = R.event
              /\ \E new \in Event :
                   /\ events' = [events EXCEPT ![R.event] = new]
                   /\ new.phase = events[R.event].phase /\ new.start = events[R.event].start
                   /\ new.end = events[R.event].end
           \/ /\ InRange(samples[k].v) /\ R.event # 0 /\ R'.event = 0
              /\ \E new \in Event :
                   /\ events' = [events EXCEPT ![R.event] = new]
                   /\ new.phase = events[R.event].phase /\ new.start = events[R.event].start
                   /\ new.end = k
  BY ScanIs
<1>2. CASE /\ samples[k].v # Null => InRange(samples[k].v) /\ R.event = 0
           /\ events' = events /\ R'.event = R.event
  BY <1>1, <1>2
<1>3. CASE /\ OutOfRange(samples[k].v) /\ R.event = 0
           /\ R'.event = Len(events) + 1
           /\ \E new \in Event :
                /\ events' = Append(events, new)
                /\ new.phase = samples[k].phase /\ new.start = k /\ new.end = 0
  <2>1. PICK new \in Event :
          /\ events' = Append(events, new)
          /\ new.phase = samples[k].phase /\ new.start = k /\ new.end = 0
    BY <1>3
  <2>2. /\ DOMAIN events' = DOMAIN events \cup {R'.event}
        /\ R'.event \notin DOMAIN events /\ R'.event # 0
        /\ events'[R'.event] = new /\ \A e \in DOMAIN events : events'[e] = events[e]
    BY <1>3, <2>1, EventsAppended
  <2>3. QED
    BY <1>1, <1>3, <2>1, <2>2
<1>4. ASSUME R.event # 0, NEW new \in Event, events' = [events EXCEPT ![R.event] = new],
             new.phase = events[R.event].phase, new.start = events[R.event].start
      PROVE  /\ DOMAIN events' = DOMAIN events /\ R.event \in DOMAIN events
             /\ events'[R.event].end = new.end
             /\ \A e \in DOMAIN events :
                  /\ events'[e].phase = events[e].phase /\ events'[e].start = events[e].start
                  /\ e # R.event => events'[e].end = events[e].end
  <2>1. /\ DOMAIN events' = DOMAIN events /\ R.event \in DOMAIN events
        /\ events'[R.event] = new
        /\ \A e \in DOMAIN events : e # R.event => events'[e] = events[e]
    BY <1>4, EventsChanged
  <2>2. QED
    BY <1>4, <2>1
<1>5. CASE /\ OutOfRange(samples[k].v) /\ R.event # 0 /\ R'.event = R.event
           /\ \E new \in Event :
                /\ events' = [events EXCEPT ![R.event] = new]
                /\ new.phase = events[R.event].phase /\ new.start = events[R.event].start
                /\ new.end = events[R.event].end
  <2>1. PICK new \in Event :
          /\ events' = [events EXCEPT ![R.event] = new]
          /\ new.phase = events[R.event].phase /\ new.start = events[R.event].start
          /\ new.end = events[R.event].end
    BY <1>5
  <2>2. QED
    BY <1>1, <1>4, <1>5, <2>1
<1>6. CASE /\ InRange(samples[k].v) /\ R.event # 0 /\ R'.event = 0
           /\ \E new \in Event :
                /\ events' = [events EXCEPT ![R.event] = new]
                /\ new.phase = events[R.event].phase /\ new.start = events[R.event].start
                /\ new.end = k
  <2>1. PICK new \in Event :
          /\ events' = [events EXCEPT ![R.event] = new]
          /\ new.phase = events[R.event].phase /\ new.start = events[R.event].start
          /\ new.end = k
    BY <1>6
  <2>2. QED
    BY <1>1, <1>4, <1>6, <2>1
<1>7. QED
  BY <1>1, <1>2, <1>3, <1>5, <1>6

\* The samples of the sensor under way that have been looked at are older than
\* those that are left.
LEMMA LookedBefore ==
  ASSUME TypeInv, RunInv, R.pc = "scan", NEW k \in R.rows,
         NEW j \in DOMAIN samples, samples[j].phase = Phases[R.i], Looked(j)
  PROVE  j < k
<1>1. /\ R.i \in DOMAIN Phases /\ R.last = cursor.last
      /\ k \in NewRows(Phases[R.i], cursor.last)
      /\ \A m \in NewRows(Phases[R.i], cursor.last) \ R.rows : m < k
  BY DEF RunInv
<1>2. j \in Nat /\ k \in Nat /\ cursor.last \in Nat
  BY Types
<1>3. CASE j <= cursor.last
  BY <1>1, <1>2, <1>3 DEF NewRows
<1>4. CASE ~(j <= cursor.last)
  <2>1. PICK i \in DOMAIN Phases : Phases[i] = Phases[R.i]
                                   /\ (i < R.i \/ (i = R.i /\ j \notin R.rows))
    BY <1>4 DEF Looked
  <2>2. i = R.i
    BY <1>1, <2>1, Constants
  <2>3. j \notin R.rows
    BY <1>1, <2>1, <2>2, Types
  <2>4. j \in NewRows(Phases[R.i], cursor.last)
    BY <1>2, <1>4 DEF NewRows
  <2>5. QED
    BY <1>1, <2>3, <2>4
<1>5. QED
  BY <1>3, <1>4

\* Looking at a sample: every out-of-range one that has been looked at stays
\* covered, and the events that the cursor and the run know stay resumable.
LEMMA CoverScan ==
  ASSUME TypeInv, RunInv, CoverInv, Offline = FALSE, Scan("daemon")
  PROVE  CoverInv'
<1>1. PICK k \in R.rows :
           /\ k \in DOMAIN samples /\ \A j \in R.rows : k <= j
           /\ R'.pc = "scan" /\ R'.last = R.last /\ R'.ongoing = R.ongoing /\ R'.i = R.i
           /\ R'.rows = R.rows \ {k} /\ R'.maxSeen >= R.maxSeen /\ R'.maxSeen >= k
           /\ DOMAIN events \subseteq DOMAIN events'
           /\ \A e \in DOMAIN events :
                /\ events'[e].phase = events[e].phase /\ events'[e].start = events[e].start
                /\ \/ events'[e].end = events[e].end
                   \/ e = R.event /\ R'.event = 0 /\ events'[e].end = k /\ InRange(samples[k].v)
           /\ \/ /\ samples[k].v # Null => InRange(samples[k].v) /\ R.event = 0
                 /\ events' = events /\ R'.event = R.event
              \/ /\ OutOfRange(samples[k].v) /\ R.event = 0 /\ R'.event # 0
                 /\ R'.event \notin DOMAIN events /\ DOMAIN events' = DOMAIN events \cup {R'.event}
                 /\ events'[R'.event].phase = samples[k].phase /\ events'[R'.event].start = k
                 /\ events'[R'.event].end = 0
              \/ /\ OutOfRange(samples[k].v) /\ R.event # 0 /\ R'.event = R.event
                 /\ DOMAIN events' = DOMAIN events
              \/ /\ InRange(samples[k].v) /\ R.event # 0 /\ R'.event = 0
                 /\ DOMAIN events' = DOMAIN events /\ R.event \in DOMAIN events
                 /\ events'[R.event].end = k
                 /\ \A e \in DOMAIN events : e # R.event => events'[e].end = events[e].end
  BY ScanEvents
<1>2. R.pc = "scan" /\ UNCHANGED <<samples, cursor>>
  BY ScanIs
<1>3. /\ R.i \in DOMAIN Phases /\ R.last = cursor.last /\ cursor.last <= R.maxSeen
      /\ samples[k].phase = Phases[R.i] /\ k > cursor.last
  BY <1>2 DEF RunInv, NewRows
<1>4. /\ k \in Nat /\ cursor.last \in Nat /\ R.maxSeen \in Nat /\ R'.maxSeen \in Nat
      /\ R.rows \subseteq Nat /\ samples[k].v \in Voltages \cup {Null}
  <2>1. R' \in RunType
    BY ScanIs
  <2>2. R'.maxSeen \in Nat
    BY <2>1 DEF RunType
  <2>3. QED
    BY <1>1, <2>2, Types
<1>5. \A j \in DOMAIN samples : Looked(j)' <=> Looked(j) \/ j = k
  BY <1>1, LookedScan
<1>6. /\ samples[k].v # Null => ~(OutOfRange(samples[k].v) /\ InRange(samples[k].v))
      /\ samples[k].v = Null => ~OutOfRange(samples[k].v) /\ ~InRange(samples[k].v)
  BY <1>4, RangeIs
<1>7. R.event # 0 =>
        /\ R.event \in DOMAIN events
        /\ events[R.event].phase = Phases[R.i] /\ events[R.event].start <= R.maxSeen
        /\ \A j \in R.rows : events[R.event].start < j
        /\ events[R.event].end # 0 =>
             events[R.event].end \in R.rows /\ InRange(samples[events[R.event].end].v)
  BY <1>2, Types DEF CoverInv, UnderWay
<1>8. R.event # 0 /\ ~InRange(samples[k].v) /\ events[R.event].end # 0 =>
        events[R.event].end \in R.rows \ {k} /\ k < events[R.event].end
  <2> SUFFICES ASSUME R.event # 0, ~InRange(samples[k].v), events[R.event].end # 0
               PROVE  events[R.event].end \in R.rows \ {k} /\ k < events[R.event].end
    OBVIOUS
  <2>1. PICK m \in R.rows : m = events[R.event].end /\ InRange(samples[m].v)
    BY <1>7
  <2>2. m # k /\ k <= m /\ m \in Nat
    BY <1>1, <1>4, <2>1
  <2>3. QED
    BY <1>4, <2>1, <2>2
<1>9. Covered'
  <2> SUFFICES ASSUME NEW j \in DOMAIN samples, Looked(j)', OutOfRange(samples[j].v)
               PROVE  \E e \in DOMAIN events' : Covers(e, j)'
    BY <1>2 DEF Covered
  <2>1. CASE j = k
    <3>1. CASE R.event = 0 /\ R'.event \in DOMAIN events' /\ events'[R'.event].phase = samples[k].phase
               /\ events'[R'.event].start = k /\ events'[R'.event].end = 0
      BY <1>2, <1>4, <2>1, <3>1 DEF Covers
    <3>2. CASE R.event # 0 /\ R'.event = R.event
      <4>1. ~InRange(samples[k].v) /\ R.event \in DOMAIN events
        BY <1>6, <1>7, <2>1, <3>2
      <4>2. PICK e \in DOMAIN events : e = R.event
        BY <4>1
      <4>3. /\ events'[e].end = events[e].end /\ events'[e].phase = Phases[R.i]
            /\ events'[e].start = events[e].start /\ e \in DOMAIN events'
        BY <1>1, <1>7, <3>2, <4>1, <4>2
      <4>4. events[e].start \in Nat /\ events[e].start < k
        BY <1>7, <3>2, <4>2, Types
      <4>5. events[e].start <= k
        BY <1>4, <4>4
      <4>6. events[e].end = 0 \/ k < events[e].end
        BY <1>8, <3>2, <4>1, <4>2
      <4>7. QED
        BY <1>2, <1>3, <2>1, <4>3, <4>5, <4>6 DEF Covers
    <3>3. QED
      BY <1>1, <1>6, <2>1, <3>1, <3>2
  <2>2. CASE Looked(j)
    <3>1. PICK e \in DOMAIN events : Covers(e, j)
      BY <2>2 DEF CoverInv, Covered
    <3>2. e \in DOMAIN events' /\ events'[e].phase = samples[j].phase /\ events'[e].start <= j
      BY <1>1, <3>1 DEF Covers
    <3>3. CASE events'[e].end = events[e].end
      BY <1>2, <3>1, <3>2, <3>3 DEF Covers
    <3>4. CASE e = R.event /\ events'[e].end = k
      <4>1. R.event # 0 /\ samples[j].phase = Phases[R.i]
        BY <1>7, <3>1, <3>4, Types DEF Covers
      <4>2. j < k
        BY <1>2, <2>2, <4>1, LookedBefore
      <4>3. QED
        BY <1>2, <3>2, <3>4, <4>2 DEF Covers
    <3>5. QED
      BY <1>1, <3>3, <3>4
  <2>3. QED
    BY <1>5, <2>1, <2>2
<1>10. CursorEvents'
  <2> SUFFICES ASSUME NEW p \in Sensor, cursor.ongoing[p] # 0
               PROVE  Resumable(p, cursor.ongoing[p])'
    BY <1>2 DEF CursorEvents
  <2>1. PICK e \in DOMAIN events : e = cursor.ongoing[p]
    BY Types
  <2>2. /\ events[e].phase = p /\ events[e].start <= cursor.last
        /\ events[e].end # 0 =>
             /\ events[e].end > cursor.last /\ samples[events[e].end].phase = p
             /\ InRange(samples[events[e].end].v)
    BY <2>1 DEF CoverInv, CursorEvents, Resumable
  <2>3. CASE events'[e].end = events[e].end
    BY <1>1, <1>2, <2>1, <2>2, <2>3 DEF Resumable
  <2>4. CASE e = R.event /\ events'[e].end = k /\ InRange(samples[k].v)
    <3>1. R.event # 0
      BY <2>4, Types
    <3>2. samples[k].phase = p
      BY <1>3, <1>7, <2>2, <2>4, <3>1
    <3>3. QED
      BY <1>1, <1>2, <1>3, <2>1, <2>2, <2>4, <3>2 DEF Resumable
  <2>5. QED
    BY <1>1, <2>3, <2>4
<1>11. RunEvents'
  <2> SUFFICES ASSUME NEW j \in DOMAIN Phases
               PROVE  /\ j < R.i /\ R.ongoing[Phases[j]] # 0 => LeftOpen(Phases[j], R.ongoing[Phases[j]])'
                      /\ ~(j < R.i) => R.ongoing[Phases[j]] = cursor.ongoing[Phases[j]]
    BY <1>1, <1>2 DEF RunEvents
  <2>1. ~(j < R.i) => R.ongoing[Phases[j]] = cursor.ongoing[Phases[j]]
    BY <1>2 DEF CoverInv, RunEvents
  <2>2. ASSUME j < R.i, R.ongoing[Phases[j]] # 0 PROVE LeftOpen(Phases[j], R.ongoing[Phases[j]])'
    <3>1. Phases[j] \in Sensor /\ Phases[j] # Phases[R.i]
      BY <1>3, <2>2, Types, Constants
    <3>2. PICK e \in DOMAIN events : e = R.ongoing[Phases[j]]
      BY <2>2, <3>1, Types
    <3>3. PICK q \in Sensor : q = Phases[j]
      BY <3>1
    <3>4. events[e].phase = q /\ events[e].start <= R.maxSeen /\ events[e].end = 0
      BY <1>2, <2>2, <3>2, <3>3 DEF CoverInv, RunEvents, LeftOpen
    <3>5. e # R.event
      BY <1>7, <3>1, <3>3, <3>4, Types
    <3>6. events'[e].phase = q /\ events'[e].start = events[e].start /\ events'[e].end = 0
      BY <1>1, <3>4, <3>5
    <3>7. events'[e].start <= R'.maxSeen
      <4>1. events[e].start \in Nat
        BY <3>3, Types
      <4>2. R.maxSeen \in Nat /\ R'.maxSeen \in Nat /\ R.maxSeen <= R'.maxSeen
        BY <1>1, <1>4
      <4>3. QED
        BY <3>4, <3>6, <4>1, <4>2
    <3>8. R'.ongoing[Phases[j]] = e
      BY <1>1, <3>2
    <3>9. QED
      BY <1>1, <3>2, <3>3, <3>6, <3>7, <3>8 DEF LeftOpen
  <2>3. QED
    BY <2>1, <2>2
<1>12. R'.event # 0 => UnderWay(R.event)'
  <2> SUFFICES ASSUME R'.event # 0
               PROVE  /\ events'[R'.event].phase = Phases[R.i] /\ events'[R'.event].start <= R'.maxSeen
                      /\ \A j \in R'.rows : events'[R'.event].start < j
                      /\ events'[R'.event].end # 0 =>
                           /\ events'[R'.event].end \in R'.rows
                           /\ InRange(samples[events'[R'.event].end].v)
    BY <1>1, <1>2 DEF UnderWay
  <2>1. CASE /\ R.event = 0 /\ events'[R'.event].phase = samples[k].phase
             /\ events'[R'.event].start = k /\ events'[R'.event].end = 0
    <3>1. \A j \in R'.rows : k < j
      <4> SUFFICES ASSUME NEW j \in R.rows, j # k PROVE k < j
        BY <1>1
      <4>1. k <= j /\ j \in Nat
        BY <1>1, <1>4
      <4>2. QED
        BY <1>4, <4>1
    <3>2. QED
      BY <1>1, <1>3, <2>1, <3>1
  <2>2. CASE R.event # 0 /\ R'.event = R.event
    <3>1. ~InRange(samples[k].v)
      BY <1>1, <1>6, <2>2
    <3>2. PICK e \in DOMAIN events : e = R.event
      BY <1>7, <2>2
    <3>3. /\ events'[e].end = events[e].end /\ events'[e].phase = Phases[R.i]
          /\ events'[e].start = events[e].start
      BY <1>1, <1>7, <2>2, <3>1, <3>2
    <3>4. events[e].start <= R.maxSeen /\ \A j \in R.rows : events[e].start < j
      BY <1>7, <2>2, <3>2
    <3>5. events[e].start <= R'.maxSeen
      <4>1. events[e].start \in Nat
        BY <3>2, Types
      <4>2. R.maxSeen \in Nat /\ R'.maxSeen \in Nat /\ R.maxSeen <= R'.maxSeen
        BY <1>1, <1>4
      <4>3. QED
        BY <3>4, <4>1, <4>2
    <3>6. events[e].end # 0 => events[e].end \in R.rows \ {k} /\ InRange(samples[events[e].end].v)
      BY <1>7, <1>8, <2>2, <3>1, <3>2
    <3>7. QED
      BY <1>1, <2>2, <3>2, <3>3, <3>4, <3>5, <3>6
  <2>3. QED
    BY <1>1, <2>1, <2>2
<1>13. QED
  BY <1>1, <1>9, <1>10, <1>11, <1>12 DEF CoverInv

\* Every other step keeps the readings covered.
LEMMA CoverNext ==
  ASSUME TypeInv, RunInv, CoverInv, Offline = FALSE, [Next]_vars
  PROVE  CoverInv'
<1>1. /\ DOMAIN samples = 1..Len(samples) /\ Len(samples) \in Nat
      /\ cursor.last \in Nat /\ cursor.last <= Len(samples) /\ R.i \in Nat
      /\ cursor.ongoing \in [Sensor -> 0..Len(events)] /\ DOMAIN events = 1..Len(events)
      /\ R.ongoing \in [Sensor -> 0..Len(events)] /\ Len(events) \in Nat
      /\ \A e \in DOMAIN events : /\ events[e].start \in DOMAIN samples
                                  /\ events[e].end \in Nat /\ events[e].end <= Len(samples)
  BY Types
<1>2. /\ DOMAIN Phases = 1..Len(Phases) /\ Len(Phases) \in Nat
      /\ \A i \in DOMAIN Phases : Phases[i] \in Sensor
      /\ \A p \in Sensor : \E i \in DOMAIN Phases : Phases[i] = p
      /\ \A i, j \in DOMAIN Phases : Phases[i] = Phases[j] => i = j
  BY Constants
<1>3. Covered /\ CursorEvents /\ RunEvents
  BY DEF CoverInv
<1>4. ASSUME NEW p \in Sensor, NEW v \in Voltages \cup {Null}, InsertSample(p, v) PROVE CoverInv'
  <2>1. /\ R.pc = "idle" /\ R' = R /\ UNCHANGED <<events, cursor>>
        /\ DOMAIN samples' = 1..(Len(samples) + 1)
        /\ \A k \in DOMAIN samples : samples'[k] = samples[k]
    BY <1>4, InsertIs
  <2>2. ASSUME NEW k \in DOMAIN samples', Looked(k)', OutOfRange(samples'[k].v)
        PROVE  \E e \in DOMAIN events' : Covers(e, k)'
    <3>1. k <= cursor.last
      BY <2>1, <2>2 DEF Looked
    <3>2. k \in DOMAIN samples
      BY <1>1, <2>1, <3>1
    <3>3. PICK e \in DOMAIN events : Covers(e, k)
      BY <1>3, <2>1, <2>2, <3>1, <3>2 DEF Covered, Looked
    <3>4. QED
      BY <2>1, <3>2, <3>3 DEF Covers
  <2>3. ASSUME NEW q \in Sensor, cursor.ongoing[q] # 0 PROVE Resumable(q, cursor.ongoing[q])'
    <3>1. PICK e \in DOMAIN events : e = cursor.ongoing[q]
      BY <1>1, <2>3
    <3>2. Resumable(q, e)
      BY <1>3, <2>3, <3>1 DEF CursorEvents
    <3>3. events[e].end # 0 => events[e].end \in DOMAIN samples
      BY <1>1
    <3>4. QED
      BY <2>1, <3>1, <3>2, <3>3 DEF Resumable
  <2>4. QED
    BY <2>1, <2>2, <2>3 DEF CoverInv, Covered, CursorEvents, RunEvents
<1>5. ASSUME Begin("daemon") \/ Fetch("daemon") \/ NextSensor("daemon"),
             UNCHANGED <<samples, events, cursor>>
      PROVE  Covered' /\ CursorEvents'
  <2>1. \A k \in DOMAIN samples : Looked(k)' <=> Looked(k)
    BY <1>5, LookedSame
  <2>2. QED
    BY <1>3, <1>5, <2>1 DEF Covered, CursorEvents, Covers, Resumable
<1>6. CASE Begin("daemon")
  <2>1. /\ UNCHANGED <<samples, events, cursor>> /\ R'.pc = "fetch" /\ R'.i = 1
        /\ R'.ongoing = cursor.ongoing
    BY <1>6, BeginIs
  <2>2. \A j \in DOMAIN Phases : ~(j < 1)
    BY <1>2
  <2>3. QED
    BY <1>5, <1>6, <2>1, <2>2 DEF CoverInv, RunEvents
<1>7. CASE Fetch("daemon")
  <2>1. /\ R.pc = "fetch" /\ UNCHANGED <<samples, events, cursor>> /\ R.i \in DOMAIN Phases
        /\ R'.pc = "scan" /\ R'.maxSeen = R.maxSeen /\ R'.ongoing = R.ongoing /\ R'.i = R.i
        /\ R'.rows = NewRows(Phases[R.i], R.last) /\ R'.event = R.ongoing[Phases[R.i]]
    BY <1>7, FetchIs
  <2>2. R.last = cursor.last /\ cursor.last <= R.maxSeen /\ R.maxSeen \in Nat
    BY <2>1, Types DEF RunInv
  <2>3. RunEvents'
    BY <1>3, <2>1 DEF RunEvents, LeftOpen
  <2>4. ASSUME R'.event # 0 PROVE UnderWay(R.event)'
    <3>1. ~(R.i < R.i) /\ Phases[R.i] \in Sensor
      BY <1>1, <1>2, <2>1
    <3>2. R'.event = cursor.ongoing[Phases[R.i]]
      BY <1>3, <2>1, <3>1 DEF RunEvents
    <3>3. PICK p \in Sensor : p = Phases[R.i]
      BY <3>1
    <3>4. PICK e \in DOMAIN events : e = cursor.ongoing[p]
      BY <1>1, <2>4, <3>2, <3>3
    <3>5. Resumable(p, e)
      BY <1>3, <2>4, <3>2, <3>3, <3>4 DEF CursorEvents
    <3>6. events[e].start \in Nat /\ events[e].end \in Nat
      BY <1>1
    <3>7. events[e].start <= R.maxSeen
      BY <1>1, <2>2, <3>5, <3>6 DEF Resumable
    <3>8. \A k \in R'.rows : events[e].start < k
      BY <1>1, <2>1, <2>2, <3>5, <3>6 DEF Resumable, NewRows
    <3>9. events[e].end # 0 => events[e].end \in R'.rows /\ InRange(samples[events[e].end].v)
      <4>1. events[e].end # 0 => events[e].end \in DOMAIN samples
        BY <1>1
      <4>2. QED
        BY <2>1, <2>2, <3>3, <3>5, <4>1 DEF Resumable, NewRows
    <3>10. QED
      BY <2>1, <3>2, <3>3, <3>4, <3>5, <3>7, <3>8, <3>9 DEF UnderWay, Resumable
  <2>5. QED
    BY <1>5, <1>7, <2>1, <2>3, <2>4 DEF CoverInv
<1>8. CASE NextSensor("daemon")
  <2>1. /\ R.pc = "scan" /\ R.rows = {} /\ UNCHANGED <<samples, events, cursor>>
        /\ R.i \in DOMAIN Phases /\ R'.pc \in {"save", "fetch"} /\ R'.maxSeen = R.maxSeen
        /\ R'.i = R.i + 1 /\ R'.ongoing = [R.ongoing EXCEPT ![Phases[R.i]] = R.event]
    BY <1>8, NextSensorIs
  <2>2. ASSUME NEW j \in DOMAIN Phases
        PROVE  /\ j < R.i + 1 /\ R'.ongoing[Phases[j]] # 0 => LeftOpen(Phases[j], R.ongoing[Phases[j]])'
               /\ ~(j < R.i + 1) => R'.ongoing[Phases[j]] = cursor.ongoing[Phases[j]]
    <3>1. CASE j = R.i
      <4>1. R'.ongoing[Phases[j]] = R.event /\ j < R.i + 1
        BY <1>1, <1>2, <2>1, <3>1
      <4>2. R.event # 0 => LeftOpen(Phases[R.i], R.event)
        BY <2>1 DEF CoverInv, UnderWay, LeftOpen
      <4>3. QED
        BY <2>1, <3>1, <4>1, <4>2 DEF LeftOpen
    <3>2. CASE j # R.i
      <4>1. R'.ongoing[Phases[j]] = R.ongoing[Phases[j]]
        <5>1. Phases[j] # Phases[R.i] /\ Phases[j] \in Sensor
          BY <1>2, <2>1, <3>2
        <5>2. QED
          BY <1>1, <2>1, <5>1
      <4>2. j < R.i + 1 <=> j < R.i
        BY <1>1, <1>2, <3>2
      <4>3. /\ j < R.i /\ R.ongoing[Phases[j]] # 0 => LeftOpen(Phases[j], R.ongoing[Phases[j]])
            /\ ~(j < R.i) => R.ongoing[Phases[j]] = cursor.ongoing[Phases[j]]
        BY <1>3, <2>1 DEF RunEvents
      <4>4. QED
        BY <2>1, <4>1, <4>2, <4>3 DEF LeftOpen
    <3>3. QED
      BY <3>1, <3>2
  <2>3. RunEvents'
    BY <2>1, <2>2 DEF RunEvents
  <2>4. QED
    BY <1>5, <1>8, <2>1, <2>3 DEF CoverInv
<1>9. CASE Save("daemon")
  <2>1. /\ R.pc = "save" /\ UNCHANGED <<samples, events>> /\ R'.pc = "idle"
        /\ cursor'.last = R.maxSeen /\ cursor'.ongoing = R.ongoing
    BY <1>9, SaveIs
  <2>2. Covered'
    <3>1. \A k \in DOMAIN samples : Looked(k)
      BY <1>9, LookedSave
    <3>2. QED
      BY <1>3, <2>1, <3>1 DEF Covered, Covers
  <2>3. ASSUME NEW p \in Sensor, R.ongoing[p] # 0 PROVE Resumable(p, cursor.ongoing[p])'
    <3>1. PICK j \in DOMAIN Phases : Phases[j] = p
      BY <2>3, Constants
    <3>2. j < R.i
      BY <1>2, <2>1 DEF RunInv
    <3>3. LeftOpen(p, R.ongoing[p])
      BY <1>3, <2>1, <2>3, <3>1, <3>2 DEF RunEvents
    <3>4. QED
      BY <2>1, <3>3 DEF LeftOpen, Resumable
  <2>4. QED
    BY <2>1, <2>2, <2>3 DEF CoverInv, CursorEvents, RunEvents
<1>10. CASE Abort("daemon")
  <2>1. UNCHANGED <<samples, events, cursor>> /\ R'.pc = "idle"
    BY <1>10, AbortIs, IdleIs
  <2>2. \A k \in DOMAIN samples : Looked(k)' => Looked(k)
    BY <2>1 DEF Looked
  <2>3. QED
    BY <1>3, <2>1, <2>2 DEF CoverInv, Covered, Covers, CursorEvents, Resumable, RunEvents
<1>11. CASE UNCHANGED vars
  <2>1. R' = R /\ UNCHANGED <<samples, events, cursor>>
    BY <1>11 DEF vars, R
  <2>2. Covered' /\ CursorEvents'
    BY <1>3, <2>1 DEF Covered, Covers, Looked, CursorEvents, Resumable
  <2>3. RunEvents'
    BY <1>3, <2>1 DEF RunEvents, LeftOpen
  <2>4. QED
    BY <2>1, <2>2, <2>3 DEF CoverInv, UnderWay
<1>12. QED
  BY <1>4, <1>6, <1>7, <1>8, <1>9, <1>10, <1>11, CoverScan, Steps

-----------------------------------------------------------------------------
(* What Describes depends on.                                              *)

\* A set of numbers that is not empty and has a bound has a greatest one.
LEMMA GreatestIs ==
  ASSUME NEW S \in SUBSET Nat, S # {}, NEW n \in Nat, \A x \in S : x <= n
  PROVE  \E j \in S : \A i \in S : i <= j
<1> DEFINE U == {m \in Nat : \A x \in S : x <= m}
           m == Min(U)
<1>1. m \in U /\ \A x \in U : m <= x
  <2>1. n \in U /\ U \in SUBSET Nat
    OBVIOUS
  <2> HIDE DEF U
  <2>2. QED
    BY <2>1, MinIs
<1>2. PICK j \in Nat : j = m
  BY <1>1
<1>3. (\A x \in S : x <= j) /\ \A y \in Nat : (\A x \in S : x <= y) => j <= y
  BY <1>1, <1>2
<1> HIDE DEF m, U
<1>4. CASE j \in S
  BY <1>3, <1>4
<1>5. CASE j \notin S
  <2>1. \A x \in S : x \in Nat /\ x <= j /\ x # j
    BY <1>3, <1>5
  <2>2. PICK y \in S : TRUE
    OBVIOUS
  <2>3. j - 1 \in Nat
    BY <2>1, <2>2
  <2>4. \A x \in S : x <= j - 1
    BY <2>1
  <2>5. j <= j - 1
    BY <1>3, <2>3, <2>4
  <2>6. QED
    BY <2>5
<1>6. QED
  BY <1>4, <1>5

\* Up to two places with the same readings of a sensor the same holds.
LEMMA SameReadings ==
  ASSUME NEW s, NEW ev, NEW p, NEW n, NEW m, NEW o,
         ReadingsOf(s, p, m) = ReadingsOf(s, p, n), Describes(s, ev, p, n, o)
  PROVE  Describes(s, ev, p, m, o)
<1>1. StartsOf(s, p, m) = StartsOf(s, p, n)
  BY DEF StartsOf
<1>2. \A k : BackOf(s, p, k, m) = BackOf(s, p, k, n)
  BY DEF BackOf
<1>3. \A k, e : IsEnd(s, p, k, m, e) <=> IsEnd(s, p, k, n, e)
  BY <1>2 DEF IsEnd
<1>4. \A j : LastOf(s, p, m, j) <=> LastOf(s, p, n, j)
  BY DEF LastOf
<1>5. QED
  BY <1>1, <1>3, <1>4 DEF Describes

\* Samples beyond the place do not matter.
LEMMA SameSamples ==
  ASSUME NEW s, NEW t, NEW ev, NEW p, NEW n \in Nat, NEW o,
         \A k \in 1..n : t[k] = s[k], Describes(s, ev, p, n, o)
  PROVE  Describes(t, ev, p, n, o)
<1>1. \A m \in Int : m <= n => ReadingsOf(t, p, m) = ReadingsOf(s, p, m)
  <2> SUFFICES ASSUME NEW m \in Int, m <= n PROVE ReadingsOf(t, p, m) = ReadingsOf(s, p, m)
    OBVIOUS
  <2>1. \A k \in 1..m : t[k] = s[k]
    OBVIOUS
  <2>2. QED
    BY <2>1 DEF ReadingsOf
<1>2. ReadingsOf(t, p, n) = ReadingsOf(s, p, n)
  BY <1>1
<1>3. \A m \in Int : \A j : m <= n => /\ LastOf(t, p, m, j) <=> LastOf(s, p, m, j)
                                      /\ LastOf(s, p, m, j) => t[j] = s[j]
  <2> SUFFICES ASSUME NEW m \in Int, NEW j, m <= n
               PROVE  /\ LastOf(t, p, m, j) <=> LastOf(s, p, m, j)
                      /\ LastOf(s, p, m, j) => t[j] = s[j]
    OBVIOUS
  <2>1. LastOf(t, p, m, j) <=> LastOf(s, p, m, j)
    BY <1>1 DEF LastOf
  <2>2. LastOf(s, p, m, j) => j \in 1..n
    BY DEF LastOf, ReadingsOf
  <2>3. QED
    BY <2>1, <2>2
<1>4. StartsOf(t, p, n) = StartsOf(s, p, n)
  <2>1. \A k \in ReadingsOf(s, p, n) : k \in Int /\ k - 1 \in Int /\ k - 1 <= n /\ t[k] = s[k]
    BY DEF ReadingsOf
  <2>2. \A k \in ReadingsOf(s, p, n) :
          (\A j : LastOf(t, p, k - 1, j) => InRange(t[j].v))
            <=> (\A j : LastOf(s, p, k - 1, j) => InRange(s[j].v))
    BY <1>3, <2>1
  <2>3. QED
    BY <1>2, <2>1, <2>2 DEF StartsOf
<1>5. \A k : BackOf(t, p, k, n) = BackOf(s, p, k, n)
  <2>1. \A j \in ReadingsOf(s, p, n) : t[j] = s[j]
    BY DEF ReadingsOf
  <2>2. QED
    BY <1>2, <2>1 DEF BackOf
<1>6. \A k, e : IsEnd(t, p, k, n, e) <=> IsEnd(s, p, k, n, e)
  BY <1>5 DEF IsEnd
<1>7. \A j : LastOf(t, p, n, j) => LastOf(s, p, n, j) /\ t[j] = s[j]
  BY <1>3
<1>8. QED
  BY <1>4, <1>6, <1>7 DEF Describes

\* Nor do the events of other sensors.
LEMMA SameEvents ==
  ASSUME NEW s, NEW ev, NEW fv, NEW p, NEW n, NEW o,
         DOMAIN ev \subseteq DOMAIN fv,
         \A e \in DOMAIN ev : fv[e].phase = ev[e].phase,
         \A e \in DOMAIN ev : ev[e].phase = p => fv[e].start = ev[e].start /\ fv[e].end = ev[e].end,
         \A e \in DOMAIN fv : fv[e].phase = p => e \in DOMAIN ev,
         Describes(s, ev, p, n, o)
  PROVE  Describes(s, fv, p, n, o)
<1>1. \A e \in DOMAIN fv : fv[e].phase = p =>
        e \in DOMAIN ev /\ ev[e].phase = p /\ fv[e].start = ev[e].start /\ fv[e].end = ev[e].end
  OBVIOUS
<1>2. \A e \in DOMAIN fv : fv[e].phase = p =>
         /\ fv[e].start \in StartsOf(s, p, n)
         /\ IsEnd(s, p, fv[e].start, n, fv[e].end)
         /\ fv[e].end = 0 <=> e = o
  BY <1>1 DEF Describes
<1>3. \A k \in StartsOf(s, p, n) : \E e \in DOMAIN fv : fv[e].phase = p /\ fv[e].start = k
  BY DEF Describes
<1>4. \A e, f \in DOMAIN fv :
         fv[e].phase = p /\ fv[f].phase = p /\ fv[e].start = fv[f].start => e = f
  BY <1>1 DEF Describes
<1>5. o # 0 => o \in DOMAIN fv /\ fv[o].phase = p
  BY DEF Describes
<1>6. QED
  BY <1>2, <1>3, <1>4, <1>5 DEF Describes

\* One more reading of the sensor.
LEMMA ReadingsGrow ==
  ASSUME NEW s \in Seq(SampleSet), NEW k \in DOMAIN s, NEW p, s[k].phase = p, s[k].v # Null
  PROVE  /\ ReadingsOf(s, p, k) = ReadingsOf(s, p, k - 1) \cup {k}
         /\ \A j \in ReadingsOf(s, p, k - 1) : j \in Nat /\ 1 <= j /\ j < k
         /\ \A j : LastOf(s, p, k, j) => j = k
         /\ StartsOf(s, p, k - 1) \subseteq ReadingsOf(s, p, k - 1)
         /\ k \notin ReadingsOf(s, p, k - 1) /\ k \in Nat
<1>1. k \in Nat /\ k >= 1
  OBVIOUS
<1>2. ReadingsOf(s, p, k) = ReadingsOf(s, p, k - 1) \cup {k}
  <2>1. \A j : j \in 1..k <=> j \in 1..(k - 1) \/ j = k
    BY <1>1
  <2>2. QED
    BY <2>1 DEF ReadingsOf
<1>3. \A j \in ReadingsOf(s, p, k - 1) : j \in Nat /\ 1 <= j /\ j < k
  BY <1>1 DEF ReadingsOf
<1>4. \A j : LastOf(s, p, k, j) => j = k
  <2> SUFFICES ASSUME NEW j, LastOf(s, p, k, j), j # k PROVE FALSE
    OBVIOUS
  <2>1. j \in ReadingsOf(s, p, k - 1) /\ k <= j
    BY <1>2 DEF LastOf
  <2>2. QED
    BY <1>1, <1>3, <2>1
<1>5. QED
  BY <1>1, <1>2, <1>3, <1>4 DEF StartsOf

\* What looking at sample k of phase p does to the events ev and the open one o:
\* they become fv and q.
Turned(s, k, p, ev, o, fv, q) ==
    /\ \A e \in DOMAIN ev : fv[e].phase = ev[e].phase /\ fv[e].start = ev[e].start
    /\ \/ (s[k].v # Null => InRange(s[k].v) /\ o = 0) /\ fv = ev /\ q = o
       \/ /\ OutOfRange(s[k].v) /\ o = 0 /\ q # 0
          /\ q \notin DOMAIN ev /\ DOMAIN fv = DOMAIN ev \cup {q}
          /\ fv[q].phase = p /\ fv[q].start = k /\ fv[q].end = 0
          /\ \A e \in DOMAIN ev : fv[e].end = ev[e].end
       \/ /\ OutOfRange(s[k].v) /\ o # 0 /\ q = o /\ DOMAIN fv = DOMAIN ev
          /\ \A e \in DOMAIN ev : fv[e].end = ev[e].end
       \/ /\ InRange(s[k].v) /\ o # 0 /\ q = 0 /\ DOMAIN fv = DOMAIN ev /\ o \in DOMAIN ev
          /\ fv[o].end = k
          /\ \A e \in DOMAIN ev : e # o => fv[e].end = ev[e].end

\* The events that one more reading leads to: none without a numeric value, a
\* new one when the sensor leaves the range, its end when it is back.
LEMMA OneMore ==
  ASSUME NEW s \in Seq(SampleSet), NEW k \in DOMAIN s, NEW p, s[k].phase = p,
         NEW ev, NEW o, NEW fv, NEW q, \A e \in DOMAIN ev : e # 0,
         Describes(s, ev, p, k - 1, o),
         Turned(s, k, p, ev, o, fv, q)
  PROVE  Describes(s, fv, p, k, q)
<1> USE DEF Turned
<1> DEFINE v == s[k].v
           Old == ReadingsOf(s, p, k - 1)
<1>1. k \in Nat /\ v \in Voltages \cup {Null}
  <2>1. s[k] \in SampleSet
    BY ElementOfSeq
  <2>2. QED
    BY <2>1 DEF SampleSet
<1>2. CASE v = Null
  <2>1. fv = ev /\ q = o
    BY <1>1, <1>2, RangeIs
  <2>2. ReadingsOf(s, p, k) = Old
    <3>1. \A j : j \in 1..k <=> j \in 1..(k - 1) \/ j = k
      OBVIOUS
    <3>2. QED
      BY <1>2, <3>1 DEF ReadingsOf
  <2>3. QED
    BY <2>1, <2>2, SameReadings
<1>3. CASE v # Null
  <2>1. /\ ReadingsOf(s, p, k) = Old \cup {k}
        /\ \A j \in Old : j \in Nat /\ 1 <= j /\ j < k
        /\ \A j : LastOf(s, p, k, j) => j = k
        /\ StartsOf(s, p, k - 1) \subseteq Old
        /\ k \notin Old
    BY <1>3, ReadingsGrow
  <2>2. OutOfRange(v) <=> ~InRange(v)
    BY <1>1, <1>3, RangeIs
  <2> DEFINE Calm == \A j : LastOf(s, p, k - 1, j) => InRange(s[j].v)
  <2>3. StartsOf(s, p, k) = StartsOf(s, p, k - 1) \cup {j \in {k} : OutOfRange(v) /\ Calm}
    BY <2>1 DEF StartsOf
  <2>4. Calm <=> o = 0
    <3>1. o = 0 => Calm
      BY DEF Describes
    <3>2. ASSUME o # 0 PROVE ~Calm
      <4>1. ev[o].start \in Old
        BY <2>1, <3>2 DEF Describes
      <4>2. Old \in SUBSET Nat /\ \A x \in Old : x <= k
        BY <1>1, <2>1
      <4> HIDE DEF Old
      <4>3. PICK j \in Old : \A i \in Old : i <= j
        BY <1>1, <4>1, <4>2, GreatestIs
      <4>4. LastOf(s, p, k - 1, j)
        BY <4>3 DEF LastOf, Old
      <4>5. ~InRange(s[j].v)
        BY <3>2, <4>4 DEF Describes
      <4>6. QED
        BY <4>4, <4>5
    <3>3. QED
      BY <3>1, <3>2
  <2>5. \A m \in Old : BackOf(s, p, m, k) = BackOf(s, p, m, k - 1) \cup {j \in {k} : InRange(v)}
    BY <1>1, <2>1 DEF BackOf
  <2>6. \A m \in Old : BackOf(s, p, m, k - 1) \subseteq Old
    BY DEF BackOf
  <2> HIDE DEF v, Old, Calm
  <2>7. \A m \in Old : \A e : e # 0 /\ IsEnd(s, p, m, k - 1, e) => IsEnd(s, p, m, k, e)
    <3> SUFFICES ASSUME NEW m \in Old, NEW e, e # 0, IsEnd(s, p, m, k - 1, e)
                 PROVE  IsEnd(s, p, m, k, e)
      OBVIOUS
    <3>1. e \in BackOf(s, p, m, k - 1) /\ \A j \in BackOf(s, p, m, k - 1) : e <= j
      BY DEF IsEnd
    <3>2. e <= k
      BY <1>1, <2>1, <2>6, <3>1
    <3>3. QED
      BY <2>5, <3>1, <3>2 DEF IsEnd
  <2>8. \A m \in Old : IsEnd(s, p, m, k - 1, 0) => BackOf(s, p, m, k - 1) = {}
    BY <2>1, <2>6 DEF IsEnd
  <2>9. \A m \in Old : IsEnd(s, p, m, k - 1, 0) =>
          IF InRange(v) THEN IsEnd(s, p, m, k, k) ELSE IsEnd(s, p, m, k, 0)
    BY <1>1, <2>5, <2>8 DEF IsEnd
  <2>10. \A e \in DOMAIN ev : ev[e].phase = p =>
           /\ ev[e].start \in StartsOf(s, p, k - 1) /\ ev[e].start \in Old
           /\ IsEnd(s, p, ev[e].start, k - 1, ev[e].end)
           /\ ev[e].end = 0 <=> e = o
    BY <2>1 DEF Describes
  <2>11. /\ \A j \in StartsOf(s, p, k - 1) : \E e \in DOMAIN ev : ev[e].phase = p /\ ev[e].start = j
         /\ \A e, f \in DOMAIN ev :
              ev[e].phase = p /\ ev[f].phase = p /\ ev[e].start = ev[f].start => e = f
         /\ o # 0 => o \in DOMAIN ev /\ ev[o].phase = p
    BY DEF Describes
  <2>12. CASE InRange(v) /\ o = 0 /\ fv = ev /\ q = 0
    <3>1. StartsOf(s, p, k) = StartsOf(s, p, k - 1)
      BY <2>2, <2>3, <2>12
    <3>2. \A e \in DOMAIN fv : fv[e].phase = p =>
            /\ fv[e].start \in StartsOf(s, p, k)
            /\ IsEnd(s, p, fv[e].start, k, fv[e].end)
            /\ fv[e].end = 0 <=> e = q
      BY <2>7, <2>10, <2>12, <3>1
    <3>3. \A j : LastOf(s, p, k, j) => (InRange(s[j].v) <=> q = 0)
      BY <2>1, <2>12 DEF v
    <3>4. QED
      BY <2>11, <2>12, <3>1, <3>2, <3>3 DEF Describes
  <2>13. CASE /\ OutOfRange(v) /\ o = 0 /\ q # 0
              /\ q \notin DOMAIN ev /\ DOMAIN fv = DOMAIN ev \cup {q}
              /\ fv[q].phase = p /\ fv[q].start = k /\ fv[q].end = 0
              /\ \A e \in DOMAIN ev : fv[e].end = ev[e].end
    <3>1. StartsOf(s, p, k) = StartsOf(s, p, k - 1) \cup {k}
      BY <2>3, <2>4, <2>13
    <3>2. ASSUME NEW e \in DOMAIN fv, fv[e].phase = p
          PROVE  /\ fv[e].start \in StartsOf(s, p, k)
                 /\ IsEnd(s, p, fv[e].start, k, fv[e].end)
                 /\ fv[e].end = 0 <=> e = q
      <4>1. CASE e \in DOMAIN ev
        BY <2>7, <2>10, <2>13, <3>1, <3>2, <4>1
      <4>2. CASE e = q
        <5>1. BackOf(s, p, k, k) = {}
          BY <1>1, <2>1 DEF BackOf
        <5>2. QED
          BY <2>13, <3>1, <4>2, <5>1 DEF IsEnd
      <4>3. QED
        BY <2>13, <4>1, <4>2
    <3>3. \A j \in StartsOf(s, p, k) : \E e \in DOMAIN fv : fv[e].phase = p /\ fv[e].start = j
      BY <2>11, <2>13, <3>1
    <3>4. ASSUME NEW e \in DOMAIN fv, NEW f \in DOMAIN fv, fv[e].phase = p, fv[f].phase = p,
                 fv[e].start = fv[f].start
          PROVE  e = f
      <4>1. \A g \in DOMAIN ev : fv[g].phase = p => fv[g].start # k /\ ev[g].phase = p /\ fv[g].start = ev[g].start
        BY <2>1, <2>10
      <4>2. QED
        BY <2>11, <2>13, <3>4, <4>1
    <3>5. \A j : LastOf(s, p, k, j) => (InRange(s[j].v) <=> q = 0)
      BY <2>1, <2>2, <2>13 DEF v
    <3>6. QED
      BY <2>13, <3>2, <3>3, <3>4, <3>5 DEF Describes
  <2>14. CASE /\ OutOfRange(v) /\ o # 0 /\ q = o /\ DOMAIN fv = DOMAIN ev
              /\ \A e \in DOMAIN ev : fv[e].end = ev[e].end
    <3>1. StartsOf(s, p, k) = StartsOf(s, p, k - 1)
      BY <2>3, <2>4, <2>14
    <3>2. ASSUME NEW e \in DOMAIN fv, fv[e].phase = p
          PROVE  /\ fv[e].start \in StartsOf(s, p, k)
                 /\ IsEnd(s, p, fv[e].start, k, fv[e].end)
                 /\ fv[e].end = 0 <=> e = q
      BY <2>2, <2>7, <2>9, <2>10, <2>14, <3>1, <3>2
    <3>3. \A j : LastOf(s, p, k, j) => (InRange(s[j].v) <=> q = 0)
      BY <2>1, <2>2, <2>14 DEF v
    <3>4. QED
      BY <2>11, <2>14, <3>1, <3>2, <3>3 DEF Describes
  <2>15. CASE /\ InRange(v) /\ o # 0 /\ q = 0 /\ DOMAIN fv = DOMAIN ev /\ o \in DOMAIN ev
              /\ fv[o].end = k
              /\ \A e \in DOMAIN ev : e # o => fv[e].end = ev[e].end
    <3>1. StartsOf(s, p, k) = StartsOf(s, p, k - 1)
      BY <2>2, <2>3, <2>15
    <3>2. ASSUME NEW e \in DOMAIN fv, fv[e].phase = p
          PROVE  /\ fv[e].start \in StartsOf(s, p, k)
                 /\ IsEnd(s, p, fv[e].start, k, fv[e].end)
                 /\ fv[e].end = 0 <=> e = q
      <4>1. e \in DOMAIN ev /\ ev[e].phase = p /\ fv[e].start = ev[e].start
        BY <2>15, <3>2
      <4>2. CASE e = o
        BY <1>1, <2>9, <2>10, <2>15, <3>1, <4>1, <4>2
      <4>3. CASE e # o
        BY <2>7, <2>10, <2>15, <3>1, <4>1, <4>3
      <4>4. QED
        BY <4>2, <4>3
    <3>3. \A j : LastOf(s, p, k, j) => (InRange(s[j].v) <=> q = 0)
      BY <2>1, <2>2, <2>15 DEF v
    <3>4. QED
      BY <2>11, <2>15, <3>1, <3>2, <3>3 DEF Describes
  <2>16. QED
    BY <1>3, <2>12, <2>13, <2>14, <2>15 DEF v
<1>4. QED
  BY <1>2, <1>3

-----------------------------------------------------------------------------
(* The table describes what has been looked at.                            *)

\* Looking at a sample.
LEMMA BatchScan ==
  ASSUME TypeInv, RunInv, CoverInv, BatchInv, Offline = FALSE, Scan("daemon"), aborts = 0,
         NEW p \in Sensor, NEW n \in 0..Len(samples), UpTo(p, n)'
  PROVE  Describes(samples, events, p, n, Ongoing(p))'
<1>1. PICK k \in R.rows :
           /\ k \in DOMAIN samples /\ \A j \in R.rows : k <= j
           /\ R'.pc = "scan" /\ R'.last = R.last /\ R'.ongoing = R.ongoing /\ R'.i = R.i
           /\ R'.rows = R.rows \ {k}
           /\ DOMAIN events \subseteq DOMAIN events'
           /\ \A e \in DOMAIN events :
                /\ events'[e].phase = events[e].phase /\ events'[e].start = events[e].start
                /\ \/ events'[e].end = events[e].end
                   \/ e = R.event /\ R'.event = 0 /\ events'[e].end = k /\ InRange(samples[k].v)
           /\ \/ /\ samples[k].v # Null => InRange(samples[k].v) /\ R.event = 0
                 /\ events' = events /\ R'.event = R.event
              \/ /\ OutOfRange(samples[k].v) /\ R.event = 0 /\ R'.event # 0
                 /\ R'.event \notin DOMAIN events /\ DOMAIN events' = DOMAIN events \cup {R'.event}
                 /\ events'[R'.event].phase = samples[k].phase /\ events'[R'.event].start = k
                 /\ events'[R'.event].end = 0
              \/ /\ OutOfRange(samples[k].v) /\ R.event # 0 /\ R'.event = R.event
                 /\ DOMAIN events' = DOMAIN events
              \/ /\ InRange(samples[k].v) /\ R.event # 0 /\ R'.event = 0
                 /\ DOMAIN events' = DOMAIN events /\ R.event \in DOMAIN events
                 /\ events'[R.event].end = k
                 /\ \A e \in DOMAIN events : e # R.event => events'[e].end = events[e].end
  BY ScanEvents
<1>2. R.pc = "scan" /\ UNCHANGED <<samples, cursor>>
  BY ScanIs
<1>3. R.i \in DOMAIN Phases /\ samples[k].phase = Phases[R.i] /\ k > cursor.last
      /\ R.rows \subseteq NewRows(Phases[R.i], cursor.last)
  BY <1>2 DEF RunInv, NewRows
<1>4. /\ k \in Nat /\ samples \in Seq(SampleSet) /\ Len(samples) \in Nat
      /\ DOMAIN samples = 1..Len(samples) /\ \A e \in DOMAIN events : e # 0
      /\ cursor.last \in Nat /\ R.rows \subseteq Nat
  <2>1. /\ samples \in Seq(SampleSet) /\ Len(samples) \in Nat /\ DOMAIN samples = 1..Len(samples)
        /\ Len(events) \in Nat /\ DOMAIN events = 1..Len(events)
        /\ cursor.last \in Nat /\ R.rows \subseteq DOMAIN samples
    BY Types
  <2>2. QED
    BY <1>1, <2>1
<1>5. \A j \in DOMAIN samples : Looked(j)' <=> Looked(j) \/ j = k
  BY <1>1, LookedScan
<1>6. \A j \in DOMAIN samples : samples[j].phase = p => (j <= n <=> Looked(j) \/ j = k)
  BY <1>2, <1>5 DEF UpTo
<1>7. R.event # 0 => R.event \in DOMAIN events /\ events[R.event].phase = Phases[R.i]
  BY <1>2, Types DEF CoverInv, UnderWay
<1>8. CASE p = Phases[R.i]
  <2>1. \A j \in DOMAIN samples : samples[j].phase = p => (j <= k - 1 <=> Looked(j))
    <3> SUFFICES ASSUME NEW j \in DOMAIN samples, samples[j].phase = p
                 PROVE  j <= k - 1 <=> Looked(j)
      OBVIOUS
    <3>1. Looked(j) => j < k
      BY <1>2, <1>8, LookedBefore
    <3>2. j < k => j \notin R.rows
      BY <1>1, <1>4
    <3>3. j \notin R.rows => Looked(j)
      BY <1>2, <1>3, <1>8 DEF Looked
    <3>4. QED
      BY <1>4, <3>1, <3>2, <3>3
  <2>2. k - 1 \in 0..Len(samples)
    BY <1>1, <1>4
  <2>3. Ongoing(p) = R.event /\ Ongoing(p)' = R'.event
    BY <1>1, <1>2, <1>8 DEF Ongoing
  <2>4. Describes(samples, events, p, k - 1, R.event)
    BY <2>1, <2>2, <2>3 DEF BatchInv, UpTo
  <2>5. Describes(samples, events', p, k, R'.event)
    <3>1. samples[k].phase = p
      BY <1>3, <1>8
    <3>2. Turned(samples, k, p, events, R.event, events', R'.event)
      BY <1>1, <3>1 DEF Turned
    <3> DEFINE ev == events
               fv == events'
               o == R.event
               q == R'.event
               s == samples
    <3>3. /\ s \in Seq(SampleSet) /\ k \in DOMAIN s /\ s[k].phase = p
          /\ \A e \in DOMAIN ev : e # 0
          /\ Describes(s, ev, p, k - 1, o) /\ Turned(s, k, p, ev, o, fv, q)
      BY <1>1, <1>4, <2>4, <3>1, <3>2
    <3> HIDE DEF ev, fv, o, q, s
    <3>4. Describes(s, fv, p, k, q)
      BY <3>3, OneMore
    <3>5. QED
      BY <3>4 DEF s, fv, q
  <2>6. ReadingsOf(samples, p, n) = ReadingsOf(samples, p, k)
    <3>1. \A j \in DOMAIN samples : samples[j].phase = p => (j <= n <=> j <= k)
      BY <1>4, <1>6, <2>1
    <3>2. QED
      BY <1>1, <1>4, <3>1 DEF ReadingsOf
  <2>7. Describes(samples, events', p, n, R'.event)
    BY <2>5, <2>6, SameReadings
  <2>8. QED
    BY <1>2, <2>3, <2>7
<1>9. CASE p # Phases[R.i]
  <2>1. UpTo(p, n)
    BY <1>3, <1>6, <1>9 DEF UpTo
  <2>2. Ongoing(p)' = Ongoing(p)
    BY <1>1, <1>2, <1>9 DEF Ongoing
  <2>3. Describes(samples, events, p, n, Ongoing(p))
    BY <2>1 DEF BatchInv
  <2>4. /\ \A e \in DOMAIN events : events'[e].phase = events[e].phase
        /\ \A e \in DOMAIN events : events[e].phase = p =>
             events'[e].start = events[e].start /\ events'[e].end = events[e].end
        /\ \A e \in DOMAIN events' : events'[e].phase = p => e \in DOMAIN events
    <3>1. ASSUME NEW e \in DOMAIN events, events[e].phase = p PROVE e # R.event
      <4>1. e # 0
        BY <1>4
      <4>2. QED
        BY <1>7, <1>9, <3>1, <4>1
    <3>2. \A e \in DOMAIN events' : events'[e].phase = p => e \in DOMAIN events
      BY <1>1, <1>3, <1>9
    <3>3. QED
      BY <1>1, <3>1, <3>2
  <2>5. Describes(samples, events', p, n, Ongoing(p))
    BY <1>1, <2>3, <2>4, SameEvents
  <2>6. QED
    BY <1>2, <2>2, <2>5
<1>10. QED
  BY <1>8, <1>9

\* Every other step.
LEMMA BatchNext ==
  ASSUME TypeInv, RunInv, CoverInv, BatchInv, Offline = FALSE, [Next]_vars
  PROVE  BatchInv'
<1>1. /\ DOMAIN samples = 1..Len(samples) /\ Len(samples) \in Nat
      /\ cursor.last \in Nat /\ cursor.last <= Len(samples) /\ aborts \in Nat
      /\ cursor.ongoing \in [Sensor -> 0..Len(events)] /\ R.ongoing \in [Sensor -> 0..Len(events)]
  BY Types DEF TypeInv, TypeOK
<1>2. ASSUME NEW q \in Sensor, NEW v \in Voltages \cup {Null}, InsertSample(q, v) PROVE BatchInv'
  <2>1. /\ R.pc = "idle" /\ R' = R /\ UNCHANGED <<events, cursor, aborts>>
        /\ DOMAIN samples' = 1..(Len(samples) + 1) /\ Len(samples') = Len(samples) + 1
        /\ \A k \in DOMAIN samples : samples'[k] = samples[k]
    BY <1>2, InsertIs
  <2> SUFFICES ASSUME aborts = 0, NEW p \in Sensor, NEW n \in 0..(Len(samples) + 1), UpTo(p, n)'
               PROVE  Describes(samples', events, p, n, cursor.ongoing[p])
    BY <2>1 DEF BatchInv, Ongoing
  <2>2. \A k \in DOMAIN samples' : samples'[k].phase = p => (k <= n <=> k <= cursor.last)
    BY <2>1 DEF UpTo, Looked
  <2>3. ASSUME NEW m \in 0..Len(samples),
               \A k \in DOMAIN samples : samples[k].phase = p => (k <= m <=> k <= cursor.last)
        PROVE  Describes(samples', events, p, m, cursor.ongoing[p])
    <3>1. UpTo(p, m) /\ Ongoing(p) = cursor.ongoing[p]
      BY <2>1, <2>3 DEF UpTo, Looked, Ongoing
    <3>2. Describes(samples, events, p, m, cursor.ongoing[p])
      BY <3>1 DEF BatchInv
    <3>3. m \in Nat /\ \A k \in 1..m : samples'[k] = samples[k]
      BY <1>1, <2>1
    <3>4. QED
      BY <3>2, <3>3, SameSamples
  <2>4. CASE n \in 0..Len(samples)
    BY <1>1, <2>1, <2>2, <2>3, <2>4
  <2>5. CASE n = Len(samples) + 1
    <3>1. samples'[Len(samples) + 1].phase # p
      BY <1>1, <2>1, <2>2, <2>5
    <3>2. ReadingsOf(samples', p, n) = ReadingsOf(samples', p, Len(samples))
      <4>1. \A k : k \in 1..n <=> k \in 1..Len(samples) \/ k = Len(samples) + 1
        BY <1>1, <2>5
      <4>2. QED
        BY <3>1, <4>1 DEF ReadingsOf
    <3>3. Len(samples) \in 0..Len(samples)
      BY <1>1
    <3>4. \A k \in DOMAIN samples : samples[k].phase = p => (k <= Len(samples) <=> k <= cursor.last)
      BY <1>1, <2>1, <2>2, <2>5
    <3>5. Describes(samples', events, p, Len(samples), cursor.ongoing[p])
      BY <2>3, <3>3, <3>4
    <3>6. QED
      BY <3>2, <3>5, SameReadings
  <2>6. QED
    BY <1>1, <2>4, <2>5
<1>3. ASSUME UNCHANGED <<samples, events, aborts>>,
             \A k \in DOMAIN samples : Looked(k)' <=> Looked(k),
             \A p \in Sensor : Ongoing(p)' = Ongoing(p)
      PROVE  BatchInv'
  <2>1. \A p, n : UpTo(p, n)' <=> UpTo(p, n)
    BY <1>3 DEF UpTo
  <2>2. QED
    BY <1>3, <2>1 DEF BatchInv
<1>4. CASE Begin("daemon")
  <2>1. /\ R.pc = "idle" /\ UNCHANGED <<samples, events, aborts>> /\ R'.pc = "fetch"
        /\ R'.ongoing = cursor.ongoing
    BY <1>4, BeginIs
  <2>2. \A p \in Sensor : Ongoing(p)' = Ongoing(p)
    BY <2>1 DEF Ongoing
  <2>3. QED
    BY <1>3, <1>4, <2>1, <2>2, LookedSame
<1>5. CASE Fetch("daemon")
  <2>1. /\ R.pc = "fetch" /\ UNCHANGED <<samples, events, aborts>> /\ R'.pc = "scan"
        /\ R'.ongoing = R.ongoing /\ R'.i = R.i /\ R'.event = R.ongoing[Phases[R.i]]
    BY <1>5, FetchIs
  <2>2. \A p \in Sensor : Ongoing(p)' = Ongoing(p)
    BY <2>1 DEF Ongoing
  <2>3. QED
    BY <1>3, <1>5, <2>1, <2>2, LookedSame
<1>6. CASE NextSensor("daemon")
  <2>1. /\ R.pc = "scan" /\ UNCHANGED <<samples, events, aborts>> /\ R'.pc \in {"save", "fetch"}
        /\ R'.ongoing = [R.ongoing EXCEPT ![Phases[R.i]] = R.event]
    BY <1>6, NextSensorIs
  <2>2. \A p \in Sensor : Ongoing(p)' = Ongoing(p)
    BY <1>1, <2>1 DEF Ongoing
  <2>3. QED
    BY <1>3, <1>6, <2>1, <2>2, LookedSame
<1>7. CASE Scan("daemon")
  <2>1. UNCHANGED <<samples, aborts>>
    BY <1>7, ScanIs
  <2>2. QED
    BY <1>7, <2>1, BatchScan DEF BatchInv
<1>8. CASE Save("daemon")
  <2>1. /\ R.pc = "save" /\ UNCHANGED <<samples, events, aborts>> /\ R'.pc = "idle"
        /\ cursor'.ongoing = R.ongoing
    BY <1>8, SaveIs
  <2>2. \A p \in Sensor : Ongoing(p)' = Ongoing(p)
    BY <2>1 DEF Ongoing
  <2>3. \A k \in DOMAIN samples : Looked(k)' <=> Looked(k)
    BY <1>8, LookedSave
  <2>4. QED
    BY <1>3, <2>1, <2>2, <2>3
<1>9. CASE Abort("daemon")
  <2>1. aborts' = aborts + 1
    BY <1>9, AbortIs
  <2>2. aborts' # 0
    BY <1>1, <2>1
  <2>3. QED
    BY <2>2 DEF BatchInv
<1>10. CASE UNCHANGED vars
  <2>1. R' = R /\ UNCHANGED <<samples, events, cursor, aborts>>
    BY <1>10 DEF vars, R
  <2>2. QED
    BY <1>3, <2>1 DEF Looked, Ongoing
<1>11. QED
  BY <1>2, <1>4, <1>5, <1>6, <1>7, <1>8, <1>9, <1>10, Steps

-----------------------------------------------------------------------------
(* The invariant and the theorems.                                         *)

\* At the start there is nothing to describe.
LEMMA InitInv == ASSUME Init, Offline = FALSE PROVE IInv
<1>1. /\ samples = <<>> /\ events = <<>> /\ seen = {} /\ aborts = 0
      /\ cursor = [last |-> 0, ongoing |-> [p \in Sensor |-> 0]]
      /\ run = [a \in Analysers |-> Idle] /\ Analysers = {"daemon"}
  BY DEF Init, Analysers
<1>2. R = Idle /\ run \in [Analysers -> RunType] /\ R.pc = "idle" /\ R.count = 0
  BY <1>1, IdleIs DEF R
<1>3. DOMAIN samples = {} /\ DOMAIN events = {} /\ Len(samples) = 0 /\ Len(events) = 0
  BY <1>1
<1>4. cursor.last = 0 /\ \A p \in Sensor : cursor.ongoing[p] = 0
  BY <1>1
<1>5. TypeInv
  <2>1. /\ samples \in Seq([phase: Sensor, v: Voltages \cup {Null}])
        /\ events \in Seq([phase: Sensor, start: 1..Len(samples), end: 0..Len(samples),
                           lo: Voltages, hi: Voltages])
    BY <1>1
  <2>2. cursor \in [last: 0..Len(samples), ongoing: [Sensor -> EventID]]
    BY <1>1, <1>3 DEF EventID
  <2>3. seen \subseteq 1..Len(samples) /\ aborts \in 0..MaxAborts
    BY <1>1, Constants
  <2>4. \A a \in Analysers :
         /\ run[a].pc \in {"idle", "fetch", "scan", "save"}
         /\ run[a].last \in 0..Len(samples) /\ run[a].maxSeen \in 0..Len(samples)
         /\ run[a].ongoing \in [Sensor -> EventID] /\ run[a].event \in EventID
         /\ run[a].i \in 1..(Len(Phases) + 1)
         /\ run[a].rows \subseteq 1..Len(samples)
    <3>1. 1 \in 1..(Len(Phases) + 1)
      BY Constants
    <3>2. QED
      BY <1>1, <1>3, <3>1 DEF Idle, EventID
  <2>5. QED
    BY <1>2, <2>1, <2>2, <2>3, <2>4 DEF TypeInv, TypeOK
<1>6. RunInv
  BY <1>2, <1>3 DEF RunInv
<1>7. CoverInv
  BY <1>2, <1>3, <1>4 DEF CoverInv, Covered, CursorEvents, RunEvents
<1>8. BatchInv
  <2> SUFFICES ASSUME NEW p \in Sensor, NEW n \in 0..0
               PROVE  Describes(samples, events, p, n, 0)
    BY <1>2, <1>3, <1>4 DEF BatchInv, Ongoing
  <2>1. ReadingsOf(samples, p, n) = {}
    BY DEF ReadingsOf
  <2>2. QED
    BY <1>3, <2>1 DEF Describes, StartsOf, LastOf
<1>9. QED
  BY <1>5, <1>6, <1>7, <1>8 DEF IInv

\* Every step keeps the invariant.
LEMMA NextInv == ASSUME IInv, Offline = FALSE, [Next]_vars PROVE IInv'
BY TypeNext, RunNext, CoverNext, BatchNext DEF IInv

\* The daemon alone: whatever the samples and wherever runs are cut short.
LEMMA Invariance == ASSUME Offline = FALSE PROVE Spec => []IInv
<1>1. Init => IInv
  BY InitInv
<1>2. IInv /\ [Next]_vars => IInv'
  BY NextInv
<1>3. QED
  BY <1>1, <1>2, PTL DEF Spec

\* EndOf is what IsEnd says.
LEMMA EndIs ==
  ASSUME TypeInv, NEW p, NEW k, NEW n, NEW m, IsEnd(samples, p, k, n, m)
  PROVE  m = EndOf(p, k, n)
<1> DEFINE B == BackOf(samples, p, k, n)
<1>1. EndOf(p, k, n) = IF B = {} THEN 0 ELSE Min(B)
  BY DEF EndOf, BackOf, Readings, ReadingsOf
<1>2. B \in SUBSET Nat
  BY DEF BackOf, ReadingsOf
<1>3. \/ m = 0 /\ B = {}
      \/ m \in B /\ \A j \in B : m <= j
  BY DEF IsEnd
<1> HIDE DEF B
<1>4. CASE m \in B /\ \A j \in B : m <= j
  <2>1. Min(B) \in B /\ \A x \in B : Min(B) <= x
    BY <1>2, <1>4, MinIs
  <2>2. PICK a \in B : a = Min(B)
    BY <2>1
  <2>3. a <= m /\ m <= a /\ a \in Nat /\ m \in Nat
    BY <1>2, <1>4, <2>1, <2>2
  <2>4. m = a
    BY <2>3
  <2>5. QED
    BY <1>1, <1>4, <2>2, <2>4
<1>5. QED
  BY <1>1, <1>3, <1>4

\* Starts is what StartsOf says.
LEMMA StartsIs ==
  ASSUME TypeInv, NEW p, NEW n
  PROVE  Starts(p, n) = StartsOf(samples, p, n)
BY DEF Starts, StartsOf, Readings, ReadingsOf, LastOf

\* When the analysis rests, the table describes the samples up to the cursor.
LEMMA AtRest ==
  ASSUME IInv, Offline = FALSE, Quiet, aborts = 0, NEW p \in Sensor
  PROVE  Describes(samples, events, p, cursor.last, cursor.ongoing[p])
<1>1. R.pc = "idle"
  BY DEF Quiet, R, Analysers
<1>2. cursor.last \in 0..Len(samples)
  BY Types DEF IInv
<1>3. UpTo(p, cursor.last) /\ Ongoing(p) = cursor.ongoing[p]
  BY <1>1 DEF UpTo, Looked, Ongoing
<1>4. QED
  BY <1>2, <1>3 DEF IInv, BatchInv

\* The events of a sensor and the runs of readings out of range are as many.
LEMMA SameNumber ==
  ASSUME IInv, NEW p, NEW n, NEW o, Describes(samples, events, p, n, o)
  PROVE  Cardinality(Found(p)) = Cardinality(Starts(p, n))
<1>1. DOMAIN events = 1..Len(events) /\ Len(events) \in Nat
  BY Types DEF IInv
<1>2. IsFiniteSet(Found(p))
  <2>1. IsFiniteSet(1..Len(events))
    BY <1>1, FS_Interval
  <2>2. QED
    BY <1>1, <2>1, FS_Subset DEF Found
<1> DEFINE f == [e \in Found(p) |-> events[e].start]
<1>3. f \in Bijection(Found(p), Starts(p, n))
  <2>1. Starts(p, n) = StartsOf(samples, p, n)
    BY StartsIs DEF IInv
  <2>2. f \in [Found(p) -> Starts(p, n)]
    BY <2>1 DEF Found, Describes
  <2>3. \A e, g \in Found(p) : f[e] = f[g] => e = g
    BY DEF Found, Describes
  <2>4. \A k \in Starts(p, n) : \E e \in Found(p) : f[e] = k
    BY <2>1 DEF Found, Describes
  <2> HIDE DEF f
  <2>5. QED
    BY <2>2, <2>3, <2>4 DEF Bijection, Injection, Surjection, IsInjective
<1>4. ExistsBijection(Found(p), Starts(p, n))
  BY <1>3 DEF ExistsBijection
<1>5. QED
  BY <1>2, <1>4, FS_Bijection

\* TypeOK, for the daemon alone.
THEOREM TypeCorrect == ASSUME Offline = FALSE PROVE Spec => []TypeOK
<1>1. IInv => TypeOK
  BY DEF IInv, TypeInv
<1>2. QED
  BY <1>1, Invariance, PTL

\* IncrementalEqualsBatch, for every number and value of samples and every
\* division of them into runs: when the daemon rests after runs that all came to
\* their end, voltage_events holds exactly the maximal runs of out-of-range
\* readings up to the cursor, each once, with its start and its end, and the
\* cursor knows the one that is open.
THEOREM EventsAreThoseOfOneLook ==
  ASSUME Offline = FALSE PROVE Spec => []IncrementalEqualsBatch
<1>1. IInv => IncrementalEqualsBatch
  <2> SUFFICES ASSUME IInv, Quiet, aborts = 0, NEW p \in Sensor
               PROVE  /\ {[start |-> events[e].start, end |-> events[e].end] : e \in Found(p)}
                           = Spans(p, cursor.last)
                      /\ Cardinality(Found(p)) = Cardinality(Starts(p, cursor.last))
                      /\ {e \in Found(p) : events[e].end = 0} = {cursor.ongoing[p]} \ {0}
    BY DEF IncrementalEqualsBatch
  <2> DEFINE n == cursor.last
             o == cursor.ongoing[p]
  <2>1. Describes(samples, events, p, n, o)
    BY AtRest
  <2>2. TypeInv /\ \A e \in DOMAIN events : e # 0
    BY Types DEF IInv
  <2> HIDE DEF n, o
  <2>3. Starts(p, n) = StartsOf(samples, p, n)
    BY <2>2, StartsIs
  <2>4. \A e \in Found(p) :
          events[e].start \in Starts(p, n) /\ events[e].end = EndOf(p, events[e].start, n)
    BY <2>1, <2>2, <2>3, EndIs DEF Found, Describes
  <2>5. \A k \in Starts(p, n) : \E e \in Found(p) : events[e].start = k
    BY <2>1, <2>3 DEF Found, Describes
  <2>6. {[start |-> events[e].start, end |-> events[e].end] : e \in Found(p)} = Spans(p, n)
    BY <2>4, <2>5 DEF Spans
  <2>7. Cardinality(Found(p)) = Cardinality(Starts(p, n))
    BY <2>1, SameNumber
  <2>8. {e \in Found(p) : events[e].end = 0} = {o} \ {0}
    BY <2>1, <2>2 DEF Found, Describes
  <2>9. QED
    BY <2>6, <2>7, <2>8 DEF n, o
<1>2. QED
  BY <1>1, Invariance, PTL

\* NoSampleSkipped: whatever runs were cut short, the cursor stands behind no
\* sample that the analysis has not looked at.
THEOREM NothingSkipped == ASSUME Offline = FALSE PROVE Spec => []NoSampleSkipped
<1>1. IInv => NoSampleSkipped
  <2> SUFFICES ASSUME IInv, NEW k \in 1..cursor.last PROVE k \in seen
    BY DEF NoSampleSkipped
  <2>1. k \in DOMAIN samples /\ k <= cursor.last
    BY Types DEF IInv
  <2>2. QED
    BY <2>1 DEF IInv, RunInv, Looked
<1>2. QED
  BY <1>1, Invariance, PTL

\* OutOfRangeCovered: whatever runs were cut short, an out-of-range reading
\* behind the cursor lies in an event of its sensor.
THEOREM NothingUncovered == ASSUME Offline = FALSE PROVE Spec => []OutOfRangeCovered
<1>1. IInv => OutOfRangeCovered
  <2> SUFFICES ASSUME IInv, NEW k \in 1..cursor.last, OutOfRange(samples[k].v)
               PROVE  \E e \in Found(samples[k].phase) :
                        events[e].start <= k /\ (events[e].end = 0 \/ k < events[e].end)
    BY DEF OutOfRangeCovered
  <2>1. k \in DOMAIN samples /\ k <= cursor.last
    BY Types DEF IInv
  <2>2. PICK e \in DOMAIN events : Covers(e, k)
    BY <2>1 DEF IInv, CoverInv, Covered, Looked
  <2>3. QED
    BY <2>2 DEF Covers, Found
<1>2. QED
  BY <1>1, Invariance, PTL
=============================================================================
