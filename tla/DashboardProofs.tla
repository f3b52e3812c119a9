-------------------------- MODULE DashboardProofs ---------------------------
(***************************************************************************)
(* Proofs about Dashboard: however many events there are, however long the *)
(* pages are, the list of voltage events shows no event twice and has no   *)
(* holes, today's energy is not negative, and the points of a graph are    *)
(* evenly spread over its samples.                                         *)
(***************************************************************************)
EXTENDS Dashboard, FiniteSetTheorems, WellFoundedInduction, TLAPS

-----------------------------------------------------------------------------
(* The list of voltage events.                                             *)

\* The highest id of the events that a request with this cursor may answer.
Top(before, n) == IF before > 0 /\ before <= n THEN before - 1 ELSE n

\* The lowest id of a page that ends with m.
Bottom(m) == IF m < Limit THEN 1 ELSE m - Limit + 1

\* The rows of voltage_events are numbered without a gap.
TableInv(n) == n \in 0..MaxEvents /\ table = 1..n

\* The list ends at the cursor, or at the first event when an empty page has
\* reset it.
Low == IF voltageCursor > 0 THEN voltageCursor ELSE 1

\* It shows the events from there on up to high, once each.
ShownInv(high) ==
    shown = [i \in IDs |-> IF Low <= i /\ i <= high THEN 1 ELSE 0]

\* Before the first page it is empty, and it is complete when there are no more.
CursorInv(high) ==
    /\ voltageCursor \in Nat /\ voltageCursor <= high
    /\ voltageCursor = 0 /\ voltageHasMore => high = 0
    /\ ~voltageHasMore => voltageCursor \in {0, 1}

\* An answer on its way is the page in front of the cursor, which does not
\* move meanwhile.
AnswerInv(n) ==
    pc = "answered" => \E m \in 0..n :
        /\ voltageCursor > 0 => m = voltageCursor - 1
        /\ answer.events = Bottom(m)..m
        /\ answer.next = (IF m = 0 THEN 0 ELSE Bottom(m))
        /\ answer.hasMore = (m >= Limit)

PagesInv ==
    /\ pc \in {"idle", "count", "select", "answered"}
    /\ voltageHasMore \in BOOLEAN
    /\ pc # "idle" => voltageHasMore
    /\ \E n \in 0..MaxEvents : TableInv(n) /\ AnswerInv(n) /\ \E high \in 0..n :
         CursorInv(high) /\ ShownInv(high)

\* QueryVoltageEvents: a page is an interval of ids that ends in front of the
\* cursor and is as long as the limit allows; the cursor of the next page is
\* its lowest id, and it is full exactly when it has Limit events.
LEMMA PageInterval ==
  ASSUME NEW n \in 0..MaxEvents, table = 1..n, NEW before \in Nat
  PROVE  LET m == Top(before, n)
         IN /\ m \in 0..n
            /\ Page(before) = Bottom(m)..m
            /\ NextCursor(Page(before)) = (IF m = 0 THEN 0 ELSE Bottom(m))
            /\ HasMore(Page(before)) = (m >= Limit)
<1> DEFINE m == Top(before, n)
<1>1. m \in 0..n /\ n \in Nat /\ Limit \in Nat \ {0} /\ m \in Nat
  BY LimitAssumption DEF Top
<1>2. Matching(before) = 1..m
  <2>1. CASE before = 0
    BY <2>1 DEF Matching, Top
  <2>2. CASE before > 0 /\ before <= n
    <3>1. {i \in 1..n : i < before} = 1..(before - 1)
      BY <1>1, <2>2
    <3>2. QED
      BY <2>2, <3>1 DEF Matching, Top
  <2>3. CASE before > n
    <3>1. {i \in 1..n : i < before} = 1..n
      BY <1>1, <2>3
    <3>2. before > 0 /\ ~(before <= n)
      BY <1>1, <2>3
    <3>3. QED
      BY <3>1, <3>2 DEF Matching, Top
  <2>4. QED
    BY <1>1, <2>1, <2>2, <2>3
<1> HIDE DEF m
<1>3. ASSUME NEW i \in 1..m
      PROVE  Cardinality({j \in 1..m : j > i}) = m - i
  <2>1. {j \in 1..m : j > i} = (i + 1)..m
    BY <1>1
  <2>2. Cardinality((i + 1)..m) = IF i + 1 > m THEN 0 ELSE m - (i + 1) + 1
    BY <1>1, FS_Interval
  <2>3. (IF i + 1 > m THEN 0 ELSE m - (i + 1) + 1) = m - i
    BY <1>1
  <2>4. QED
    BY <2>1, <2>2, <2>3, Zenon
<1>4. Page(before) = {i \in 1..m : m - i < Limit}
  BY <1>2, <1>3 DEF Page
<1>5. Page(before) = Bottom(m)..m
  BY <1>1, <1>4 DEF Bottom
<1>6. Bottom(m) \in Nat /\ (m > 0 => Bottom(m) <= m) /\ (m = 0 => Bottom(m) = 1)
  BY <1>1 DEF Bottom
<1> DEFINE b == Bottom(m)
<1> HIDE DEF b
<1>7. NextCursor(Page(before)) = (IF m = 0 THEN 0 ELSE b)
  <2>1. CASE m = 0
    <3>1. b..m = {}
      BY <1>6, <2>1 DEF b
    <3>2. QED
      BY <1>5, <2>1, <3>1 DEF NextCursor, b
  <2>2. CASE m > 0
    <3>1. b \in b..m /\ \A y \in b..m : b <= y
      BY <1>1, <1>6, <2>2 DEF b
    <3>2. \A x \in b..m : (\A y \in b..m : x <= y) => x = b
      BY <1>1, <1>6, <2>2, <3>1 DEF b
    <3>3. Min(b..m) = b
      BY <3>1, <3>2 DEF Min
    <3>4. QED
      BY <1>5, <2>2, <3>1, <3>3 DEF NextCursor, b
  <2>3. QED
    BY <1>1, <2>1, <2>2
<1>8. HasMore(Page(before)) = (m >= Limit)
  <2>1. Cardinality(b..m) = IF b > m THEN 0 ELSE m - b + 1
    <3>1. b \in Int /\ m \in Int
      BY <1>1, <1>6 DEF b
    <3>2. QED
      BY <3>1, FS_Interval, Zenon
  <2>2. (Cardinality(b..m) >= Limit) <=> (m >= Limit)
    BY <1>1, <1>6, <2>1 DEF b, Bottom
  <2>3. HasMore(Page(before)) <=> Cardinality(b..m) >= Limit
    BY <1>5 DEF HasMore, b
  <2>4. HasMore(Page(before)) \in BOOLEAN /\ (m >= Limit) \in BOOLEAN
    BY <1>1 DEF HasMore
  <2>5. QED
    BY <2>2, <2>3, <2>4
<1>9. QED
  BY <1>1, <1>5, <1>7, <1>8, Zenon DEF b, m

\* The invariant holds when the page has been loaded.
LEMMA PagesInitInv == PagesInit => PagesInv
<1> SUFFICES ASSUME PagesInit PROVE PagesInv
  OBVIOUS
<1>1. PICK n \in 0..MaxEvents : table = 1..n
  BY DEF PagesInit
<1>2. shown = [i \in IDs |-> IF 1 <= i /\ i <= 0 THEN 1 ELSE 0]
  BY LimitAssumption DEF PagesInit, IDs
<1>3. CursorInv(0) /\ ShownInv(0)
  BY <1>2 DEF PagesInit, CursorInv, ShownInv, Low
<1>4. TableInv(n) /\ AnswerInv(n) /\ 0 \in 0..n
  BY <1>1, LimitAssumption DEF PagesInit, TableInv, AnswerInv
<1>5. /\ pc \in {"idle", "count", "select", "answered"}
      /\ voltageHasMore \in BOOLEAN /\ (pc # "idle" => voltageHasMore)
  BY DEF PagesInit
<1>6. QED
  BY <1>3, <1>4, <1>5 DEF PagesInv

\* A step of the dashboard, of the handler or of the analysis keeps it.
LEMMA PagesNextInv == PagesInv /\ [PagesNext]_pagesVars => PagesInv'
<1> SUFFICES ASSUME PagesInv, [PagesNext]_pagesVars PROVE PagesInv'
  OBVIOUS
<1>1. PICK n \in 0..MaxEvents : TableInv(n) /\ AnswerInv(n) /\ \E high \in 0..n :
         CursorInv(high) /\ ShownInv(high)
  BY DEF PagesInv
<1>2. PICK high \in 0..n : CursorInv(high) /\ ShownInv(high)
  BY <1>1
<1>3. /\ pc \in {"idle", "count", "select", "answered"}
      /\ voltageHasMore \in BOOLEAN /\ (pc # "idle" => voltageHasMore)
  BY DEF PagesInv
<1>4. /\ n \in Nat /\ n <= MaxEvents /\ MaxEvents \in Nat /\ Limit \in Nat \ {0}
      /\ high \in Nat /\ high <= n
  BY LimitAssumption
<1>5. Cardinality(table) = n
  <2>1. Cardinality(1..n) = IF 1 > n THEN 0 ELSE n - 1 + 1
    BY <1>4, FS_Interval
  <2>2. (IF 1 > n THEN 0 ELSE n - 1 + 1) = n
    BY <1>4
  <2>3. QED
    BY <1>1, <2>1, <2>2, Zenon DEF TableInv
<1>6. ASSUME InsertVoltageEvent PROVE PagesInv'
  <2>1. n + 1 \in 0..MaxEvents /\ n < MaxEvents
    BY <1>4, <1>5, <1>6 DEF InsertVoltageEvent
  <2>2. table' = 1..(n + 1)
    <3>1. table' = (1..n) \cup {n + 1}
      BY <1>1, <1>5, <1>6 DEF InsertVoltageEvent, TableInv
    <3>2. (1..n) \cup {n + 1} = 1..(n + 1)
      BY <1>4
    <3>3. QED
      BY <3>1, <3>2
  <2>3. /\ pc' = pc /\ answer' = answer /\ shown' = shown
        /\ voltageCursor' = voltageCursor /\ voltageHasMore' = voltageHasMore
    BY <1>6 DEF InsertVoltageEvent
  <2>4. AnswerInv(n + 1)'
    BY <1>1, <1>4, <2>3 DEF AnswerInv
  <2>5. CursorInv(high)' /\ ShownInv(high)' /\ high \in 0..(n + 1)
    BY <1>2, <1>4, <2>3 DEF CursorInv, ShownInv, Low
  <2>6. QED
    BY <1>3, <2>1, <2>2, <2>3, <2>4, <2>5 DEF PagesInv, TableInv
<1>7. ASSUME table' = table, shown' = shown, voltageCursor' = voltageCursor,
             voltageHasMore' = voltageHasMore,
             pc' \in {"idle", "count", "select", "answered"}, pc' # "idle" => voltageHasMore,
             AnswerInv(n)'
      PROVE  PagesInv'
  <2>1. CursorInv(high)' /\ ShownInv(high)' /\ TableInv(n)'
    BY <1>1, <1>2, <1>7 DEF CursorInv, ShownInv, TableInv, Low
  <2>2. QED
    BY <1>3, <1>7, <2>1 DEF PagesInv
<1>8. CASE Load
  BY <1>3, <1>7, <1>8 DEF Load, AnswerInv
<1>9. CASE Count
  BY <1>3, <1>7, <1>9 DEF Count, AnswerInv
<1>10. CASE Fail
  BY <1>3, <1>7, <1>10 DEF Fail, AnswerInv
<1>11. CASE UNCHANGED pagesVars
  BY <1>1, <1>3, <1>7, <1>11 DEF pagesVars, AnswerInv
<1>12. CASE Select
  <2> DEFINE m == Top(voltageCursor, n)
  <2>1. voltageCursor \in Nat /\ voltageCursor <= n
    BY <1>2, <1>4 DEF CursorInv
  <2>2. /\ m \in 0..n
        /\ Page(voltageCursor) = Bottom(m)..m
        /\ NextCursor(Page(voltageCursor)) = (IF m = 0 THEN 0 ELSE Bottom(m))
        /\ HasMore(Page(voltageCursor)) = (m >= Limit)
    BY <1>1, <2>1, PageInterval DEF TableInv
  <2>3. voltageCursor > 0 => m = voltageCursor - 1
    BY <2>1 DEF Top
  <2>4. voltageCursor' = voltageCursor /\ pc' = "answered"
        /\ answer'.events = Page(voltageCursor)
        /\ answer'.next = NextCursor(Page(voltageCursor))
        /\ answer'.hasMore = HasMore(Page(voltageCursor))
    BY <1>12 DEF Select
  <2> HIDE DEF m
  <2>5. AnswerInv(n)'
    BY <2>2, <2>3, <2>4 DEF AnswerInv
  <2>6. QED
    BY <1>3, <1>7, <1>12, <2>5 DEF Select
<1>13. CASE Receive
  <2>1. PICK m \in 0..n :
           /\ voltageCursor > 0 => m = voltageCursor - 1
           /\ answer.events = Bottom(m)..m
           /\ answer.next = (IF m = 0 THEN 0 ELSE Bottom(m))
           /\ answer.hasMore = (m >= Limit)
    BY <1>1, <1>13 DEF Receive, AnswerInv
  <2>2. pc' = "idle" /\ table' = table /\ AnswerInv(n)' /\ voltageHasMore
    BY <1>3, <1>13 DEF Receive, AnswerInv
  <2>3. CASE UNCHANGED <<voltageCursor, voltageHasMore, shown>>
    BY <1>7, <2>2, <2>3
  <2>4. CASE /\ answer.events # {} \/ voltageCursor # 0
             /\ shown' = [i \in IDs |-> shown[i] + (IF i \in answer.events THEN 1 ELSE 0)]
             /\ voltageCursor' = answer.next /\ voltageHasMore' = answer.hasMore
    <3>1. m \in Nat /\ m <= n /\ voltageCursor \in Nat /\ voltageCursor <= high
      BY <1>2, <1>4, <2>1 DEF CursorInv
    <3>2. Bottom(m) \in Nat /\ Bottom(m) >= 1 /\ (m > 0 => Bottom(m) <= m)
          /\ (m < Limit => Bottom(m) = 1)
      BY <1>4, <3>1 DEF Bottom
    <3>3. voltageCursor = 0 => m > 0 /\ high = 0
      <4>1. (m = 0) => (Bottom(m)..m = {})
        BY <3>2
      <4>2. QED
        BY <1>2, <2>1, <2>2, <2>4, <3>1, <4>1 DEF CursorInv
    <3>4. PICK h \in 0..n : h = IF voltageCursor > 0 THEN high ELSE m
      BY <1>4, <3>1
    <3>5. CursorInv(h)'
      <4>1. voltageHasMore' <=> m >= Limit
        BY <2>1, <2>4, Zenon
      <4>2. voltageCursor' = (IF m = 0 THEN 0 ELSE Bottom(m))
        BY <2>1, <2>4
      <4>3. m <= h
        BY <1>4, <2>1, <3>1, <3>4
      <4>4. QED
        BY <1>4, <3>1, <3>2, <3>4, <4>1, <4>2, <4>3 DEF CursorInv
    <3>6. ShownInv(h)'
      <4> DEFINE low == IF answer.next > 0 THEN answer.next ELSE 1
      <4>1. low = Bottom(m)
        BY <1>4, <2>1, <3>1, <3>2
      <4>2. ASSUME NEW i \in IDs
            PROVE  shown[i] + (IF i \in answer.events THEN 1 ELSE 0)
                     = IF Bottom(m) <= i /\ i <= h THEN 1 ELSE 0
        <5>1. shown[i] = IF Low <= i /\ i <= high THEN 1 ELSE 0
          BY <1>2 DEF ShownInv
        <5>2. i \in Nat /\ i >= 1
          BY <1>4 DEF IDs
        <5>3. i \in answer.events <=> Bottom(m) <= i /\ i <= m
          BY <2>1, <3>1, <3>2, <5>2
        <5>4. CASE voltageCursor = 0
          BY <3>1, <3>2, <3>3, <3>4, <5>1, <5>2, <5>3, <5>4
        <5>5. CASE voltageCursor > 0
          <6>1. m = voltageCursor - 1 /\ h = high /\ Low = voltageCursor
            BY <2>1, <3>4, <5>5 DEF Low
          <6>2. Bottom(m) <= voltageCursor
            BY <1>4, <3>1, <3>2, <5>5, <6>1
          <6>3. QED
            BY <1>4, <3>1, <3>2, <5>1, <5>2, <5>3, <6>1, <6>2
        <5>6. QED
          BY <3>1, <5>4, <5>5
      <4>3. shown' = [i \in IDs |-> IF Bottom(m) <= i /\ i <= h THEN 1 ELSE 0]
        BY <2>4, <4>2
      <4>4. Low' = Bottom(m)
        BY <2>4, <4>1 DEF Low
      <4>5. QED
        BY <4>3, <4>4 DEF ShownInv
    <3>7. TableInv(n)' /\ voltageHasMore' \in BOOLEAN
      BY <1>1, <1>4, <2>1, <2>2, <2>4, <3>1 DEF TableInv
    <3>8. QED
      BY <2>2, <3>4, <3>5, <3>6, <3>7 DEF PagesInv
  <2>5. QED
    BY <1>13, <2>3, <2>4 DEF Receive
<1>14. QED
  BY <1>6, <1>8, <1>9, <1>10, <1>11, <1>12, <1>13 DEF PagesNext

\* The invariant says what the properties of the list say.
LEMMA PagesSafe == PagesInv => ListedOnce /\ NoHoles
<1> SUFFICES ASSUME PagesInv PROVE ListedOnce /\ NoHoles
  OBVIOUS
<1>1. PICK n \in 0..MaxEvents : TableInv(n) /\ \E high \in 0..n : CursorInv(high) /\ ShownInv(high)
  BY DEF PagesInv
<1>2. PICK high \in 0..n : CursorInv(high) /\ ShownInv(high)
  BY <1>1
<1>3. n \in Nat /\ high \in Nat /\ high <= n /\ Low \in Nat /\ n <= MaxEvents /\ MaxEvents \in Nat
  BY <1>2, LimitAssumption DEF CursorInv, Low
<1>4. ListedOnce
  BY <1>2 DEF ListedOnce, ShownInv
<1>5. \A i \in IDs : i \in Listed <=> Low <= i /\ i <= high
  BY <1>2 DEF Listed, ShownInv
<1>6. ASSUME NEW j \in Listed, NEW k \in table, k < j, k \notin Listed
      PROVE  voltageHasMore /\ \A i \in Listed : k < i
  <2>1. j \in IDs /\ k \in IDs /\ j <= high /\ k \in Nat /\ j \in Nat /\ 1 <= k
    BY <1>1, <1>3, <1>5 DEF TableInv, Listed, IDs
  <2>2. k < Low
    BY <1>3, <1>5, <1>6, <2>1
  <2>3. \A i \in Listed : k < i
    BY <1>3, <1>5, <2>1, <2>2 DEF Listed, IDs
  <2>4. voltageCursor > 1
    BY <1>2, <2>1, <2>2 DEF Low, CursorInv
  <2>5. voltageHasMore
    BY <1>2, <2>4 DEF CursorInv
  <2>6. QED
    BY <2>3, <2>5
<1>7. QED
  BY <1>4, <1>6 DEF NoHoles

\* A behaviour of the page keeps the invariant of the list.
LEMMA PagesInvariance == Spec => []PagesInv
<1>1. Init => PagesInv
  BY PagesInitInv DEF Init
<1>2. PagesInv /\ [Next]_vars => PagesInv'
  BY PagesNextInv DEF Next, vars, pagesVars
<1>3. QED
  BY <1>1, <1>2, PTL DEF Spec

\* No event is ever listed twice, for any page length and any number of events
\* (index.html loadVoltageEvents, store.go QueryVoltageEvents): the cursor of
\* the next page is the lowest id listed, and events that come meanwhile have
\* ids above all pages.
THEOREM EventsListedOnce == Spec => []ListedOnce
<1>1. PagesInv => ListedOnce
  BY PagesSafe
<1>2. QED
  BY <1>1, PagesInvariance, PTL

\* Below an event that the list shows nothing is missing but what the pages to
\* come have, and nothing at all once has_more is false.
THEOREM EventsWithoutHoles == Spec => []NoHoles
<1>1. PagesInv => NoHoles
  BY PagesSafe
<1>2. QED
  BY <1>1, PagesInvariance, PTL

-----------------------------------------------------------------------------
(* Today's energy.                                                         *)

\* Samples carry the counter's value, which grows with the time.
Sample == {s \in [at: Nat, value: Nat] : s.value = s.at}

SamplesInv ==
    /\ clock \in Nat /\ IsFiniteSet(raw) /\ raw \subseteq Sample
    /\ \A s \in raw : s.at <= clock

\* A request for the energy since a time that is not in the future.
ForToday == asked.at # -1 /\ asked.at <= asked.now /\ asked.until = asked.now

\* As long as the reference waits for the newest sample, whatever is left up
\* to the time of the request goes at least up to the reference: pruning takes
\* the oldest samples first, and what is inserted is younger than the request.
ReferenceInv ==
    asked.kind = "raw" /\ ForToday =>
        /\ reference \in Sample
        /\ \A s \in raw : s.at <= asked.now =>
             \E t \in raw : s.at <= t.at /\ reference.at <= t.at /\ t.at <= asked.now

RequestInv ==
    /\ asked.kind \in {"none", "delta", "raw", "answered"}
    /\ asked.kind \in {"delta", "raw"} =>
         /\ asked.since \in Int /\ asked.limit \in Nat \ {0} /\ asked.at \in Int
         /\ asked.until \in Int /\ asked.now \in Int /\ asked.now <= clock

HistoryInv == SamplesInv /\ RequestInv /\ ReferenceInv /\ DeltaNotNegative

\* The newest sample of a set of samples exists and is in it.
LEMMA NewestExists ==
  ASSUME NEW S \in SUBSET Sample, S # {}, NEW c \in Nat, \A s \in S : s.at <= c
  PROVE  Newest(S) \in S /\ \A t \in S : t.at <= Newest(S).at
<1> DEFINE T == {c - s.at : s \in S}
<1>1. T \subseteq Nat /\ T # {}
  BY DEF Sample
<1>2. IsWellFoundedOn(OpToRel(<, Nat), Nat)
  BY NatLessThanWellFounded
<1>3. PICK x \in T : \A y \in T : ~(<<y, x>> \in OpToRel(<, Nat))
  BY <1>1, <1>2, WFMin
<1>4. ASSUME NEW y \in T PROVE x <= y
  <2> HIDE DEF T
  <2>1. x \in Nat /\ y \in Nat
    BY <1>1
  <2>2. y < x => <<y, x>> \in OpToRel(<, Nat)
    BY <2>1 DEF OpToRel
  <2>3. ~(y < x)
    BY <1>3, <2>2, Zenon
  <2>4. QED
    BY <2>1, <2>3
<1>5. PICK s \in S : x = c - s.at
  OBVIOUS
<1>6. \A t \in S : t.at <= s.at
  BY <1>4, <1>5 DEF Sample
<1>7. QED
  BY <1>5, <1>6 DEF Newest

\* QueryRawSamples with limit 1 answers at most one sample, and none of the
\* range is younger.
LEMMA NewestOnly ==
  ASSUME SamplesInv, NEW since \in Int, NEW until \in Int
  PROVE  LET q == QueryRawSamples(since, until, 1)
         IN /\ q \in Seq(Sample) /\ Len(q) <= 1
            /\ \A i \in DOMAIN q : /\ q[i] \in InRange(since, until)
                                   /\ \A t \in InRange(since, until) : t.at <= q[i].at
<1> DEFINE M == InRange(since, until)
           N == {s \in M : Cardinality({t \in M : t.at > s.at}) < 1}
<1>1. M \subseteq raw /\ IsFiniteSet(M) /\ M \subseteq Sample
  BY FS_Subset DEF InRange, SamplesInv
<1> HIDE DEF M
<1>2. ASSUME NEW s \in N PROVE s \in M /\ \A t \in M : t.at <= s.at
  <2> DEFINE Y == {t \in M : t.at > s.at}
  <2>1. IsFiniteSet(Y) /\ Cardinality(Y) \in Nat
    BY <1>1, FS_Subset, FS_CardinalityType
  <2>2. Cardinality(Y) = 0
    BY <2>1
  <2>3. Y = {}
    BY <2>1, <2>2, FS_EmptySet
  <2>4. QED
    BY <1>1, <2>3 DEF Sample
<1>3. \A s, t \in N : s = t
  <2> SUFFICES ASSUME NEW s \in N, NEW t \in N PROVE s = t
    OBVIOUS
  <2>1. s.at = t.at /\ s \in Sample /\ t \in Sample
    BY <1>1, <1>2 DEF Sample
  <2>2. QED
    BY <2>1 DEF Sample
<1> HIDE DEF N
<1> DEFINE q == QueryRawSamples(since, until, 1)
<1>4. q = Ascending(N)
  BY DEF QueryRawSamples, M, N
<1> SUFFICES /\ q \in Seq(Sample) /\ Len(q) <= 1
             /\ \A i \in DOMAIN q : q[i] \in M /\ \A t \in M : t.at <= q[i].at
  BY DEF M
<1> HIDE DEF q
<1>5. CASE N = {}
  <2>1. Ascending(N) = <<>>
    BY <1>5, FS_EmptySet DEF Ascending
  <2>2. <<>> \in Seq(Sample) /\ Len(<<>>) = 0 /\ DOMAIN <<>> = {}
    OBVIOUS
  <2>3. QED
    BY <1>4, <2>1, <2>2
<1>6. CASE N # {}
  <2>1. PICK s \in N : N = {s}
    BY <1>3, <1>6
  <2>2. Cardinality(N) = 1 /\ 1..1 = {1}
    BY <2>1, FS_Singleton
  <2>3. \A u \in N : Cardinality({t \in N : t.at < u.at}) = 0
    <3>1. \A u \in N : {t \in N : t.at < u.at} = {}
      BY <1>1, <1>2, <2>1 DEF Sample
    <3>2. QED
      BY <3>1, FS_EmptySet
  <2>4. (CHOOSE u \in N : Cardinality({t \in N : t.at < u.at}) = 1 - 1) = s
    BY <2>1, <2>3
  <2>5. \A i \in 1..1 : (CHOOSE u \in N : Cardinality({t \in N : t.at < u.at}) = i - 1) = s
    BY <2>2, <2>4
  <2>6. Ascending(N) = [i \in 1..1 |-> s]
    BY <2>2, <2>5 DEF Ascending
  <2>7. s \in Sample /\ s \in M /\ \A t \in M : t.at <= s.at
    BY <1>1, <1>2
  <2>8. q = <<s>>
    <3>1. [i \in 1..1 |-> s] = <<s>>
      OBVIOUS
    <3>2. QED
      BY <1>4, <2>6, <3>1
  <2>9. <<s>> \in Seq(Sample) /\ Len(<<s>>) = 1 /\ \A i \in DOMAIN <<s>> : <<s>>[i] = s
    BY <2>7
  <2>10. QED
    BY <2>7, <2>8, <2>9
<1>7. QED
  BY <1>5, <1>6

\* The invariant holds in an empty database.
LEMMA HistoryInitInv == HistoryInit => HistoryInv
<1> SUFFICES ASSUME HistoryInit PROVE HistoryInv
  OBVIOUS
<1>1. clock = 0 /\ raw = {} /\ asked.kind = "none"
  BY DEF HistoryInit, NoRequest
<1>2. SamplesInv
  BY <1>1, FS_EmptySet DEF SamplesInv
<1>3. QED
  BY <1>1, <1>2 DEF HistoryInv, RequestInv, ReferenceInv, DeltaNotNegative

\* A query of a request and a statement of the daemon between two queries keep
\* it.
LEMMA HistoryNextInv == HistoryInv /\ [HistoryNext]_historyVars => HistoryInv'
<1> SUFFICES ASSUME HistoryInv, [HistoryNext]_historyVars PROVE HistoryInv'
  OBVIOUS
<1> USE DEF HistoryInv
<1>1. CASE Tick
  <2> DEFINE new == [at |-> clock', value |-> clock']
  <2>1. clock' = clock + 1 /\ clock \in Nat /\ raw \subseteq Sample /\ IsFiniteSet(raw)
        /\ new \in Sample /\ raw' \in {raw, raw \cup {new}} /\ \A s \in raw : s.at <= clock
    BY <1>1 DEF Tick, SamplesInv, Sample
  <2>2. IsFiniteSet(raw')
    BY <2>1, FS_AddElement
  <2>3. SamplesInv'
    BY <2>1, <2>2 DEF SamplesInv, Sample
  <2>4. asked' = asked /\ reference' = reference /\ points' = points
    BY <1>1 DEF Tick
  <2>5. RequestInv'
    BY <2>1, <2>4 DEF RequestInv
  <2>6. ReferenceInv'
    <3> SUFFICES ASSUME asked.kind = "raw", ForToday,
                        NEW s \in raw', s.at <= asked.now
                 PROVE  /\ reference \in Sample
                        /\ \E t \in raw' : s.at <= t.at /\ reference.at <= t.at /\ t.at <= asked.now
      BY <2>4 DEF ReferenceInv, ForToday
    <3>1. s \in raw
      BY <2>1 DEF RequestInv
    <3>2. QED
      BY <2>1, <3>1 DEF ReferenceInv
  <2>7. DeltaNotNegative'
    BY <2>4 DEF DeltaNotNegative
  <2>8. QED
    BY <2>3, <2>5, <2>6, <2>7
<1>2. CASE PruneRaw
  <2>1. PICK cutoff \in 1..(clock - Retention) : raw' = {s \in raw : s.at >= cutoff}
    BY <1>2 DEF PruneRaw
  <2>2. clock' = clock /\ asked' = asked /\ reference' = reference /\ points' = points
    BY <1>2 DEF PruneRaw
  <2>3. SamplesInv'
    BY <2>1, <2>2, FS_Subset DEF SamplesInv
  <2>4. RequestInv' /\ DeltaNotNegative'
    BY <2>2 DEF RequestInv, DeltaNotNegative
  <2>5. ReferenceInv'
    <3> SUFFICES ASSUME asked.kind = "raw", ForToday
                 PROVE  /\ reference \in Sample
                        /\ \A s \in raw' : s.at <= asked.now =>
                             \E t \in raw' : s.at <= t.at /\ reference.at <= t.at /\ t.at <= asked.now
      BY <2>2 DEF ReferenceInv, ForToday
    <3>1. ASSUME NEW s \in raw', s.at <= asked.now
          PROVE  \E t \in raw' : s.at <= t.at /\ reference.at <= t.at /\ t.at <= asked.now
      <4>1. PICK t \in raw : s.at <= t.at /\ reference.at <= t.at /\ t.at <= asked.now
        BY <2>1, <3>1 DEF ReferenceInv
      <4>2. t.at >= cutoff
        BY <2>1, <4>1, HistoryAssumption DEF SamplesInv, Sample
      <4>3. QED
        BY <2>1, <4>1, <4>2
    <3>2. QED
      BY <3>1 DEF ReferenceInv
  <2>6. QED
    BY <2>3, <2>4, <2>5
<1>3. CASE AskSamples
  <2>1. PICK since \in 0..clock, until \in 0..clock, limit \in Limits, at \in -1..(clock + 1) :
           asked' = [kind |-> IF at = -1 THEN "raw" ELSE "delta",
                     since |-> since, until |-> until, limit |-> limit, at |-> at, now |-> clock]
    BY <1>3 DEF AskSamples
  <2>2. clock' = clock /\ raw' = raw
    BY <1>3 DEF AskSamples
  <2>3. SamplesInv' /\ clock \in Nat
    BY <2>2 DEF SamplesInv
  <2>4. RequestInv'
    BY <2>1, <2>2, <2>3, HistoryAssumption DEF RequestInv
  <2>5. ReferenceInv' /\ DeltaNotNegative'
    BY <2>1 DEF ReferenceInv, ForToday, DeltaNotNegative
  <2>6. QED
    BY <2>3, <2>4, <2>5
<1>4. CASE AskLatest
  BY <1>4 DEF AskLatest, SamplesInv, RequestInv, ReferenceInv, DeltaNotNegative
<1>5. CASE DeltaReference
  <2>1. clock' = clock /\ raw' = raw /\ points' = points /\ SamplesInv'
    BY <1>5 DEF DeltaReference, SamplesInv
  <2>2. CASE reference' = NoSample
    BY <1>5, <2>1, <2>2
    DEF DeltaReference, NoRequest, RequestInv, ReferenceInv, DeltaNotNegative
  <2>3. CASE reference' # NoSample
    <3> DEFINE S == {s \in raw : s.at <= asked.at}
    <3>1. /\ asked' = [asked EXCEPT !.kind = "raw"] /\ reference' = Newest(S)
          /\ asked.kind = "delta"
      BY <1>5, <2>3 DEF DeltaReference, SampleAt
    <3>2. /\ asked'.kind = "raw" /\ asked'.at = asked.at /\ asked'.now = asked.now
          /\ asked'.until = asked.until /\ asked'.since = asked.since
          /\ asked'.limit = asked.limit
      BY <3>1
    <3>3. RequestInv' /\ DeltaNotNegative'
      BY <2>1, <3>1, <3>2 DEF RequestInv, DeltaNotNegative
    <3>4. S # {} /\ S \subseteq Sample /\ \A s \in S : s.at <= clock
      BY <2>3, <3>1 DEF Newest, SamplesInv
    <3>5. reference' \in S /\ \A t \in S : t.at <= reference'.at
      BY <3>1, <3>4, NewestExists DEF SamplesInv
    <3>6. ReferenceInv'
      <4> SUFFICES ASSUME asked.at <= asked.now
                   PROVE  /\ reference' \in Sample
                          /\ \A s \in raw : s.at <= asked.now =>
                               \E t \in raw : /\ s.at <= t.at /\ reference'.at <= t.at
                                              /\ t.at <= asked.now
        BY <2>1, <3>2 DEF ReferenceInv, ForToday
      <4>1. ASSUME NEW s \in raw, s.at <= asked.now
            PROVE  \E t \in raw : /\ s.at <= t.at /\ reference'.at <= t.at
                                  /\ t.at <= asked.now
        <5>1. asked.at \in Int /\ asked.now \in Int /\ s.at \in Nat
              /\ reference' \in raw /\ reference'.at \in Nat /\ reference'.at <= asked.at
          BY <3>1, <3>5 DEF RequestInv, SamplesInv, Sample
        <5>2. CASE s.at <= reference'.at
          BY <5>1, <5>2
        <5>3. CASE s.at > reference'.at
          BY <4>1, <5>1, <5>3
        <5>4. QED
          BY <5>1, <5>2, <5>3
      <4>2. QED
        BY <3>4, <3>5, <4>1
    <3>7. QED
      BY <2>1, <3>3, <3>6
  <2>4. QED
    BY <2>2, <2>3
<1>6. CASE QuerySamples
  <2>1. clock' = clock /\ raw' = raw /\ SamplesInv' /\ asked.kind = "raw"
    BY <1>6 DEF QuerySamples, SamplesInv
  <2>2. asked' = [asked EXCEPT !.kind = "answered"]
    BY <1>6 DEF QuerySamples
  <2>3. RequestInv' /\ ReferenceInv'
    BY <2>1, <2>2 DEF RequestInv, ReferenceInv
  <2>4. DeltaNotNegative'
    <3> SUFFICES ASSUME ForToday, asked.limit = 1, NEW i \in DOMAIN points'
                 PROVE  points'[i].value >= 0
      BY <2>1, <2>2 DEF DeltaNotNegative, ForToday
    <3> DEFINE q == QueryRawSamples(asked.since, asked.now, 1)
    <3>1. /\ q \in Seq(Sample) /\ Len(q) <= 1
          /\ \A k \in DOMAIN q : /\ q[k] \in InRange(asked.since, asked.now)
                                 /\ \A t \in InRange(asked.since, asked.now) : t.at <= q[k].at
      BY <2>1, NewestOnly DEF RequestInv
    <3>2. downsample(q, MaxPoints) = q
      BY <3>1, HistoryAssumption DEF downsample
    <3>3. points' = [k \in DOMAIN q |-> [q[k] EXCEPT !.value = @ - reference.value]]
      BY <1>6, <3>2 DEF QuerySamples, ForToday
    <3> HIDE DEF q
    <3>4. i \in DOMAIN q /\ points'[i].value = q[i].value - reference.value
      <4>1. i \in DOMAIN q /\ q[i] \in Sample
        BY <3>1, <3>3
      <4>2. QED
        BY <3>3, <4>1 DEF Sample
    <3>5. q[i] \in raw /\ asked.since <= q[i].at /\ q[i].at <= asked.now
      BY <3>1, <3>4 DEF InRange
    <3>6. PICK t \in raw : q[i].at <= t.at /\ reference.at <= t.at /\ t.at <= asked.now
      BY <2>1, <3>5 DEF ReferenceInv
    <3>7. /\ t.at \in Nat /\ q[i] \in Sample /\ reference \in Sample
          /\ asked.since \in Int /\ asked.now \in Int
      BY <2>1, <3>5 DEF SamplesInv, RequestInv, ReferenceInv, Sample
    <3>8. t \in InRange(asked.since, asked.now)
      BY <3>5, <3>6, <3>7 DEF InRange, Sample
    <3>9. t.at <= q[i].at
      BY <3>1, <3>4, <3>8
    <3>10. QED
      BY <3>4, <3>6, <3>7, <3>9 DEF Sample
  <2>5. QED
    BY <2>1, <2>3, <2>4
<1>7. CASE QueryFails
  BY <1>7 DEF QueryFails, NoRequest, SamplesInv, RequestInv, ReferenceInv, DeltaNotNegative
<1>8. CASE Answered
  BY <1>8 DEF Answered, NoRequest, SamplesInv, RequestInv, ReferenceInv, DeltaNotNegative
<1>9. CASE UNCHANGED historyVars
  BY <1>9 DEF historyVars, SamplesInv, RequestInv, ReferenceInv, ForToday, DeltaNotNegative
<1>10. QED
  BY <1>1, <1>2, <1>3, <1>4, <1>5, <1>6, <1>7, <1>8, <1>9 DEF HistoryNext

\* Today's energy is never negative, for every interval, retention and length of
\* history (handler.go handleGetAggregate): between the query of the reference
\* and the query of the newest sample the daemon may insert and prune.
THEOREM TodayNotNegative == Spec => []DeltaNotNegative
<1>1. Init => HistoryInv
  BY HistoryInitInv DEF Init
<1>2. HistoryInv /\ [Next]_vars => HistoryInv'
  BY HistoryNextInv DEF Next, vars, historyVars
<1>3. HistoryInv => DeltaNotNegative
  BY DEF HistoryInv
<1>4. QED
  BY <1>1, <1>2, <1>3, PTL DEF Spec

-----------------------------------------------------------------------------
(* The samples of a graph.                                                 *)

\* The samples of a set before one of them, and between two times.
Earlier(S, s) == {t \in S : t.at < s.at}
Inside(S, a, b) == {t \in S : a < t.at /\ t.at < b}

\* How many are earlier tells one sample from another, and is any number below
\* the number of them all.
LEMMA Ranks ==
  ASSUME NEW S \in SUBSET Sample, IsFiniteSet(S)
  PROVE  /\ Cardinality(S) \in Nat
         /\ \A s \in S : Cardinality(Earlier(S, s)) \in 0..(Cardinality(S) - 1)
         /\ \A s, t \in S : s.at < t.at => Cardinality(Earlier(S, s)) < Cardinality(Earlier(S, t))
         /\ \A k \in 0..(Cardinality(S) - 1) : \E s \in S : Cardinality(Earlier(S, s)) = k
<1> DEFINE n == Cardinality(S)
           f == [s \in S |-> Cardinality(Earlier(S, s))]
<1>1. n \in Nat
  BY FS_CardinalityType
<1>2. \A s \in S : Earlier(S, s) \in SUBSET S /\ s \notin Earlier(S, s)
  BY DEF Earlier, Sample
<1>3. ASSUME NEW s \in S
      PROVE  /\ IsFiniteSet(Earlier(S, s)) /\ Cardinality(Earlier(S, s)) \in Nat
             /\ IsFiniteSet(Earlier(S, s) \cup {s})
             /\ Cardinality(Earlier(S, s) \cup {s}) = Cardinality(Earlier(S, s)) + 1
  <2>1. IsFiniteSet(Earlier(S, s))
    BY <1>2, FS_Subset
  <2>2. QED
    BY <1>2, <2>1, FS_CardinalityType, FS_AddElement
<1>4. ASSUME NEW s \in S PROVE Cardinality(Earlier(S, s)) \in 0..(n - 1)
  <2>1. Earlier(S, s) \cup {s} \in SUBSET S
    BY <1>2
  <2>2. Cardinality(Earlier(S, s) \cup {s}) <= n
    BY <2>1, FS_Subset
  <2>3. QED
    BY <1>1, <1>3, <2>2
<1>5. ASSUME NEW s \in S, NEW t \in S, s.at < t.at
      PROVE  Cardinality(Earlier(S, s)) < Cardinality(Earlier(S, t))
  <2>1. Earlier(S, s) \cup {s} \in SUBSET Earlier(S, t)
    BY <1>5 DEF Earlier, Sample
  <2>2. Cardinality(Earlier(S, s) \cup {s}) <= Cardinality(Earlier(S, t))
    BY <1>3, <2>1, FS_Subset
  <2>3. Cardinality(Earlier(S, s)) \in Nat /\ Cardinality(Earlier(S, t)) \in Nat
    BY <1>3
  <2>4. Cardinality(Earlier(S, s) \cup {s}) = Cardinality(Earlier(S, s)) + 1
    BY <1>3
  <2>5. QED
    BY <2>2, <2>3, <2>4
<1>6. ASSUME NEW k \in 0..(n - 1) PROVE \E s \in S : Cardinality(Earlier(S, s)) = k
  <2> SUFFICES ASSUME \A s \in S : f[s] # k PROVE FALSE
    OBVIOUS
  <2> DEFINE T == (0..(n - 1)) \ {k}
  <2>1. IsFiniteSet(0..(n - 1)) /\ Cardinality(0..(n - 1)) = n
    <3>1. PICK u \in Nat : u = n - 1 /\ u + 1 = n
      BY <1>1
    <3>2. IsFiniteSet(0..u) /\ Cardinality(0..u) = IF 0 > u THEN 0 ELSE u - 0 + 1
      BY FS_Interval
    <3>3. IsFiniteSet(0..u) /\ Cardinality(0..u) = u + 1
      BY <3>2
    <3>4. QED
      BY <3>1, <3>3
  <2>2. IsFiniteSet(T) /\ Cardinality(T) = n - 1
    <3>1. PICK I : I = 0..(n - 1)
      OBVIOUS
    <3>2. IsFiniteSet(I) /\ Cardinality(I) = n /\ k \in I
      BY <2>1, <3>1
    <3>3. IsFiniteSet(I \ {k}) /\ Cardinality(I \ {k}) = Cardinality(I) - 1
      BY <3>2, FS_RemoveElement
    <3>4. QED
      BY <3>1, <3>2, <3>3
  <2>3. f \in [S -> T]
    BY <1>4
  <2>4. Cardinality(T) < Cardinality(S)
    BY <1>1, <2>2
  <2> HIDE DEF T, f
  <2>5. PICK x, y \in S : x # y /\ f[x] = f[y]
    BY <2>2, <2>3, <2>4, FS_PigeonHole
  <2>6. x.at < y.at \/ y.at < x.at
    BY <2>5 DEF Sample
  <2>7. f[x] = Cardinality(Earlier(S, x)) /\ f[y] = Cardinality(Earlier(S, y))
    BY DEF f
  <2>8. Cardinality(Earlier(S, x)) \in Nat /\ Cardinality(Earlier(S, x)) = Cardinality(Earlier(S, y))
    <3>1. Cardinality(Earlier(S, x)) \in Nat
      BY <1>3
    <3>2. QED
      BY <2>5, <2>7, <3>1, Zenon
  <2>9. CASE x.at < y.at
    <3>1. Cardinality(Earlier(S, x)) < Cardinality(Earlier(S, y))
      BY <1>5, <2>9
    <3>2. QED
      BY <2>8, <3>1
  <2>10. CASE y.at < x.at
    <3>1. Cardinality(Earlier(S, y)) < Cardinality(Earlier(S, x))
      BY <1>5, <2>10
    <3>2. QED
      BY <2>8, <3>1
  <2>11. QED
    BY <2>6, <2>9, <2>10
<1>7. QED
  BY <1>1, <1>4, <1>5, <1>6

\* So Ascending has every sample at its place.
LEMMA AscendingIs ==
  ASSUME NEW S \in SUBSET Sample, IsFiniteSet(S)
  PROVE  /\ Ascending(S) \in Seq(S) /\ Len(Ascending(S)) = Cardinality(S)
         /\ \A i \in 1..Cardinality(S) :
              Ascending(S)[i] \in S /\ Cardinality(Earlier(S, Ascending(S)[i])) = i - 1
         /\ \A i, j \in 1..Cardinality(S) : i < j => Ascending(S)[i].at < Ascending(S)[j].at
<1> DEFINE n == Cardinality(S)
           q == Ascending(S)
<1>1. n \in Nat
  BY FS_CardinalityType
<1>2. q = [i \in 1..n |-> CHOOSE s \in S : Cardinality(Earlier(S, s)) = i - 1]
  BY DEF Ascending, Earlier
<1>3. ASSUME NEW i \in 1..n PROVE q[i] \in S /\ Cardinality(Earlier(S, q[i])) = i - 1
  <2>1. i - 1 \in 0..(n - 1)
    BY <1>1
  <2>2. \E s \in S : Cardinality(Earlier(S, s)) = i - 1
    BY <2>1, Ranks
  <2>3. q[i] = CHOOSE s \in S : Cardinality(Earlier(S, s)) = i - 1
    BY <1>2
  <2>4. QED
    BY <2>2, <2>3
<1> HIDE DEF n
<1>4. q \in Seq(S) /\ Len(q) = n
  <2>1. DOMAIN q = 1..n /\ q \in [1..n -> S]
    BY <1>2, <1>3
  <2>2. QED
    BY <1>1, <2>1
<1>5. ASSUME NEW i \in 1..n, NEW j \in 1..n, i < j PROVE q[i].at < q[j].at
  <2>1. q[i] \in S /\ q[j] \in S
    BY <1>3
  <2>2. q[i].at \in Nat /\ q[j].at \in Nat
    BY <2>1 DEF Sample
  <2>3. CASE q[j].at < q[i].at
    BY <1>1, <1>3, <1>5, <2>1, <2>3, Ranks
  <2>4. CASE q[j].at = q[i].at
    <3>1. q[i] = q[j]
      BY <2>1, <2>4 DEF Sample
    <3>2. QED
      BY <1>3, <1>5, <3>1
  <2>5. QED
    BY <2>2, <2>3, <2>4
<1>6. QED
  BY <1>3, <1>4, <1>5 DEF n

\* What lies between two samples, before one and behind one.
LEMMA Gaps ==
  ASSUME NEW S \in SUBSET Sample, IsFiniteSet(S), NEW s \in S
  PROVE  /\ Cardinality(Inside(S, -1, s.at)) = Cardinality(Earlier(S, s))
         /\ \A t \in S : s.at < t.at =>
              Cardinality(Inside(S, s.at, t.at))
                = Cardinality(Earlier(S, t)) - Cardinality(Earlier(S, s)) - 1
         /\ \A m \in Int : (\A t \in S : t.at < m) =>
              Cardinality(Inside(S, s.at, m)) = Cardinality(S) - Cardinality(Earlier(S, s)) - 1
<1> DEFINE A == Earlier(S, s) \cup {s}
<1>1. Inside(S, -1, s.at) = Earlier(S, s)
  BY DEF Inside, Earlier, Sample
<1>2. /\ IsFiniteSet(A) /\ Cardinality(A) = Cardinality(Earlier(S, s)) + 1
      /\ Cardinality(Earlier(S, s)) \in Nat /\ Cardinality(S) \in Nat
  <2>1. Earlier(S, s) \in SUBSET S /\ s \notin Earlier(S, s)
    BY DEF Earlier, Sample
  <2>2. IsFiniteSet(Earlier(S, s))
    BY <2>1, FS_Subset
  <2>3. QED
    BY <2>1, <2>2, FS_AddElement, FS_CardinalityType
<1>3. ASSUME NEW B, NEW C, IsFiniteSet(C), B \in SUBSET S, A \cup B = C, A \cap B = {}
      PROVE  Cardinality(B) = Cardinality(C) - Cardinality(Earlier(S, s)) - 1
  <2> HIDE DEF A
  <2>1. IsFiniteSet(B)
    BY <1>3, FS_Subset
  <2>2. Cardinality(A \cup B) = Cardinality(A) + Cardinality(B) - Cardinality(A \cap B)
    BY <1>2, <2>1, FS_Union
  <2>3. Cardinality(A \cap B) = 0 /\ Cardinality(B) \in Nat /\ Cardinality(C) \in Nat
    BY <1>3, <2>1, FS_EmptySet, FS_CardinalityType
  <2>4. Cardinality(C) = Cardinality(A) + Cardinality(B) - 0
    BY <1>3, <2>2, <2>3
  <2>5. QED
    BY <1>2, <2>3, <2>4
<1>4. ASSUME NEW t \in S, s.at < t.at
      PROVE  Cardinality(Inside(S, s.at, t.at))
               = Cardinality(Earlier(S, t)) - Cardinality(Earlier(S, s)) - 1
  <2>1. A \cup Inside(S, s.at, t.at) = Earlier(S, t) /\ A \cap Inside(S, s.at, t.at) = {}
    BY <1>4 DEF Inside, Earlier, Sample
  <2>2. Inside(S, s.at, t.at) \in SUBSET S /\ IsFiniteSet(Earlier(S, t))
    BY FS_Subset DEF Inside, Earlier
  <2> HIDE DEF A
  <2>3. QED
    BY <1>3, <2>1, <2>2
<1>5. ASSUME NEW m \in Int, \A t \in S : t.at < m
      PROVE  Cardinality(Inside(S, s.at, m)) = Cardinality(S) - Cardinality(Earlier(S, s)) - 1
  <2>1. A \cup Inside(S, s.at, m) = S /\ A \cap Inside(S, s.at, m) = {}
    BY <1>5 DEF Inside, Earlier, Sample
  <2>2. Inside(S, s.at, m) \in SUBSET S
    BY DEF Inside
  <2> HIDE DEF A
  <2>3. QED
    BY <1>3, <2>1, <2>2
<1>6. QED
  BY <1>1, <1>4, <1>5

\* A quotient that is rounded up.
LEMMA RoundedUp ==
  ASSUME NEW a \in Nat, NEW b \in Nat, a > 0, b > 0
  PROVE  LET c == (a + b - 1) \div b
         IN c \in Nat /\ c > 0 /\ a <= c * b /\ (c - 1) * b < a
<1> DEFINE c == (a + b - 1) \div b
           r == (a + b - 1) % b
<1>1. c \in Nat /\ r \in Nat /\ r < b /\ a + b - 1 = b * c + r
  OBVIOUS
<1> HIDE DEF c, r
<1>2. c > 0
  <2>1. CASE c = 0
    BY <1>1, <2>1
  <2>2. QED
    BY <1>1, <2>1
<1>3. b * c = c * b /\ (c - 1) * b = c * b - b /\ c * b \in Nat
  BY <1>1
<1>4. QED
  BY <1>1, <1>2, <1>3 DEF c

\* downsample takes every step-th, from the first to the last there is, and not
\* more than max.
LEMMA Thinned ==
  ASSUME NEW S, NEW q \in Seq(S), Len(q) > 0, NEW max \in Nat, max > 0
  PROVE  \E step \in Nat \ {0} :
           LET d == downsample(q, max)
           IN /\ d \in Seq(S) /\ Len(d) \in 1..max
              /\ (Len(d) - 1) * step + 1 <= Len(q) /\ Len(q) <= Len(d) * step
              /\ \A i \in 1..Len(d) : d[i] = q[(i - 1) * step + 1]
<1>1. CASE Len(q) <= max
  <2>1. downsample(q, max) = q
    BY <1>1 DEF downsample
  <2>2. \A i \in 1..Len(q) : q[i] = q[(i - 1) * 1 + 1]
    OBVIOUS
  <2>3. (Len(q) - 1) * 1 + 1 <= Len(q) /\ Len(q) <= Len(q) * 1 /\ Len(q) \in 1..max
    BY <1>1
  <2>4. QED
    BY <2>1, <2>2, <2>3
<1>2. CASE ~(Len(q) <= max)
  <2> DEFINE l == Len(q)
             step == (l + max - 1) \div max
             n == (l + step - 1) \div step
  <2>1. l \in Nat /\ l > 0 /\ DOMAIN q = 1..l
    OBVIOUS
  <2>2. downsample(q, max) = [i \in 1..n |-> q[(i - 1) * step + 1]]
    BY <1>2 DEF downsample
  <2> HIDE DEF l
  <2>3. step \in Nat /\ step > 0 /\ l <= step * max
    BY <2>1, RoundedUp
  <2> HIDE DEF step
  <2>4. n \in Nat /\ n > 0 /\ l <= n * step /\ (n - 1) * step < l
    BY <2>1, <2>3, RoundedUp
  <2> HIDE DEF n
  <2>5. n <= max
    <3> SUFFICES ASSUME n - 1 >= max PROVE FALSE
      BY <2>4
    <3>1. \A x, y, z \in Nat : x >= y => x * z >= z * y
      OBVIOUS
    <3>2. n - 1 \in Nat /\ (n - 1) * step >= step * max
      BY <2>3, <2>4, <3>1
    <3>3. (n - 1) * step \in Nat /\ step * max \in Nat
      BY <2>3, <2>4
    <3>4. QED
      BY <2>1, <2>3, <2>4, <3>2, <3>3
  <2>6. ASSUME NEW i \in 1..n PROVE (i - 1) * step + 1 \in 1..l
    <3>1. \A x, y, z \in Nat : x <= y => x * z <= y * z
      OBVIOUS
    <3>2. i - 1 \in Nat /\ n - 1 \in Nat /\ (i - 1) * step <= (n - 1) * step
      BY <2>3, <2>4, <3>1
    <3>3. (i - 1) * step \in Nat /\ (n - 1) * step \in Nat
      BY <2>3, <3>2
    <3>4. QED
      BY <2>1, <2>4, <3>2, <3>3
  <2> DEFINE d == [i \in 1..n |-> q[(i - 1) * step + 1]]
  <2>7. d \in Seq(S) /\ Len(d) = n /\ \A i \in 1..n : d[i] = q[(i - 1) * step + 1]
    <3>1. \A i \in 1..l : q[i] \in S
      BY <2>1
    <3>2. d \in [1..n -> S]
      BY <2>6, <3>1
    <3>3. QED
      BY <2>4, <3>2
  <2> HIDE DEF d
  <2>8. (n - 1) * step + 1 <= l
    <3>1. (n - 1) * step \in Nat
      <4>1. n - 1 \in Nat
        BY <2>4
      <4>2. QED
        BY <2>3, <4>1
    <3>2. QED
      BY <2>1, <2>4, <3>1
  <2>9. downsample(q, max) = d
    BY <2>2 DEF d
  <2>10. /\ step \in Nat \ {0} /\ Len(d) \in 1..max
         /\ (Len(d) - 1) * step + 1 <= Len(q) /\ Len(q) <= Len(d) * step
         /\ \A i \in 1..Len(d) : d[i] = q[(i - 1) * step + 1]
    <3>1. Len(d) = n /\ Len(q) = l
      BY <2>7 DEF l
    <3>2. Len(d) \in 1..max
      BY <2>4, <2>5, <3>1
    <3>3. QED
      BY <2>3, <2>4, <2>7, <2>8, <3>1, <3>2
  <2>11. QED
    BY <2>7, <2>9, <2>10
<1>3. QED
  BY <1>1, <1>2

\* The samples of an answer, thinned out, are evenly spread over the ones there
\* are.
LEMMA EvenlySpread ==
  ASSUME NEW N \in SUBSET Sample, IsFiniteSet(N), N # {}, NEW max \in Nat, max > 0,
         NEW m \in Int, \A t \in N : t.at < m,
         NEW d, d = downsample(Ascending(N), max)
  PROVE  /\ d \in Seq(N) /\ Len(d) \in 1..max
         /\ Cardinality(Inside(N, -1, d[1].at)) = 0
         /\ \E gap \in Nat :
              /\ \A i \in 1..(Len(d) - 1) :
                   d[i].at < d[i + 1].at /\ Cardinality(Inside(N, d[i].at, d[i + 1].at)) = gap
              /\ Cardinality(Inside(N, d[Len(d)].at, m)) <= gap
<1> DEFINE q == Ascending(N)
           c == Cardinality(N)
<1>1. /\ q \in Seq(N) /\ Len(q) = c
      /\ \A i \in 1..c : q[i] \in N /\ Cardinality(Earlier(N, q[i])) = i - 1
      /\ \A i, j \in 1..c : i < j => q[i].at < q[j].at
  BY AscendingIs
<1>2. c \in Nat /\ c > 0
  <2>1. c \in Nat /\ c # 0
    BY FS_CardinalityType, FS_EmptySet
  <2>2. QED
    BY <2>1
<1> HIDE DEF q, c
<1>3. PICK step \in Nat \ {0} :
        /\ d \in Seq(N) /\ Len(d) \in 1..max
        /\ (Len(d) - 1) * step + 1 <= c /\ c <= Len(d) * step
        /\ \A i \in 1..Len(d) : d[i] = q[(i - 1) * step + 1]
  <2>1. Len(q) > 0 /\ d = downsample(q, max)
    BY <1>1, <1>2 DEF q
  <2>2. \E step \in Nat \ {0} :
          LET e == downsample(q, max)
          IN /\ e \in Seq(N) /\ Len(e) \in 1..max
             /\ (Len(e) - 1) * step + 1 <= Len(q) /\ Len(q) <= Len(e) * step
             /\ \A i \in 1..Len(e) : e[i] = q[(i - 1) * step + 1]
    <3>1. q \in Seq(N)
      BY <1>1
    <3>2. QED
      BY <2>1, <3>1, Thinned, Zenon
  <2>3. QED
    BY <1>1, <2>1, <2>2, Zenon
<1> DEFINE n == Len(d)
           At(i) == (i - 1) * step + 1
<1>4. n \in Nat /\ n > 0 /\ n - 1 \in Nat
  BY <1>3
<1>5. ASSUME NEW i \in 1..n PROVE At(i) \in 1..c /\ At(i) - 1 = (i - 1) * step
  <2>1. \A x, y, z \in Nat : x <= y => x * z <= y * z
    OBVIOUS
  <2>2. i - 1 \in Nat /\ i - 1 <= n - 1 /\ step \in Nat
    BY <1>4
  <2>3. (i - 1) * step <= (n - 1) * step
    BY <1>4, <2>1, <2>2
  <2>4. (i - 1) * step \in Nat /\ (n - 1) * step \in Nat
    BY <1>4, <2>2
  <2>5. QED
    BY <1>2, <1>3, <2>3, <2>4
<1>6. ASSUME NEW i \in 1..n
      PROVE  d[i] \in N /\ d[i] = q[At(i)] /\ Cardinality(Earlier(N, d[i])) = (i - 1) * step
  <2>1. d[i] = q[At(i)]
    BY <1>3
  <2> HIDE DEF At
  <2>2. q[At(i)] \in N /\ Cardinality(Earlier(N, q[At(i)])) = At(i) - 1
    BY <1>1, <1>5
  <2>3. QED
    BY <1>5, <2>1, <2>2
<1>7. Cardinality(Inside(N, -1, d[1].at)) = 0
  <2>1. d[1] \in N /\ Cardinality(Earlier(N, d[1])) = 0
    BY <1>4, <1>6
  <2>2. QED
    BY <2>1, Gaps
<1>8. ASSUME NEW i \in 1..(n - 1)
      PROVE  /\ d[i].at < d[i + 1].at
             /\ Cardinality(Inside(N, d[i].at, d[i + 1].at)) = step - 1
  <2>1. i \in 1..n /\ i + 1 \in 1..n /\ i \in Nat
    BY <1>4
  <2>2. At(i + 1) = At(i) + step /\ (i + 1 - 1) * step = (i - 1) * step + step
    BY <2>1
  <2>3. At(i) < At(i + 1)
    BY <1>5, <2>1, <2>2
  <2> DEFINE j == i + 1
  <2>4. j \in 1..n /\ At(j) \in 1..c /\ At(i) \in 1..c
    BY <1>5, <2>1
  <2>5. /\ d[i] \in N /\ d[i] = q[At(i)] /\ Cardinality(Earlier(N, d[i])) = (i - 1) * step
        /\ d[j] \in N /\ d[j] = q[At(j)] /\ Cardinality(Earlier(N, d[j])) = (j - 1) * step
    BY <1>6, <2>1, <2>4
  <2>6. (j - 1) * step - (i - 1) * step - 1 = step - 1
    <3>1. (i - 1) * step \in Int
      BY <2>1
    <3>2. QED
      BY <2>2, <3>1
  <2>7. At(i) < At(j)
    BY <2>3
  <2> HIDE DEF At, j
  <2>8. d[i].at < d[j].at
    BY <1>1, <2>4, <2>5, <2>7
  <2>9. Cardinality(Inside(N, d[i].at, d[j].at))
          = Cardinality(Earlier(N, d[j])) - Cardinality(Earlier(N, d[i])) - 1
    BY <2>5, <2>8, Gaps
  <2>10. Cardinality(Inside(N, d[i].at, d[j].at)) = step - 1
    BY <2>5, <2>6, <2>9
  <2>11. QED
    BY <2>8, <2>10 DEF j
<1>9. Cardinality(Inside(N, d[n].at, m)) <= step - 1
  <2>1. n \in 1..n
    BY <1>4
  <2>2. d[n] \in N /\ Cardinality(Earlier(N, d[n])) = (n - 1) * step
    BY <1>6, <2>1
  <2>3. Cardinality(Inside(N, d[n].at, m)) = c - (n - 1) * step - 1
    BY <2>2, Gaps DEF c
  <2>4. PICK x \in Nat : x = (n - 1) * step /\ n * step = x + step
    BY <1>4
  <2>5. c <= x + step
    BY <1>3, <2>4
  <2>6. c - x - 1 <= step - 1
    BY <1>2, <2>5
  <2>7. QED
    BY <2>3, <2>4, <2>6
<1>10. step - 1 \in Nat
  OBVIOUS
<1>11. QED
  BY <1>3, <1>7, <1>8, <1>9, <1>10

\* There is nothing in the answer before it is given.
GraphInv ==
    clock <= MaxTime /\ (asked.kind \in {"none", "delta", "raw"} => points = <<>>)

\* AnswerEven, of one step.
Even ==
    asked.kind = "raw" /\ points # points' =>
        LET match == InRange(asked.since, asked.until)
            newest == {s \in match : Cardinality({t \in match : t.at > s.at}) < asked.limit}
            Between(a, b) == Cardinality({s \in newest : a < s.at /\ s.at < b})
            n == Len(points')
        IN /\ n <= MaxPoints
           /\ \A i \in 1..n : \E s \in newest :
                s.at = points'[i].at /\ points'[i].value = s.value - reference.value
           /\ Between(-1, points'[1].at) = 0
           /\ \A i \in 1..(n - 1) :
                /\ points'[i].at < points'[i + 1].at
                /\ Between(points'[i].at, points'[i + 1].at) = Between(points'[1].at, points'[2].at)
           /\ n > 1 => Between(points'[n].at, MaxTime + 1) <= Between(points'[1].at, points'[2].at)

\* The answer of QuerySamples.
LEMMA AnswerStep ==
  ASSUME HistoryInv, GraphInv, QuerySamples, points # points'
  PROVE  Even
<1> DEFINE match == InRange(asked.since, asked.until)
           N == {s \in match : Cardinality({t \in match : t.at > s.at}) < asked.limit}
           d == downsample(Ascending(N), MaxPoints)
<1>1. points' = [i \in DOMAIN d |-> [d[i] EXCEPT !.value = @ - reference.value]]
  BY DEF QuerySamples, QueryRawSamples
<1>2. N \in SUBSET Sample /\ IsFiniteSet(N) /\ \A t \in N : t.at < MaxTime + 1
  <2>1. N \in SUBSET raw
    BY DEF InRange
  <2> HIDE DEF N
  <2>2. QED
    BY <2>1, FS_Subset, HistoryAssumption DEF HistoryInv, SamplesInv, Sample, GraphInv
<1>3. MaxPoints \in Nat /\ MaxPoints > 0 /\ MaxTime + 1 \in Int
  BY HistoryAssumption
<1>4. N # {}
  <2> SUFFICES ASSUME N = {} PROVE FALSE
    OBVIOUS
  <2> HIDE DEF N
  <2>1. Ascending(N) = <<>>
    BY FS_EmptySet DEF Ascending
  <2>2. d = <<>>
    BY <1>3, <2>1 DEF downsample
  <2>3. points' = <<>>
    BY <1>1, <2>2
  <2>4. QED
    BY <2>3 DEF GraphInv, QuerySamples
<1>5. Even <=>
        LET Between(a, b) == Cardinality(Inside(N, a, b))
            n == Len(points')
        IN /\ n <= MaxPoints
           /\ \A i \in 1..n : \E s \in N :
                s.at = points'[i].at /\ points'[i].value = s.value - reference.value
           /\ Between(-1, points'[1].at) = 0
           /\ \A i \in 1..(n - 1) :
                /\ points'[i].at < points'[i + 1].at
                /\ Between(points'[i].at, points'[i + 1].at) = Between(points'[1].at, points'[2].at)
           /\ n > 1 => Between(points'[n].at, MaxTime + 1) <= Between(points'[1].at, points'[2].at)
  BY Zenon DEF Even, QuerySamples, Inside
<1> HIDE DEF N, d
<1>6. /\ d \in Seq(N) /\ Len(d) \in 1..MaxPoints
      /\ Cardinality(Inside(N, -1, d[1].at)) = 0
  BY <1>2, <1>3, <1>4, EvenlySpread DEF d
<1>7. PICK gap \in Nat :
        /\ \A i \in 1..(Len(d) - 1) :
             d[i].at < d[i + 1].at /\ Cardinality(Inside(N, d[i].at, d[i + 1].at)) = gap
        /\ Cardinality(Inside(N, d[Len(d)].at, MaxTime + 1)) <= gap
  BY <1>2, <1>3, <1>4, EvenlySpread DEF d
<1>8. DOMAIN d = 1..Len(d) /\ Len(d) \in Nat
  BY <1>6
<1>9. Len(points') = Len(d)
  BY <1>1, <1>8
<1>10. \A i \in 1..Len(d) : /\ d[i] \in N /\ points'[i].at = d[i].at
                            /\ points'[i].value = d[i].value - reference.value
  <2>1. \A i \in 1..Len(d) : d[i] \in N /\ d[i] \in Sample
    BY <1>2, <1>6, <1>8
  <2>2. \A i \in 1..Len(d) : points'[i] = [d[i] EXCEPT !.value = @ - reference.value]
    BY <1>1, <1>8
  <2>3. QED
    BY <2>1, <2>2 DEF Sample
<1>11. \A i \in 1..(Len(d) - 1) :
         /\ points'[i].at < points'[i + 1].at
         /\ Cardinality(Inside(N, points'[i].at, points'[i + 1].at)) = gap
  BY <1>7, <1>8, <1>10
<1>12. Len(d) > 1 => Cardinality(Inside(N, points'[1].at, points'[2].at)) = gap
  <2> SUFFICES ASSUME Len(d) > 1 PROVE Cardinality(Inside(N, points'[1].at, points'[2].at)) = gap
    OBVIOUS
  <2>1. 1 \in 1..(Len(d) - 1) /\ 1 + 1 = 2
    BY <1>8
  <2>2. QED
    BY <1>11, <2>1
<1>13. /\ Cardinality(Inside(N, -1, points'[1].at)) = 0
       /\ Cardinality(Inside(N, points'[Len(d)].at, MaxTime + 1)) <= gap
  <2>1. 1 \in 1..Len(d) /\ Len(d) \in 1..Len(d)
    BY <1>6
  <2>2. QED
    BY <1>6, <1>7, <1>10, <2>1
<1>14. \A i \in 1..(Len(d) - 1) : Len(d) > 1
  BY <1>8
<1>15. QED
  BY <1>5, <1>6, <1>8, <1>9, <1>10, <1>11, <1>12, <1>13, <1>14

\* AnswerEven, for any history, range, limit and number of points: a graph shows
\* at most MaxPoints of the newest samples of its range, in their order, and the
\* ones left out are evenly spread (handler.go downsample).
THEOREM AnswerSpansEvenly == Spec => AnswerEven
<1>1. Init => HistoryInv /\ GraphInv
  BY HistoryInitInv, HistoryAssumption DEF Init, HistoryInit, GraphInv
<1>2. HistoryInv /\ [Next]_vars => HistoryInv'
  BY HistoryNextInv DEF Next, vars, historyVars
<1>3. HistoryInv /\ GraphInv /\ [Next]_vars => GraphInv'
  <2> SUFFICES ASSUME HistoryInv, GraphInv, [Next]_vars PROVE GraphInv'
    OBVIOUS
  <2>1. CASE UNCHANGED historyVars
    BY <2>1 DEF historyVars, GraphInv
  <2>2. CASE Tick
    BY <2>2, HistoryAssumption DEF Tick, GraphInv, HistoryInv, SamplesInv
  <2>3. CASE PruneRaw \/ AskSamples
    BY <2>3 DEF PruneRaw, AskSamples, GraphInv
  <2>4. CASE AskLatest
    BY <2>4 DEF AskLatest, GraphInv
  <2>5. CASE DeltaReference \/ QueryFails \/ Answered
    BY <2>5 DEF DeltaReference, QueryFails, Answered, GraphInv
  <2>6. CASE QuerySamples
    <3>1. asked'.kind = "answered" /\ clock' = clock
      BY <2>6 DEF QuerySamples, HistoryInv, RequestInv
    <3>2. QED
      BY <3>1 DEF GraphInv
  <2>7. QED
    BY <2>1, <2>2, <2>3, <2>4, <2>5, <2>6 DEF Next, HistoryNext, vars
<1>4. HistoryInv /\ GraphInv /\ [Next]_vars => [Even]_historyVars
  <2> SUFFICES ASSUME HistoryInv, GraphInv, [Next]_vars, asked.kind = "raw", points # points'
               PROVE  Even
    BY DEF Even
  <2>1. QuerySamples
    BY DEF Next, HistoryNext, vars, historyVars, Tick, PruneRaw, AskSamples, AskLatest,
           DeltaReference, QueryFails, Answered, GraphInv
  <2>2. QED
    BY <2>1, AnswerStep
<1>5. QED
  BY <1>1, <1>2, <1>3, <1>4, PTL DEF Spec, AnswerEven, Even
=============================================================================
