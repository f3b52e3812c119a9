----------------------------- MODULE EventPages -----------------------------
(***************************************************************************)
(* The list of voltage events, page by page: loadVoltageEvents of the      *)
(* dashboard (pkg/dashboard/index.html), handleGridVoltage (pkg/api/       *)
(* handler.go) and QueryVoltageEvents (pkg/db/store.go), while the voltage *)
(* analysis adds events.                                                   *)
(*                                                                         *)
(* An event is its id; ids grow and no event is ever deleted.  The two     *)
(* statements of a query are two steps.                                    *)
(***************************************************************************)
EXTENDS Integers, FiniteSets, FiniteSetsExt

CONSTANTS
    Limit,     \* events of a page (20)
    MaxEvents  \* bound: rows of voltage_events

ASSUME LimitAssumption == Limit \in Nat \ {0} /\ MaxEvents \in Nat

IDs == 1..MaxEvents

VARIABLES
    table,    \* voltage_events
    pc,       \* the request under way
    total,    \* its total_events
    answer,   \* its events and its cursor
    voltageCursor, voltageHasMore,  \* the dashboard's variables
    shown     \* how often the dashboard's table lists an event

pagesVars == <<table, pc, total, answer, voltageCursor, voltageHasMore, shown>>

NoAnswer == [events |-> {}, next |-> 0, hasMore |-> FALSE]

\* The page has been loaded; the database may hold events already.
PagesInit ==
    /\ \E n \in 0..MaxEvents : table = 1..n
    /\ pc = "idle" /\ total = 0 /\ answer = NoAnswer
    /\ voltageCursor = 0 /\ voltageHasMore = TRUE
    /\ shown = [i \in IDs |-> 0]

-----------------------------------------------------------------------------

\* InsertVoltageEvent, by the analysis: AUTOINCREMENT.
InsertVoltageEvent ==
    /\ Cardinality(table) < MaxEvents
    /\ table' = table \cup {Cardinality(table) + 1}
    /\ UNCHANGED <<pc, total, answer, voltageCursor, voltageHasMore, shown>>

\* loadVoltageEvents sends a request unless one is under way or there are no
\* more events.
Load ==
    /\ pc = "idle" /\ voltageHasMore
    /\ pc' = "count"
    /\ UNCHANGED <<table, total, answer, voltageCursor, voltageHasMore, shown>>

\* QueryVoltageEvents, SELECT COUNT.
Count ==
    /\ pc = "count"
    /\ total' = Cardinality(table)
    /\ pc' = "select"
    /\ UNCHANGED <<table, answer, voltageCursor, voltageHasMore, shown>>

\* Mutant of Matching: the event of the cursor is listed again.
MatchingOwn(before) == IF before > 0 THEN {i \in table : i <= before} ELSE table

\* WHERE id < before; without a cursor (0) every event.
Matching(before) == IF before > 0 THEN {i \in table : i < before} ELSE table

\* ORDER BY id DESC LIMIT limit.
Page(before) ==
    {i \in Matching(before) : Cardinality({j \in Matching(before) : j > i}) < Limit}

\* Mutant of NextCursor: off by one.
NextCursorSkips(page) == IF page = {} THEN 0 ELSE Min(page) - 1

\* The id of the last event of the page.
NextCursor(page) == IF page = {} THEN 0 ELSE Min(page)

HasMore(page) == Cardinality(page) >= Limit

\* QueryVoltageEvents, the page, and the rest of handleGridVoltage.
Select ==
    /\ pc = "select"
    /\ LET page == Page(voltageCursor)
       IN answer' = [events |-> page, next |-> NextCursor(page), hasMore |-> HasMore(page)]
    /\ pc' = "answered"
    /\ UNCHANGED <<table, total, voltageCursor, voltageHasMore, shown>>

\* The answer arrives.  An empty first page leaves the dashboard as it is.
Receive ==
    /\ pc = "answered"
    /\ \/ answer.events = {} /\ voltageCursor = 0
          /\ UNCHANGED <<voltageCursor, voltageHasMore, shown>>
       \/ /\ answer.events # {} \/ voltageCursor # 0
          /\ shown' = [i \in IDs |-> shown[i] + (IF i \in answer.events THEN 1 ELSE 0)]
          /\ voltageCursor' = answer.next /\ voltageHasMore' = answer.hasMore
    /\ pc' = "idle" /\ answer' = NoAnswer /\ total' = 0
    /\ UNCHANGED table

\* The request fails, in the database or on its way; the dashboard may ask
\* again.
Fail ==
    /\ pc # "idle"
    /\ pc' = "idle" /\ answer' = NoAnswer /\ total' = 0
    /\ UNCHANGED <<table, voltageCursor, voltageHasMore, shown>>

-----------------------------------------------------------------------------

PagesNext == InsertVoltageEvent \/ Load \/ Count \/ Select \/ Receive \/ Fail

-----------------------------------------------------------------------------
(* Properties.                                                             *)

Listed == {i \in IDs : shown[i] > 0}

\* No event is listed twice, whatever fails and is asked again and whatever
\* is added meanwhile; not even when a full last page is followed by an empty
\* one, whose cursor would start the list again.
ListedOnce == \A i \in IDs : shown[i] <= 1

\* The list has no holes: below an event that it shows nothing is missing
\* but what the pages to come have, and once the dashboard is told that there
\* are no more (has_more), nothing at all.
NoHoles == \A j \in Listed : \A k \in table : k < j /\ k \notin Listed =>
    voltageHasMore /\ \A i \in Listed : k < i
=============================================================================
