----------------------------- MODULE Dashboard ------------------------------
(***************************************************************************)
(* The two parts of the dashboard that page through or compute with the    *)
(* database: the list of voltage events (EventPages) and today's energy    *)
(* and graphs (History).  They read different tables and share nothing, so *)
(* a behaviour is one of the one or of the other.                          *)
(***************************************************************************)
EXTENDS EventPages, History

VARIABLE view

vars == <<view, pagesVars, historyVars>>

Init == view \in {"events", "history"} /\ PagesInit /\ HistoryInit

Next ==
    \/ view = "events" /\ PagesNext /\ UNCHANGED <<view, historyVars>>
    \/ view = "history" /\ HistoryNext /\ UNCHANGED <<view, pagesVars>>

Spec == Init /\ [][Next]_vars
=============================================================================
