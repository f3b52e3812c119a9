------------------------------ MODULE Shutdown ------------------------------
(***************************************************************************)
(* The life of the daemon process, cmd/goodwe-daemon/main.go: the HTTP     *)
(* server and its handlers, the goroutines that Run and aggregationLoop    *)
(* run in, and the goroutine of main, which waits for a signal and then    *)
(* shuts the others down, step by step.                                    *)
(*                                                                         *)
(* A worker or a handler is "busy" while it may be in a call to the        *)
(* database.  A call after the store has been closed only returns an       *)
(* error.                                                                  *)
(***************************************************************************)
EXTENDS Naturals

CONSTANTS
    Workers,   \* the goroutines that take ctx: Run, aggregationLoop
    Requests   \* HTTP requests that can be served at a time

VARIABLES
    sigChan,    \* signals in the channel, of capacity 1
    main,       \* where main is
    cancelled,  \* ctx has been cancelled
    server,     \* the HTTP server
    worker,     \* per worker
    request,    \* per request
    timedOut,   \* httpServer.Shutdown gave up on its handlers
    storeOpen   \* store.Close has not been called

vars == <<sigChan, main, cancelled, server, worker, request, timedOut, storeOpen>>

TypeOK ==
    /\ sigChan \in 0..1
    /\ main \in {"wait", "shutdown", "closeDaemon", "closeStore", "exit", "exited"}
    /\ cancelled \in BOOLEAN /\ timedOut \in BOOLEAN /\ storeOpen \in BOOLEAN
    /\ server \in {"serving", "failed", "stopped"}
    /\ worker \in [Workers -> {"waiting", "busy", "returned"}]
    /\ request \in [Requests -> {"none", "busy"}]

\* main has opened the store and started its goroutines.
Init ==
    /\ sigChan = 0 /\ main = "wait" /\ cancelled = FALSE
    /\ server = "serving"
    /\ worker = [w \in Workers |-> "waiting"]
    /\ request = [r \in Requests |-> "none"]
    /\ timedOut = FALSE /\ storeOpen = TRUE

Alive == main # "exited"

-----------------------------------------------------------------------------
(* Goroutines other than main.                                             *)

\* Mutant of ServeFails: the error is only logged.
ServeFailsLogged ==
    /\ Alive /\ server = "serving"
    /\ server' = "failed"
    /\ UNCHANGED <<sigChan, main, cancelled, worker, request, timedOut, storeOpen>>

\* ListenAndServe fails, at once (the port is taken) or later: cancel.
ServeFails ==
    /\ Alive /\ server = "serving"
    /\ server' = "failed"
    /\ cancelled' = TRUE
    /\ UNCHANGED <<sigChan, main, worker, request, timedOut, storeOpen>>

Request(r) ==
    /\ Alive /\ server = "serving" /\ request[r] = "none"
    /\ request' = [request EXCEPT ![r] = "busy"]
    /\ UNCHANGED <<sigChan, main, cancelled, server, worker, timedOut, storeOpen>>

Respond(r) ==
    /\ Alive /\ request[r] = "busy"
    /\ request' = [request EXCEPT ![r] = "none"]
    /\ UNCHANGED <<sigChan, main, cancelled, server, worker, timedOut, storeOpen>>

\* select takes the timer or the ticker: a poll, or an aggregation, begins.
Work(w) ==
    /\ Alive /\ worker[w] = "waiting"
    /\ worker' = [worker EXCEPT ![w] = "busy"]
    /\ UNCHANGED <<sigChan, main, cancelled, server, request, timedOut, storeOpen>>

WorkDone(w) ==
    /\ Alive /\ worker[w] = "busy"
    /\ worker' = [worker EXCEPT ![w] = "waiting"]
    /\ UNCHANGED <<sigChan, main, cancelled, server, request, timedOut, storeOpen>>

\* select takes ctx.Done.  Run returns nil, so its goroutine cancels nothing.
Return(w) ==
    /\ Alive /\ worker[w] = "waiting" /\ cancelled
    /\ worker' = [worker EXCEPT ![w] = "returned"]
    /\ UNCHANGED <<sigChan, main, cancelled, server, request, timedOut, storeOpen>>

-----------------------------------------------------------------------------
(* Signals and main.                                                       *)

\* SIGINT or SIGTERM; signal.Notify drops what the channel has no room for.
Signal ==
    /\ Alive
    /\ sigChan' = 1
    /\ UNCHANGED <<main, cancelled, server, worker, request, timedOut, storeOpen>>

\* The only thing main waits for is a signal.
SignalReceived ==
    /\ main = "wait" /\ sigChan = 1
    /\ sigChan' = 0
    /\ cancelled' = TRUE
    /\ main' = "shutdown"
    /\ UNCHANGED <<server, worker, request, timedOut, storeOpen>>

\* httpServer.Shutdown closes the listener and waits for the handlers...
StopServer ==
    /\ main = "shutdown" /\ server # "stopped"
    /\ server' = "stopped"
    /\ UNCHANGED <<sigChan, main, cancelled, worker, request, timedOut, storeOpen>>

Drained == \A r \in Requests : request[r] = "none"

\* Mutant of Shutdown: no timeout.
ShutdownForever ==
    /\ main = "shutdown" /\ server = "stopped"
    /\ Drained
    /\ main' = "closeDaemon"
    /\ UNCHANGED <<sigChan, cancelled, server, worker, request, timedOut, storeOpen>>

\* Mutant of Shutdown: it does not wait.
ShutdownAtOnce ==
    /\ main = "shutdown" /\ server = "stopped"
    /\ main' = "closeDaemon"
    /\ UNCHANGED <<sigChan, cancelled, server, worker, request, timedOut, storeOpen>>

\* ... for httpShutdownTimeout at most.
Shutdown ==
    /\ main = "shutdown" /\ server = "stopped"
    /\ timedOut' = ~Drained
    /\ main' = "closeDaemon"
    /\ UNCHANGED <<sigChan, cancelled, server, worker, request, storeOpen>>

\* dmn.Close has nothing to do, and main has not waited for Run.
CloseDaemon ==
    /\ main = "closeDaemon"
    /\ main' = "closeStore"
    /\ UNCHANGED <<sigChan, cancelled, server, worker, request, timedOut, storeOpen>>

CloseStore ==
    /\ main = "closeStore"
    /\ storeOpen' = FALSE
    /\ main' = "exit"
    /\ UNCHANGED <<sigChan, cancelled, server, worker, request, timedOut>>

\* os.Exit ends every goroutine where it is.
Exit ==
    /\ main = "exit"
    /\ main' = "exited"
    /\ UNCHANGED <<sigChan, cancelled, server, worker, request, timedOut, storeOpen>>

-----------------------------------------------------------------------------

Main == SignalReceived \/ StopServer \/ Shutdown \/ CloseDaemon \/ CloseStore \/ Exit

Next ==
    \/ Signal \/ Main \/ ServeFails
    \/ \E r \in Requests : Request(r) \/ Respond(r)
    \/ \E w \in Workers : Work(w) \/ WorkDone(w) \/ Return(w)
    \/ ~Alive /\ UNCHANGED vars

Spec == Init /\ [][Next]_vars

\* Goroutines are scheduled; a poll or an aggregation ends, and select, which
\* chooses at random, takes ctx.Done in the end.  Of a handler nothing is
\* assumed: it may take longer than any timeout.
Fairness ==
    /\ WF_vars(Main)
    /\ \A w \in Workers : WF_vars(WorkDone(w)) /\ SF_vars(Return(w))

FairSpec == Spec /\ Fairness

-----------------------------------------------------------------------------
(* Properties.                                                             *)

\* main closes the database after it has drained the HTTP handlers: only one
\* that outlasts httpShutdownTimeout finds it closed.
StoreOutlivesHandlers == ~storeOpen /\ ~timedOut => Drained

\* After a signal the process ends, even when a handler hangs.
SignalEndsProcess == sigChan = 1 ~> main = "exited"

\* When the HTTP server fails, Run and the aggregation loop come to their end,
\* by the cancelled context or with the process.
ServerErrorStopsWorkers ==
    \A w \in Workers : server = "failed" ~> worker[w] = "returned" \/ ~Alive

\* "cancel() // trigger shutdown" (main.go): an error of the HTTP server makes
\* main shut the process down.
ServerErrorTriggersShutdown == server = "failed" ~> main # "wait"

\* dmn.Close is "Called after Run() returns" (daemon.go).
DaemonClosedAfterRun ==
    main \in {"closeStore", "exit", "exited"} => \A w \in Workers : worker[w] = "returned"
=============================================================================
