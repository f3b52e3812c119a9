--------------------------- MODULE ShutdownProofs ---------------------------
(***************************************************************************)
(* Proofs about Shutdown, for any number of workers and requests.  Once    *)
(* the server is stopped no request begins, so what httpServer.Shutdown    *)
(* found drained stays so; and everything behind it happens with a stopped *)
(* server (OrderInv).                                                      *)
(***************************************************************************)
EXTENDS Shutdown, TLAPS

\* The places of main behind httpServer.Shutdown.
Behind == {"closeDaemon", "closeStore", "exit", "exited"}

\* The order of the shutdown sequence: behind httpServer.Shutdown the server
\* is stopped and drained, unless that timed out; only main stops it, after
\* the signal; and the store is closed at the very end.
OrderInv ==
    /\ main \in Behind => server = "stopped" /\ (timedOut \/ Drained)
    /\ server = "stopped" => main # "wait"
    /\ ~storeOpen <=> main \in {"exit", "exited"}

IInv == TypeOK /\ OrderInv

USE DEF Behind, Drained, Alive

\* The state that main starts its goroutines in.
LEMMA InitInv == Init => IInv
<1> SUFFICES ASSUME Init PROVE IInv
  OBVIOUS
<1>1. cancelled \in BOOLEAN /\ timedOut \in BOOLEAN /\ storeOpen \in BOOLEAN /\ storeOpen
  BY Zenon DEF Init
<1>2. QED
  BY <1>1 DEF Init, IInv, TypeOK, OrderInv

\* Every step of main, of a worker and of a handler keeps the order.
LEMMA NextInv == IInv /\ [Next]_vars => IInv'
<1> SUFFICES ASSUME IInv, [Next]_vars PROVE IInv'
  OBVIOUS
<1> USE DEF IInv, TypeOK, OrderInv
<1>1. CASE Signal
  BY <1>1 DEF Signal
<1>2. CASE Main
  <2>1. CASE SignalReceived
    BY <2>1 DEF SignalReceived
  <2>2. CASE StopServer
    BY <2>2 DEF StopServer
  <2>3. CASE Shutdown
    BY <2>3 DEF Shutdown
  <2>4. CASE CloseDaemon \/ Exit
    BY <2>4 DEF CloseDaemon, Exit
  <2>5. CASE CloseStore
    <3>1. storeOpen' \in BOOLEAN /\ ~storeOpen'
      BY <2>5, Zenon DEF CloseStore
    <3>2. QED
      BY <2>5, <3>1 DEF CloseStore
  <2>6. QED
    BY <1>2, <2>1, <2>2, <2>3, <2>4, <2>5 DEF Main
<1>3. CASE ServeFails
  BY <1>3 DEF ServeFails
<1>4. ASSUME NEW r \in Requests, Request(r) \/ Respond(r) PROVE IInv'
  BY <1>4 DEF Request, Respond
<1>5. ASSUME NEW w \in Workers, Work(w) \/ WorkDone(w) \/ Return(w) PROVE IInv'
  BY <1>5 DEF Work, WorkDone, Return
<1>6. CASE UNCHANGED vars
  BY <1>6 DEF vars
<1>7. QED
  BY <1>1, <1>2, <1>3, <1>4, <1>5, <1>6 DEF Next

\* Spec keeps the inductive invariant.
THEOREM Invariance == Spec => []IInv
BY InitInv, NextInv, PTL DEF Spec

\* The variables of the process keep their types.
THEOREM TypeCorrect == Spec => []TypeOK
BY Invariance, PTL DEF IInv

\* However requests, signals and a failing server interleave with the
\* shutdown sequence of main, the database is closed under a handler only if
\* that handler has outlasted httpShutdownTimeout.
THEOREM StoreClosedAfterHandlers == Spec => []StoreOutlivesHandlers
<1>1. IInv => StoreOutlivesHandlers
  BY DEF IInv, TypeOK, OrderInv, StoreOutlivesHandlers
<1>2. QED
  BY <1>1, Invariance, PTL
=============================================================================
