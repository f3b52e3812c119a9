-------------------------- MODULE TransportProofs --------------------------
(***************************************************************************)
(* Proofs about Transport, for any number of clients, sockets and blocks   *)
(* and both framings.  The argument: whoever dials, writes or waits for an *)
(* answer holds mu (LockInv); so only the holder changes conn or the       *)
(* socket behind it, and only the holder is owed an answer (OwedInv).      *)
(***************************************************************************)
EXTENDS Transport, TLAPS

USE DEF Holder, Waiting, Critical, Transaction, AwaitingAnswer

-----------------------------------------------------------------------------
(* Queues of pieces.                                                       *)

\* Forgetting a client keeps a queue a queue.
LEMMA ForgetType ==
    ASSUME NEW q \in Seq(Piece), NEW c \in Clients
    PROVE  Forget(q, c) \in Seq(Piece)
<1>1. \A i \in 1..Len(q) :
        (IF q[i].of = c THEN [q[i] EXCEPT !.of = Nobody] ELSE q[i]) \in Piece
  <2> TAKE i \in 1..Len(q)
  <2>1. q[i] \in Piece
    OBVIOUS
  <2>2. CASE q[i].of = c
    <3>1. [q[i] EXCEPT !.of = Nobody] \in Piece
      BY <2>1 DEF Piece
    <3>2. QED
      BY <2>2, <3>1
  <2>3. QED
    BY <2>1, <2>2
<1>2. Len(q) \in Nat /\ DOMAIN q = 1..Len(q)
  OBVIOUS
<1>3. Forget(q, c) \in [1..Len(q) -> Piece]
  BY <1>1, <1>2 DEF Forget
<1>4. QED
  BY <1>2, <1>3

\* Nobody is owed an answer by an empty queue.
LEMMA OwedEmpty == Owed(<<>>) = {}
BY DEF Owed

\* A queue that a client has been forgotten in owes it nothing, and owes
\* nobody new.
LEMMA OwedForget ==
    ASSUME NEW q \in Seq(Piece), NEW c \in Clients
    PROVE  Owed(Forget(q, c)) \subseteq Owed(q) \ {c}
<1>1. DOMAIN Forget(q, c) = DOMAIN q
  BY DEF Forget
<1>2. ASSUME NEW i \in DOMAIN q
      PROVE  Forget(q, c)[i].of = IF q[i].of = c THEN Nobody ELSE q[i].of
  BY DEF Forget, Piece
<1>3. QED
  BY <1>1, <1>2 DEF Owed

\* A new request adds its client to those a queue owes an answer.
LEMMA OwedAppend ==
    ASSUME NEW q \in Seq(Piece), NEW p \in Piece
    PROVE  /\ Append(q, p) \in Seq(Piece)
           /\ Owed(Append(q, p)) = Owed(q) \cup ({p.of} \ {Nobody})
<1>1. Append(q, p) \in Seq(Piece) /\ DOMAIN Append(q, p) = (DOMAIN q) \cup {Len(q) + 1}
  OBVIOUS
<1>2. Append(q, p)[Len(q) + 1] = p /\ \A i \in DOMAIN q : Append(q, p)[i] = q[i]
  OBVIOUS
<1>3. QED
  BY <1>1, <1>2 DEF Owed

\* The head of a queue is owed to one of the clients the queue owes, and
\* taking it off adds none.
LEMMA OwedTail ==
    ASSUME NEW q \in Seq(Piece), q # <<>>
    PROVE  /\ Tail(q) \in Seq(Piece) /\ Owed(Tail(q)) \subseteq Owed(q)
           /\ Head(q) \in Piece /\ Head(q).of \in Owed(q) \cup {Nobody}
<1>1. Tail(q) \in Seq(Piece) /\ Head(q) \in Piece /\ Head(q) = q[1] /\ 1 \in DOMAIN q
  OBVIOUS
<1>2. \A i \in DOMAIN Tail(q) : i + 1 \in DOMAIN q /\ Tail(q)[i] = q[i + 1]
  OBVIOUS
<1>3. QED
  BY <1>1, <1>2 DEF Owed

\* A queue whose head is replaced by another part of the same answer owes the
\* same clients.
LEMMA OwedSplit ==
    ASSUME NEW q \in Seq(Piece), q # <<>>, NEW p \in Piece, p.of = Head(q).of
    PROVE  /\ <<p>> \o Tail(q) \in Seq(Piece)
           /\ Owed(<<p>> \o Tail(q)) \subseteq Owed(q)
<1> DEFINE r == <<p>> \o Tail(q)
<1>1. r \in Seq(Piece) /\ DOMAIN r = DOMAIN q
  OBVIOUS
<1>2. \A i \in DOMAIN q : r[i] = IF i = 1 THEN p ELSE q[i]
  OBVIOUS
<1>3. Head(q) = q[1]
  OBVIOUS
<1>4. QED
  BY <1>1, <1>2, <1>3 DEF Owed

-----------------------------------------------------------------------------
(* The inductive invariant.                                                *)

LockInv == \A c \in Clients : pc[c] \in Critical <=> mu = c

ConnInv ==
    /\ conn # NoSocket => conn \in open
    /\ \A c \in Clients : pc[c] \in Transaction => conn # NoSocket
    /\ \A c \in Clients : pc[c] = "dial" => conn = NoSocket

OwedInv ==
    \A s \in Sockets : \A c \in Owed(pending[s]) \cup Owed(inbox[s]) :
        s = conn /\ c \in Clients /\ pc[c] \in AwaitingAnswer

WantInv ==
    \A c \in Clients : pc[c] \in {"read", "retry"} \cup Transaction => want[c] \in Blocks

IInv == TypeOK /\ LockInv /\ WantInv /\ NoLeak /\ ConnInv /\ OwedInv /\ NoStolenAnswer

\* Closing conn, by a client that holds mu or while mu is free, leaves no
\* socket open and no call owed an answer by any socket.
LEMMA ShutLemma ==
    ASSUME IInv, Shut, \A c \in Clients : mu # c \/ pc[c] \in Critical
    PROVE  /\ conn' = NoSocket /\ open' = {} /\ peer' = peer
           /\ pending' \in [Sockets -> Seq(Piece)] /\ inbox' \in [Sockets -> Seq(Piece)]
           /\ \A s \in Sockets : Owed(pending'[s]) \cup Owed(inbox'[s]) = {}
<1>1. conn' = NoSocket /\ open' = {} /\ peer' = peer
  BY DEF Shut, IInv, NoLeak
<1>2. pending' \in [Sockets -> Seq(Piece)] /\ inbox' \in [Sockets -> Seq(Piece)]
  BY DEF Shut, IInv, TypeOK
<1>3. ASSUME NEW s \in Sockets
      PROVE  Owed(pending'[s]) \cup Owed(inbox'[s]) = {}
  <2>1. CASE s = conn
    BY <2>1, OwedEmpty DEF Shut
  <2>2. CASE s # conn
    BY <2>2 DEF Shut, IInv, OwedInv
  <2>3. QED
    BY <2>1, <2>2
<1>4. QED
  BY <1>1, <1>2, <1>3

\* The invariant holds initially.
LEMMA InitInv == Init => IInv
<1> SUFFICES ASSUME Init PROVE IInv
  OBVIOUS
<1>1. TypeOK
  BY DEF Init, TypeOK, Outcome
<1>2. LockInv /\ WantInv /\ NoLeak /\ ConnInv /\ NoStolenAnswer
  BY NilAssumption DEF Init, LockInv, WantInv, NoLeak, ConnInv, NoStolenAnswer, Error
<1>3. OwedInv
  BY OwedEmpty DEF Init, OwedInv
<1>4. QED
  BY <1>1, <1>2, <1>3 DEF IInv

\* Every step preserves the invariant.
LEMMA NextInv == IInv /\ [Next]_vars => IInv'
<1> SUFFICES ASSUME IInv, [Next]_vars PROVE IInv'
  OBVIOUS
<1> USE NilAssumption
<1>1. ASSUME NEW c \in Clients, CallConnect(c) \/ CallClose(c)
      PROVE  IInv'
  <2>1. TypeOK' /\ LockInv' /\ WantInv' /\ NoLeak' /\ ConnInv' /\ NoStolenAnswer'
    <3>1. TypeOK'
      BY <1>1 DEF IInv, TypeOK, CallConnect, CallClose, Goto, socketVars, Outcome, Error
    <3>2. LockInv' /\ WantInv' /\ NoLeak' /\ ConnInv'
      BY <1>1 DEF IInv, TypeOK, LockInv, WantInv, NoLeak, ConnInv,
                  CallConnect, CallClose, Goto, socketVars
    <3>3. NoStolenAnswer'
      <4>1. got' = [got EXCEPT ![c] = Error] /\ Error.kind # "data"
        BY <1>1 DEF CallConnect, CallClose, Error
      <4>2. QED
        BY <4>1 DEF IInv, TypeOK, NoStolenAnswer
    <3>4. QED
      BY <3>1, <3>2, <3>3
  <2>2. OwedInv'
    BY <1>1 DEF IInv, TypeOK, OwedInv, CallConnect, CallClose, Goto, socketVars
  <2>3. QED
    BY <2>1, <2>2 DEF IInv
<1>2. ASSUME NEW c \in Clients, NEW b \in Blocks, CallReadRegisters(c, b)
      PROVE  IInv'
  <2>1. TypeOK' /\ LockInv' /\ WantInv' /\ NoLeak' /\ ConnInv' /\ NoStolenAnswer'
    BY <1>2 DEF IInv, TypeOK, LockInv, WantInv, NoLeak, ConnInv, NoStolenAnswer,
                CallReadRegisters, Goto, socketVars, Outcome, Error
  <2>2. OwedInv'
    BY <1>2 DEF IInv, TypeOK, OwedInv, CallReadRegisters, Goto, socketVars
  <2>3. QED
    BY <2>1, <2>2 DEF IInv
<1>3. ASSUME NEW c \in Clients, Close(c) \/ ConnectLock(c) \/ FailClosed(c)
      PROVE  IInv'
  <2>1. /\ conn' = NoSocket /\ open' = {} /\ peer' = peer
        /\ pending' \in [Sockets -> Seq(Piece)] /\ inbox' \in [Sockets -> Seq(Piece)]
        /\ \A s \in Sockets : Owed(pending'[s]) \cup Owed(inbox'[s]) = {}
    BY <1>3, ShutLemma DEF Close, ConnectLock, FailClosed, IInv, LockInv
  <2>2. TypeOK' /\ LockInv' /\ WantInv' /\ NoLeak' /\ ConnInv' /\ NoStolenAnswer'
    <3>1. TypeOK' /\ NoLeak' /\ NoStolenAnswer'
      BY <1>3, <2>1 DEF IInv, TypeOK, NoLeak, NoStolenAnswer,
                        Close, ConnectLock, FailClosed, Goto
    <3>2. CASE Close(c)
      BY <2>1, <3>1, <3>2 DEF IInv, TypeOK, LockInv, WantInv, ConnInv, Close, Goto
    <3>3. CASE ConnectLock(c)
      BY <2>1, <3>1, <3>3 DEF IInv, TypeOK, LockInv, WantInv, ConnInv, ConnectLock, Goto
    <3>4. CASE FailClosed(c)
      BY <2>1, <3>1, <3>4 DEF IInv, TypeOK, LockInv, WantInv, ConnInv, FailClosed, Goto
    <3>5. QED
      BY <1>3, <3>2, <3>3, <3>4
  <2>3. OwedInv'
    BY <2>1 DEF OwedInv
  <2>4. QED
    BY <2>2, <2>3 DEF IInv
<1>4. ASSUME NEW c \in Clients, NEW s \in Sockets, DialOk(c, s)
      PROVE  IInv'
  <2>1. \A t \in Sockets : Owed(pending[t]) \cup Owed(inbox[t]) = {}
    BY <1>4 DEF IInv, OwedInv, ConnInv, DialOk
  <2>2. TypeOK' /\ LockInv' /\ WantInv' /\ NoLeak' /\ ConnInv' /\ NoStolenAnswer'
    BY <1>4 DEF IInv, TypeOK, LockInv, WantInv, NoLeak, ConnInv, NoStolenAnswer, DialOk, Goto
  <2>3. OwedInv'
    BY <1>4, <2>1 DEF OwedInv, DialOk
  <2>4. QED
    BY <2>2, <2>3 DEF IInv
<1>5. ASSUME NEW c \in Clients, DialFail(c)
      PROVE  IInv'
  <2>1. TypeOK' /\ LockInv' /\ WantInv' /\ NoLeak' /\ ConnInv' /\ NoStolenAnswer'
    BY <1>5 DEF IInv, TypeOK, LockInv, WantInv, NoLeak, ConnInv, NoStolenAnswer,
                DialFail, Goto, socketVars, Outcome, Error
  <2>2. OwedInv'
    BY <1>5 DEF IInv, TypeOK, OwedInv, DialFail, Goto, socketVars
  <2>3. QED
    BY <2>1, <2>2 DEF IInv
<1>6. ASSUME NEW c \in Clients, ReadLock(c) \/ RetryLock(c) \/ Recover(c)
      PROVE  IInv'
  <2>1. TypeOK' /\ LockInv' /\ WantInv' /\ NoLeak' /\ ConnInv' /\ NoStolenAnswer'
    <3>1. TypeOK' /\ NoLeak' /\ NoStolenAnswer'
      BY <1>6 DEF IInv, TypeOK, NoLeak, NoStolenAnswer, ReadLock, RetryLock, Recover,
                  Goto, socketVars
    <3>2. CASE ReadLock(c)
      BY <3>1, <3>2 DEF IInv, TypeOK, LockInv, WantInv, ConnInv, ReadLock, Goto, socketVars
    <3>3. CASE RetryLock(c)
      BY <3>1, <3>3 DEF IInv, TypeOK, LockInv, WantInv, ConnInv, RetryLock, Goto, socketVars
    <3>4. CASE Recover(c)
      BY <3>1, <3>4 DEF IInv, TypeOK, LockInv, WantInv, ConnInv, Recover, Goto, socketVars
    <3>5. QED
      BY <1>6, <3>2, <3>3, <3>4
  <2>2. OwedInv'
    BY <1>6 DEF IInv, TypeOK, OwedInv, ReadLock, RetryLock, Recover, Goto, socketVars
  <2>3. QED
    BY <2>1, <2>2 DEF IInv
<1>7. ASSUME NEW c \in Clients, Send(c)
      PROVE  IInv'
  <2> DEFINE p == [block |-> want[c], of |-> c, part |-> "whole"]
  <2>1. mu = c /\ conn \in Sockets /\ p \in Piece
    BY <1>7 DEF IInv, TypeOK, LockInv, WantInv, ConnInv, Send, Piece
  <2>2. \A d \in Clients : pc[d] \in Critical => d = c
    BY <2>1 DEF IInv, LockInv
  <2>3. /\ Append(pending[conn], p) \in Seq(Piece)
        /\ Owed(Append(pending[conn], p)) = Owed(pending[conn]) \cup {c}
    BY <2>1, OwedAppend DEF IInv, TypeOK
  <2>4. /\ pending' \in [Sockets -> Seq(Piece)]
        /\ \A s \in Sockets :
             Owed(pending'[s]) \subseteq Owed(pending[s]) \cup (IF s = conn THEN {c} ELSE {})
    BY <1>7, <2>1, <2>3 DEF Send, IInv, TypeOK
  <2>5. TypeOK' /\ LockInv' /\ WantInv' /\ NoLeak' /\ ConnInv' /\ NoStolenAnswer'
    BY <1>7, <2>1, <2>4 DEF IInv, TypeOK, LockInv, WantInv, NoLeak, ConnInv,
                            NoStolenAnswer, Send, Goto
  <2>6. OwedInv'
    BY <1>7, <2>1, <2>2, <2>4 DEF IInv, TypeOK, OwedInv, Send, Goto
  <2>7. QED
    BY <2>5, <2>6 DEF IInv
<1>8. ASSUME NEW c \in Clients, Recv(c)
      PROVE  IInv'
  <2>1. mu = c /\ conn \in Sockets /\ inbox[conn] \in Seq(Piece) /\ inbox[conn] # <<>>
    BY <1>8 DEF IInv, TypeOK, LockInv, ConnInv, Recv
  <2>2. \A d \in Clients : pc[d] \in Critical => d = c
    BY <2>1 DEF IInv, LockInv
  <2>3. Left \in Seq(Piece) /\ Owed(Left) \subseteq Owed(inbox[conn])
    BY <2>1, OwedEmpty, OwedTail DEF Left
  <2>4. Head(Taken) = Head(inbox[conn]) /\ Head(Taken) \in Piece
    <3>1. Head(SubSeq(inbox[conn], 1, 1)) = Head(inbox[conn])
      BY <2>1
    <3>2. QED
      BY <2>1, <3>1, OwedTail DEF Taken
  <2>5. Head(Taken).of \in {c, Nobody}
    <3>1. Head(inbox[conn]).of \in Owed(inbox[conn]) \cup {Nobody}
      BY <2>1, OwedTail
    <3>2. Owed(inbox[conn]) \subseteq {c}
      BY <2>1, <2>2 DEF IInv, OwedInv
    <3>3. QED
      BY <2>4, <3>1, <3>2
  <2>6. PICK out \in Parse(Taken) : got' = [got EXCEPT ![c] = out]
    BY <1>8 DEF Recv
  <2>7. out \in Outcome /\ (out.kind = "data" => out.of \in {c, Nobody})
    BY <2>4, <2>5 DEF Parse, Outcome, Data, Garbage, Exception, Error, Piece
  <2>8. /\ Forget(Left, c) \in Seq(Piece) /\ Forget(pending[conn], c) \in Seq(Piece)
        /\ Owed(Forget(Left, c)) \subseteq Owed(inbox[conn]) \ {c}
        /\ Owed(Forget(pending[conn], c)) \subseteq Owed(pending[conn]) \ {c}
    BY <2>1, <2>3, ForgetType, OwedForget DEF IInv, TypeOK
  <2>9. TypeOK' /\ LockInv' /\ WantInv' /\ NoLeak' /\ ConnInv'
    BY <1>8, <2>1, <2>6, <2>7, <2>8 DEF IInv, TypeOK, LockInv, WantInv, NoLeak, ConnInv,
                                        Recv, Goto
  <2>10. NoStolenAnswer'
    BY <2>6, <2>7 DEF IInv, TypeOK, NoStolenAnswer
  <2>11. OwedInv'
    BY <1>8, <2>1, <2>2, <2>8 DEF IInv, TypeOK, OwedInv, Recv, Goto
  <2>12. QED
    BY <2>9, <2>10, <2>11 DEF IInv
<1>9. ASSUME NEW c \in Clients, FailOpen(c)
      PROVE  IInv'
  <2>1. mu = c /\ conn \in Sockets
    BY <1>9 DEF IInv, TypeOK, LockInv, ConnInv, FailOpen
  <2>2. \A d \in Clients : pc[d] \in Critical => d = c
    BY <2>1 DEF IInv, LockInv
  <2>3. /\ Forget(inbox[conn], c) \in Seq(Piece) /\ Forget(pending[conn], c) \in Seq(Piece)
        /\ Owed(Forget(inbox[conn], c)) \subseteq Owed(inbox[conn]) \ {c}
        /\ Owed(Forget(pending[conn], c)) \subseteq Owed(pending[conn]) \ {c}
    BY <2>1, ForgetType, OwedForget DEF IInv, TypeOK
  <2>4. TypeOK' /\ LockInv' /\ WantInv' /\ NoLeak' /\ ConnInv' /\ NoStolenAnswer'
    BY <1>9, <2>1, <2>3 DEF IInv, TypeOK, LockInv, WantInv, NoLeak, ConnInv,
                            NoStolenAnswer, FailOpen, Goto
  <2>5. OwedInv'
    BY <1>9, <2>1, <2>2, <2>3 DEF IInv, TypeOK, OwedInv, FailOpen, Goto
  <2>6. QED
    BY <2>4, <2>5 DEF IInv
<1>10. ASSUME NEW s \in Sockets, Deliver(s) \/ DeliverHead(s) \/ Lose(s) \/ Drop(s)
       PROVE  IInv'
  <2>1. /\ pending' \in [Sockets -> Seq(Piece)] /\ inbox' \in [Sockets -> Seq(Piece)]
        /\ \A t \in Sockets : Owed(pending'[t]) \cup Owed(inbox'[t])
                                \subseteq Owed(pending[t]) \cup Owed(inbox[t])
    <3> DEFINE q == pending[s]
               h == Head(pending[s])
    <3>0. q \in Seq(Piece) /\ inbox[s] \in Seq(Piece)
      BY DEF IInv, TypeOK
    <3>1. CASE Deliver(s)
      <4>1. /\ Tail(q) \in Seq(Piece) /\ Owed(Tail(q)) \subseteq Owed(q)
            /\ Append(inbox[s], h) \in Seq(Piece)
            /\ Owed(Append(inbox[s], h)) \subseteq Owed(inbox[s]) \cup Owed(q)
        <5>1. q # <<>>
          BY <3>1 DEF Deliver
        <5> HIDE DEF q
        <5>2. /\ Tail(q) \in Seq(Piece) /\ Owed(Tail(q)) \subseteq Owed(q)
              /\ Head(q) \in Piece /\ Head(q).of \in Owed(q) \cup {Nobody}
          BY <3>0, <5>1, OwedTail
        <5> DEFINE p == Head(q)
        <5> HIDE DEF p
        <5>3. /\ Append(inbox[s], p) \in Seq(Piece)
              /\ Owed(Append(inbox[s], p)) = Owed(inbox[s]) \cup ({p.of} \ {Nobody})
          BY <3>0, <5>2, OwedAppend DEF p
        <5>4. QED
          BY <5>2, <5>3 DEF p, q
      <4>2. QED
        BY <3>0, <3>1, <4>1 DEF Deliver, IInv, TypeOK
    <3>2. CASE DeliverHead(s)
      <4>1. h \in Piece /\ h.of \in Owed(q) \cup {Nobody}
        BY <3>0, <3>2, OwedTail DEF DeliverHead
      <4>2. /\ [h EXCEPT !.part = "head"] \in Piece /\ [h EXCEPT !.part = "tail"] \in Piece
            /\ [h EXCEPT !.part = "head"].of = h.of /\ [h EXCEPT !.part = "tail"].of = h.of
        BY <4>1 DEF Piece
      <4>3. /\ Append(inbox[s], [h EXCEPT !.part = "head"]) \in Seq(Piece)
            /\ Owed(Append(inbox[s], [h EXCEPT !.part = "head"]))
                 \subseteq Owed(inbox[s]) \cup Owed(q)
        <5> DEFINE p == [h EXCEPT !.part = "head"]
        <5>1. p \in Piece /\ p.of = h.of
          BY <4>2
        <5> HIDE DEF p
        <5>2. /\ Append(inbox[s], p) \in Seq(Piece)
              /\ Owed(Append(inbox[s], p)) \subseteq Owed(inbox[s]) \cup Owed(q)
          BY <3>0, <4>1, <5>1, OwedAppend
        <5>3. QED
          BY <5>2 DEF p
      <4>4. /\ <<[h EXCEPT !.part = "tail"]>> \o Tail(q) \in Seq(Piece)
            /\ Owed(<<[h EXCEPT !.part = "tail"]>> \o Tail(q)) \subseteq Owed(q)
        BY <3>0, <3>2, <4>2, OwedSplit DEF DeliverHead
      <4>5. QED
        BY <3>0, <3>2, <4>3, <4>4 DEF DeliverHead, IInv, TypeOK
    <3>3. CASE Lose(s)
      BY <3>0, <3>3, OwedTail DEF Lose, IInv, TypeOK
    <3>4. CASE Drop(s)
      BY <3>0, <3>4, OwedEmpty DEF Drop, IInv, TypeOK
    <3>5. QED
      BY <1>10, <3>1, <3>2, <3>3, <3>4
  <2>2. TypeOK' /\ LockInv' /\ WantInv' /\ NoLeak' /\ ConnInv' /\ NoStolenAnswer'
    BY <1>10, <2>1 DEF IInv, TypeOK, LockInv, WantInv, NoLeak, ConnInv, NoStolenAnswer,
                       Deliver, DeliverHead, Lose, Drop
  <2>3. OwedInv'
    BY <1>10, <2>1 DEF IInv, OwedInv, Deliver, DeliverHead, Lose, Drop
  <2>4. QED
    BY <2>2, <2>3 DEF IInv
<1>11. CASE UNCHANGED vars
  BY <1>11 DEF vars, socketVars, IInv, TypeOK, LockInv, WantInv, NoLeak, ConnInv, OwedInv,
               NoStolenAnswer
<1>12. QED
  BY <1>1, <1>2, <1>3, <1>4, <1>5, <1>6, <1>7, <1>8, <1>9, <1>10, <1>11
  DEF Next, Call, TakeLock, Step, DoRead, Network

\* Spec keeps the inductive invariant.
THEOREM Invariance == Spec => []IInv
BY InitInv, NextInv, PTL DEF Spec

\* The transport's variables keep their types.
THEOREM TypeCorrect == Spec => []TypeOK
BY Invariance, PTL DEF IInv

\* Whatever the poll goroutine and the handlers do, no two of their Modbus
\* transactions are ever in the same socket: what the mutex of both
\* transports is there for.
THEOREM TransactionsExclusive == Spec => []NoInterleaving
<1>1. IInv => NoInterleaving
  BY DEF IInv, LockInv, OwedInv, NoInterleaving
<1>2. QED
  BY <1>1, Invariance, PTL

\* No read is ever handed the answer that another call is still waiting for.
THEOREM AnswersNotStolen == Spec => []NoStolenAnswer
BY Invariance, PTL DEF IInv

\* Connect, Close and reconnects leave no socket open but conn.
THEOREM NoConnectionLeak == Spec => []NoLeak
BY Invariance, PTL DEF IInv

\* Nobody closes the connection under a transaction.
THEOREM TransactionsOnOpenConn == Spec => []NoUseAfterClose
<1>1. IInv => NoUseAfterClose
  BY DEF IInv, ConnInv, NoUseAfterClose
<1>2. QED
  BY <1>1, Invariance, PTL

-----------------------------------------------------------------------------
(* A transport with a single client, as in the command line tool.          *)

SoloInv == \A c \in Clients : pc[c] # "panic" /\ (pc[c] = "retry" => conn # NoSocket)

\* Without a second goroutine the reconnect of ReadRegisters cannot be undone
\* before its retry: no call dereferences a nil connection.
THEOREM SoloNeverPanics ==
    ASSUME \A c, d \in Clients : c = d
    PROVE  Spec => []NoNilDeref
<1>1. Init => SoloInv
  BY DEF Init, SoloInv
<1>2. IInv /\ SoloInv /\ [Next]_vars => SoloInv'
  <2> SUFFICES ASSUME IInv, SoloInv, [Next]_vars PROVE SoloInv'
    OBVIOUS
  <2>0. pc \in [Clients -> {"idle", "panic"} \cup Waiting \cup Critical]
    BY DEF IInv, TypeOK
  <2>1. ASSUME NEW c \in Clients, Call(c) PROVE SoloInv'
    BY <2>0, <2>1 DEF SoloInv, Call, CallConnect, CallClose, CallReadRegisters, Goto
  <2>2. ASSUME NEW c \in Clients, TakeLock(c) PROVE SoloInv'
    BY <2>0, <2>2 DEF SoloInv, TakeLock, Close, ConnectLock, ReadLock, RetryLock, Goto, Shut
  <2>3. ASSUME NEW c \in Clients, Step(c) PROVE SoloInv'
    <3>1. ASSUME NEW s \in Sockets, DialOk(c, s) PROVE SoloInv'
      BY <2>0, <3>1, NilAssumption DEF SoloInv, DialOk, Goto
    <3>2. CASE DialFail(c) \/ Send(c) \/ Recv(c) \/ FailOpen(c) \/ FailClosed(c) \/ Recover(c)
      BY <2>0, <3>2 DEF SoloInv, DialFail, Send, Recv, FailOpen, FailClosed, Recover, Goto
    <3>3. QED
      BY <2>3, <3>1, <3>2 DEF Step, DoRead
  <2>4. ASSUME NEW s \in Sockets, Network(s) PROVE SoloInv'
    BY <2>4 DEF SoloInv, Network, Deliver, DeliverHead, Lose, Drop
  <2>5. CASE UNCHANGED vars
    BY <2>5 DEF SoloInv, vars
  <2>6. QED
    BY <2>1, <2>2, <2>3, <2>4, <2>5 DEF Next
<1>3. SoloInv => NoNilDeref
  BY DEF SoloInv, NoNilDeref
<1>4. QED
  BY <1>1, <1>2, <1>3, Invariance, PTL DEF Spec

-----------------------------------------------------------------------------
(* The refinement of RegisterService.  Beyond IInv it needs to know what   *)
(* is in the socket: a call in its transaction has at most one request     *)
(* there, whole or split into a head that has arrived and a tail behind    *)
(* it, so that on a connection without leftovers the first frame is its    *)
(* own and nothing is left behind it.                                      *)

\* What has arrived in a socket (in) and what has not (out), as far as it is
\* owed to somebody.
Frames(in, out) ==
    /\ \A i, j \in DOMAIN in : in[i].of # Nobody /\ in[j].of # Nobody /\ i < j =>
         in[i].part = "head" /\ in[j].part = "tail"
    /\ \A i, j \in DOMAIN out : out[i].of # Nobody /\ out[j].of # Nobody => i = j
    /\ \A i \in DOMAIN in, j \in DOMAIN out : in[i].of # Nobody /\ out[j].of # Nobody =>
         in[i].part = "head" /\ out[j].part = "tail"
    /\ \A i \in DOMAIN in : in[i].of # Nobody /\ in[i].part = "tail" => i > 1
    /\ \A j \in DOMAIN out : out[j].of # Nobody /\ out[j].part = "tail" => j = 1 /\ in # <<>>

\* A piece that is owed carries the block its call asked for; datagrams are
\* not split.
Sound(q, wants) ==
    \A i \in DOMAIN q :
        /\ q[i].of # Nobody => q[i].block = wants[q[i].of]
        /\ Framing = "rtu" => q[i].part = "whole"

FrameInv == \A s \in Sockets :
    Frames(inbox[s], pending[s]) /\ Sound(inbox[s], want) /\ Sound(pending[s], want)

\* A closed socket holds nothing.
EmptyInv == \A s \in Sockets : s \notin open => pending[s] = <<>> /\ inbox[s] = <<>>

\* A call that is under way has returned nothing yet.
GotInv == \A c \in Clients : pc[c] # "idle" => got[c] = Error

\* Only with a second client can conn be gone before the retry.
RetryInv == \A c \in Clients : pc[c] = "retry" /\ conn = NoSocket => Clients # {c}

RInv == FrameInv /\ EmptyInv /\ GotInv /\ RetryInv

\* A socket that owes nobody anything.
Clean(q) == \A i \in DOMAIN q : q[i].of = Nobody

\* A queue in which no client is owed anything is clean.
LEMMA CleanOwed ==
    ASSUME NEW q \in Seq(Piece), Owed(q) = {}
    PROVE  Clean(q)
BY DEF Clean, Owed

\* Clean queues are framed: nothing in them is owed to anybody.
LEMMA FramesClean ==
    ASSUME NEW in \in Seq(Piece), NEW out \in Seq(Piece), Clean(in), Clean(out)
    PROVE  Frames(in, out)
BY DEF Frames, Clean

\* A request is written to a socket that owes nothing.
LEMMA FramesSend ==
    ASSUME NEW in \in Seq(Piece), NEW out \in Seq(Piece), Clean(in), Clean(out),
           NEW p \in Piece, p.part = "whole"
    PROVE  Frames(in, Append(out, p))
<1> DEFINE r == Append(out, p)
<1>1. DOMAIN r = DOMAIN out \cup {Len(out) + 1} /\ Len(out) + 1 \notin DOMAIN out
  OBVIOUS
<1>2. r[Len(out) + 1] = p /\ \A i \in DOMAIN out : r[i] = out[i]
  OBVIOUS
<1> HIDE DEF r
<1>3. \A i \in DOMAIN r : r[i].of # Nobody => i = Len(out) + 1 /\ r[i].part = "whole"
  BY <1>1, <1>2 DEF Clean
<1>4. Frames(in, r)
  BY <1>3 DEF Frames, Clean
<1>5. QED
  BY <1>4 DEF r

\* The next piece arrives.
LEMMA FramesDeliver ==
    ASSUME NEW in \in Seq(Piece), NEW out \in Seq(Piece), out # <<>>, Frames(in, out)
    PROVE  Frames(Append(in, Head(out)), Tail(out))
<1> DEFINE n == Append(in, Head(out))
           r == Tail(out)
<1>1. DOMAIN n = 1..(Len(in) + 1) /\ DOMAIN in = 1..Len(in) /\ Len(in) \in Nat
  OBVIOUS
<1>0. n # <<>>
  <2>1. Len(n) = Len(in) + 1 /\ Len(<<>>) = 0
    OBVIOUS
  <2> HIDE DEF n
  <2>2. QED
    BY <2>1, <1>1
<1>2. n[Len(in) + 1] = out[1] /\ \A i \in DOMAIN in : n[i] = in[i]
  OBVIOUS
<1>3. \A i \in DOMAIN r : i \in Nat /\ i >= 1 /\ i + 1 \in DOMAIN out /\ r[i] = out[i + 1]
  OBVIOUS
<1>4. 1 \in DOMAIN out /\ DOMAIN out \subseteq Nat /\ (in # <<>> => Len(in) > 0)
  OBVIOUS
<1> HIDE DEF n, r
<1>5. \A i, j \in DOMAIN n : n[i].of # Nobody /\ n[j].of # Nobody /\ i < j =>
         n[i].part = "head" /\ n[j].part = "tail"
  <2> SUFFICES ASSUME NEW i \in DOMAIN n, NEW j \in DOMAIN n,
                      n[i].of # Nobody, n[j].of # Nobody, i < j
               PROVE  n[i].part = "head" /\ n[j].part = "tail"
    OBVIOUS
  <2>1. i \in DOMAIN in /\ n[i] = in[i]
    BY <1>1, <1>2
  <2>2. CASE j \in DOMAIN in
    BY <1>2, <2>1, <2>2 DEF Frames
  <2>3. CASE j \notin DOMAIN in
    <3>1. n[j] = out[1]
      BY <1>1, <1>2, <2>3
    <3>2. QED
      BY <1>4, <2>1, <3>1 DEF Frames
  <2>4. QED
    BY <2>2, <2>3
<1>6. \A i, j \in DOMAIN r : r[i].of # Nobody /\ r[j].of # Nobody => i = j
  <2> SUFFICES ASSUME NEW i \in DOMAIN r, NEW j \in DOMAIN r,
                      r[i].of # Nobody, r[j].of # Nobody
               PROVE  i = j
    OBVIOUS
  <2>1. i + 1 = j + 1
    BY <1>3 DEF Frames
  <2>2. QED
    BY <2>1, <1>3
<1>7. ASSUME NEW i \in DOMAIN n, NEW j \in DOMAIN r, n[i].of # Nobody, r[j].of # Nobody
      PROVE  FALSE
  <2>1. j + 1 \in DOMAIN out /\ j + 1 # 1 /\ out[j + 1].of # Nobody
    BY <1>3, <1>7
  <2>2. out[1].of = Nobody /\ out[j + 1].part # "tail"
    BY <1>4, <2>1 DEF Frames
  <2>3. i \in DOMAIN in /\ in[i].of # Nobody
    BY <1>1, <1>2, <1>7, <2>2
  <2>4. QED
    BY <2>1, <2>2, <2>3 DEF Frames
<1>8. \A i \in DOMAIN n : n[i].of # Nobody /\ n[i].part = "tail" => i > 1
  <2> SUFFICES ASSUME NEW i \in DOMAIN n, n[i].of # Nobody, n[i].part = "tail"
               PROVE  i > 1
    OBVIOUS
  <2>1. CASE i \in DOMAIN in
    BY <1>2, <2>1 DEF Frames
  <2>2. CASE i \notin DOMAIN in
    <3>1. i = Len(in) + 1 /\ n[i] = out[1]
      BY <1>1, <1>2, <2>2
    <3>2. in # <<>>
      BY <1>4, <3>1 DEF Frames
    <3>3. QED
      BY <1>1, <1>4, <3>1, <3>2
  <2>3. QED
    BY <2>1, <2>2
<1>9. ASSUME NEW j \in DOMAIN r, r[j].of # Nobody, r[j].part = "tail"
      PROVE  FALSE
  <2>1. j + 1 \in DOMAIN out /\ j + 1 # 1 /\ out[j + 1] = r[j]
    BY <1>3
  <2>2. QED
    BY <1>9, <2>1 DEF Frames
<1>10. Frames(n, r)
  BY <1>5, <1>6, <1>7, <1>8, <1>9 DEF Frames
<1>11. QED
  BY <1>10 DEF n, r

\* The first part of a whole piece arrives.
LEMMA FramesSplit ==
    ASSUME NEW in \in Seq(Piece), NEW out \in Seq(Piece), out # <<>>, Frames(in, out),
           NEW h \in Piece, NEW t \in Piece,
           Head(out).part = "whole", h.of = Head(out).of, t.of = Head(out).of,
           h.part = "head", t.part = "tail"
    PROVE  Frames(Append(in, h), <<t>> \o Tail(out))
<1> DEFINE n == Append(in, h)
           r == <<t>> \o Tail(out)
<1>1. DOMAIN n = 1..(Len(in) + 1) /\ DOMAIN in = 1..Len(in) /\ Len(in) \in Nat
  OBVIOUS
<1>0. n # <<>>
  <2>1. Len(n) = Len(in) + 1 /\ Len(<<>>) = 0
    OBVIOUS
  <2> HIDE DEF n
  <2>2. QED
    BY <2>1, <1>1
<1>2. n[Len(in) + 1] = h /\ \A i \in DOMAIN in : n[i] = in[i]
  OBVIOUS
<1>3. DOMAIN r = DOMAIN out /\ \A i \in DOMAIN out : r[i] = IF i = 1 THEN t ELSE out[i]
  OBVIOUS
<1>4. 1 \in DOMAIN out /\ out[1] = Head(out)
  OBVIOUS
<1> HIDE DEF n, r
<1>5. CASE Head(out).of = Nobody
  <2>1. \A i \in DOMAIN n : n[i].of # Nobody => i \in DOMAIN in /\ n[i] = in[i]
    BY <1>1, <1>2, <1>5
  <2>2. \A i \in DOMAIN r : r[i].of # Nobody => i \in DOMAIN out /\ i # 1 /\ r[i] = out[i]
    BY <1>3, <1>5
  <2>3. \A i \in DOMAIN r : r[i].of # Nobody => r[i].part # "tail"
    BY <2>2 DEF Frames
  <2>4. \A i, j \in DOMAIN n : n[i].of # Nobody /\ n[j].of # Nobody /\ i < j =>
           n[i].part = "head" /\ n[j].part = "tail"
    BY <2>1 DEF Frames
  <2>5. \A i, j \in DOMAIN r : r[i].of # Nobody /\ r[j].of # Nobody => i = j
    BY <2>2 DEF Frames
  <2>6. \A i \in DOMAIN n, j \in DOMAIN r : n[i].of # Nobody /\ r[j].of # Nobody =>
           n[i].part = "head" /\ r[j].part = "tail"
    BY <2>1, <2>2 DEF Frames
  <2>7. \A i \in DOMAIN n : n[i].of # Nobody /\ n[i].part = "tail" => i > 1
    BY <2>1 DEF Frames
  <2>8. Frames(n, r)
    BY <2>3, <2>4, <2>5, <2>6, <2>7 DEF Frames
  <2>9. QED
    BY <2>8 DEF n, r
<1>6. CASE Head(out).of # Nobody
  <2>1. \A i \in DOMAIN in : in[i].of = Nobody
    BY <1>4, <1>6 DEF Frames
  <2>2. \A i \in DOMAIN n : n[i].of # Nobody => i = Len(in) + 1 /\ n[i].part = "head"
    BY <1>1, <1>2, <2>1
  <2>3. \A i \in DOMAIN r : r[i].of # Nobody => i = 1 /\ r[i].part = "tail"
    BY <1>3, <1>4, <1>6 DEF Frames
  <2>4. Frames(n, r)
    BY <1>0, <1>1, <2>2, <2>3 DEF Frames
  <2>5. QED
    BY <2>4 DEF n, r
<1>7. QED
  BY <1>5, <1>6

\* A whole piece is lost.
LEMMA FramesLose ==
    ASSUME NEW in \in Seq(Piece), NEW out \in Seq(Piece), out # <<>>, Frames(in, out),
           Head(out).part = "whole"
    PROVE  Frames(in, Tail(out))
<1> DEFINE r == Tail(out)
<1>1. \A i \in DOMAIN r : i \in Nat /\ i >= 1 /\ i + 1 \in DOMAIN out /\ r[i] = out[i + 1]
  OBVIOUS
<1> HIDE DEF r
<1>2. \A i, j \in DOMAIN r : r[i].of # Nobody /\ r[j].of # Nobody => i = j
  <2> SUFFICES ASSUME NEW i \in DOMAIN r, NEW j \in DOMAIN r,
                      r[i].of # Nobody, r[j].of # Nobody
               PROVE  i = j
    OBVIOUS
  <2>1. i + 1 = j + 1
    BY <1>1 DEF Frames
  <2>2. QED
    BY <2>1, <1>1
<1>3. \A j \in DOMAIN r : r[j].of # Nobody => r[j].part # "tail"
  BY <1>1 DEF Frames
<1>4. \A i \in DOMAIN in, j \in DOMAIN r : in[i].of # Nobody /\ r[j].of # Nobody =>
         in[i].part = "head" /\ r[j].part = "tail"
  BY <1>1 DEF Frames
<1>5. Frames(in, r)
  BY <1>2, <1>3, <1>4 DEF Frames
<1>6. QED
  BY <1>5 DEF r

\* A queue stays sound when a piece joins it, ...
LEMMA SoundAppend ==
    ASSUME NEW q \in Seq(Piece), NEW p \in Piece, NEW wants, Sound(q, wants), Sound(<<p>>, wants)
    PROVE  Sound(Append(q, p), wants)
<1>1. \A i \in DOMAIN Append(q, p) : (i \in DOMAIN q /\ Append(q, p)[i] = q[i]) \/ Append(q, p)[i] = p
  OBVIOUS
<1>2. 1 \in DOMAIN <<p>> /\ <<p>>[1] = p
  OBVIOUS
<1>3. QED
  BY <1>1, <1>2 DEF Sound

\* ... when its first piece leaves it, ...
LEMMA SoundTail ==
    ASSUME NEW q \in Seq(Piece), NEW wants, Sound(q, wants), q # <<>>
    PROVE  Sound(Tail(q), wants)
<1>1. \A i \in DOMAIN Tail(q) : i + 1 \in DOMAIN q /\ Tail(q)[i] = q[i + 1]
  OBVIOUS
<1>2. QED
  BY <1>1 DEF Sound

\* ... when its first piece is replaced, ...
LEMMA SoundSplit ==
    ASSUME NEW q \in Seq(Piece), NEW p \in Piece, NEW wants, Sound(q, wants), Sound(<<p>>, wants),
           q # <<>>
    PROVE  Sound(<<p>> \o Tail(q), wants)
<1>1. /\ DOMAIN (<<p>> \o Tail(q)) = DOMAIN q
      /\ \A i \in DOMAIN q : (<<p>> \o Tail(q))[i] = IF i = 1 THEN p ELSE q[i]
  OBVIOUS
<1>2. 1 \in DOMAIN <<p>> /\ <<p>>[1] = p
  OBVIOUS
<1>3. QED
  BY <1>1, <1>2 DEF Sound

\* ... when a client gives up its answer, ...
LEMMA SoundForget ==
    ASSUME NEW q \in Seq(Piece), NEW c \in Clients, NEW wants, Sound(q, wants)
    PROVE  Sound(Forget(q, c), wants)
<1>1. DOMAIN Forget(q, c) = DOMAIN q
  BY DEF Forget
<1>2. ASSUME NEW i \in DOMAIN q
      PROVE  /\ Forget(q, c)[i].of # Nobody => Forget(q, c)[i] = q[i]
             /\ Forget(q, c)[i].part = q[i].part
  <2>1. q[i] \in Piece
    OBVIOUS
  <2>2. [q[i] EXCEPT !.of = Nobody].of = Nobody /\ [q[i] EXCEPT !.of = Nobody].part = q[i].part
    BY <2>1 DEF Piece
  <2>3. QED
    BY <2>1, <2>2 DEF Forget
<1>3. QED
  BY <1>1, <1>2 DEF Sound

\* ... and when a client that it owes nothing asks for something else.
LEMMA SoundOther ==
    ASSUME NEW q \in Seq(Piece), NEW c \in Clients, c \notin Owed(q), NEW b,
           NEW wants \in [Clients -> Blocks \cup {NoBlock}], Sound(q, wants)
    PROVE  Sound(q, [wants EXCEPT ![c] = b])
<1>1. ASSUME NEW i \in DOMAIN q, q[i].of # Nobody
      PROVE  [wants EXCEPT ![c] = b][q[i].of] = wants[q[i].of]
  <2>1. q[i] \in Piece /\ q[i].of # c
    BY <1>1 DEF Owed
  <2>2. q[i].of \in Clients
    BY <1>1, <2>1 DEF Piece
  <2>3. QED
    BY <2>1, <2>2
<1>2. QED
  BY <1>1 DEF Sound

\* Closing conn leaves nothing in any socket.
LEMMA ShutEmpty ==
    ASSUME IInv, EmptyInv, Shut
    PROVE  \A s \in Sockets : pending'[s] = <<>> /\ inbox'[s] = <<>>
BY DEF IInv, NoLeak, EmptyInv, Shut

\* Initially the sockets are closed and empty.
LEMMA RInitInv == Init => RInv
BY DEF Init, RInv, FrameInv, EmptyInv, GotInv, RetryInv, Frames, Sound

\* Every step keeps what the refinement needs to know.
LEMMA RNextInv == IInv /\ IInv' /\ RInv /\ [Next]_vars => RInv'
<1> SUFFICES ASSUME IInv, IInv', RInv, [Next]_vars PROVE RInv'
  OBVIOUS
<1> USE NilAssumption DEF RInv
<1>1. ASSUME NEW c \in Clients, CallConnect(c) \/ CallClose(c) \/ \E b \in Blocks : CallReadRegisters(c, b)
      PROVE  RInv'
  <2>1. /\ pc[c] = "idle" /\ UNCHANGED <<mu, conn, open, peer, pending, inbox>>
        /\ got' = [got EXCEPT ![c] = Error] /\ \E b : want' = [want EXCEPT ![c] = b]
        /\ \E l \in {"preclose", "close", "read"} : pc' = [pc EXCEPT ![c] = l]
    BY <1>1 DEF CallConnect, CallClose, CallReadRegisters, Goto, socketVars
  <2>2. FrameInv'
    <3>1. ASSUME NEW s \in Sockets
          PROVE  c \notin Owed(pending[s]) /\ c \notin Owed(inbox[s])
      BY <2>1 DEF IInv, OwedInv
    <3>2. PICK b : want' = [want EXCEPT ![c] = b]
      BY <2>1
    <3>3. ASSUME NEW s \in Sockets
          PROVE  Sound(pending[s], want') /\ Sound(inbox[s], want')
      <4>1. /\ pending[s] \in Seq(Piece) /\ inbox[s] \in Seq(Piece)
            /\ Sound(pending[s], want) /\ Sound(inbox[s], want)
            /\ want \in [Clients -> Blocks \cup {NoBlock}]
        BY DEF IInv, TypeOK, FrameInv
      <4>2. QED
        BY <3>1, <3>2, <4>1, SoundOther
    <3>4. QED
      BY <2>1, <3>3 DEF FrameInv
  <2>3. EmptyInv' /\ GotInv' /\ RetryInv'
    BY <2>1 DEF EmptyInv, GotInv, RetryInv, IInv, TypeOK
  <2>4. QED
    BY <2>2, <2>3
<1>2. ASSUME NEW c \in Clients, Close(c) \/ ConnectLock(c) \/ FailClosed(c)
      PROVE  RInv'
  <2>1. \A s \in Sockets : pending'[s] = <<>> /\ inbox'[s] = <<>>
    BY <1>2, ShutEmpty DEF Close, ConnectLock, FailClosed
  <2>2. FrameInv' /\ EmptyInv'
    BY <2>1 DEF FrameInv, EmptyInv, Frames, Sound
  <2>3. GotInv'
    BY <1>2 DEF GotInv, Close, ConnectLock, FailClosed, Goto, IInv, TypeOK
  <2>4. RetryInv'
    <3>1. pc' \in [Clients -> {"idle", "panic"} \cup Waiting \cup Critical] /\ pc'[c] # "retry"
      BY <1>2 DEF Close, ConnectLock, FailClosed, Goto, IInv, TypeOK
    <3>2. \A d \in Clients : d # c => Clients # {d}
      OBVIOUS
    <3>3. QED
      BY <3>1, <3>2 DEF RetryInv
  <2>5. QED
    BY <2>2, <2>3, <2>4
<1>3. ASSUME NEW c \in Clients, NEW s \in Sockets, DialOk(c, s)
      PROVE  RInv'
  <2>1. FrameInv' /\ EmptyInv'
    BY <1>3 DEF DialOk, FrameInv, EmptyInv
  <2>2. GotInv' /\ RetryInv'
    BY <1>3 DEF DialOk, GotInv, RetryInv, Goto, IInv, TypeOK
  <2>3. QED
    BY <2>1, <2>2
<1>4. ASSUME NEW c \in Clients, DialFail(c) \/ ReadLock(c) \/ RetryLock(c) \/ Recover(c)
      PROVE  RInv'
  <2>1. FrameInv' /\ EmptyInv'
    BY <1>4 DEF DialFail, ReadLock, RetryLock, Recover, FrameInv, EmptyInv, socketVars
  <2>2. GotInv' /\ RetryInv'
    BY <1>4 DEF DialFail, ReadLock, RetryLock, Recover, GotInv, RetryInv, Goto, IInv, TypeOK
  <2>3. QED
    BY <2>1, <2>2
<1>5. ASSUME NEW c \in Clients, Send(c)
      PROVE  RInv'
  <2> DEFINE p == [block |-> want[c], of |-> c, part |-> "whole"]
  <2>1. mu = c /\ conn \in Sockets /\ conn \in open /\ p \in Piece
    BY <1>5 DEF IInv, TypeOK, LockInv, WantInv, ConnInv, Send, Piece
  <2>2. Clean(inbox[conn]) /\ Clean(pending[conn])
    <3>1. \A d \in Clients : pc[d] \notin AwaitingAnswer
      BY <1>5, <2>1 DEF IInv, LockInv, Send
    <3>2. Owed(inbox[conn]) = {} /\ Owed(pending[conn]) = {}
      BY <2>1, <3>1 DEF IInv, OwedInv
    <3>3. QED
      BY <2>1, <3>2, CleanOwed DEF IInv, TypeOK
  <2>3. FrameInv'
    <3>1. Frames(inbox[conn], Append(pending[conn], p))
      BY <2>1, <2>2, FramesSend DEF IInv, TypeOK
    <3>2. Sound(Append(pending[conn], p), want)
      <4>1. Sound(<<p>>, want)
        BY DEF Sound
      <4>2. QED
        BY <2>1, <4>1, SoundAppend DEF FrameInv, IInv, TypeOK
    <3>3. QED
      BY <1>5, <2>1, <3>1, <3>2 DEF Send, FrameInv, IInv, TypeOK
  <2>4. EmptyInv' /\ GotInv' /\ RetryInv'
    BY <1>5, <2>1 DEF Send, EmptyInv, GotInv, RetryInv, Goto, IInv, TypeOK
  <2>5. QED
    BY <2>3, <2>4
<1>6. ASSUME NEW c \in Clients, Recv(c) \/ FailOpen(c)
      PROVE  RInv'
  <2>1. mu = c /\ conn \in Sockets /\ conn \in open
    BY <1>6 DEF IInv, TypeOK, LockInv, ConnInv, Recv, FailOpen
  <2>2. \A d \in Clients : pc'[d] \notin AwaitingAnswer
    BY <1>6, <2>1 DEF IInv, TypeOK, LockInv, Recv, FailOpen, Goto
  <2>3. \A s \in Sockets : Owed(pending'[s]) = {} /\ Owed(inbox'[s]) = {}
    BY <2>2 DEF IInv, OwedInv
  <2>4. \A s \in Sockets : Frames(inbox'[s], pending'[s])
    BY <2>3, CleanOwed, FramesClean DEF IInv, TypeOK
  <2>5. /\ pending' = [pending EXCEPT ![conn] = Forget(@, c)]
        /\ \E q \in Seq(Piece) : Sound(q, want) /\ inbox' = [inbox EXCEPT ![conn] = Forget(q, c)]
    <3>1. inbox[conn] \in Seq(Piece) /\ Sound(inbox[conn], want)
      BY <2>1 DEF FrameInv, IInv, TypeOK
    <3>2. CASE Recv(c)
      <4>1. Left \in Seq(Piece) /\ Sound(Left, want)
        BY <3>1, <3>2, SoundTail, OwedTail DEF Recv, Left, Sound
      <4>2. QED
        BY <3>2, <4>1 DEF Recv
    <3>3. CASE FailOpen(c)
      BY <3>1, <3>3 DEF FailOpen
    <3>4. QED
      BY <1>6, <3>2, <3>3
  <2>6. PICK q \in Seq(Piece) : Sound(q, want) /\ inbox' = [inbox EXCEPT ![conn] = Forget(q, c)]
    BY <2>5
  <2>7. Sound(Forget(q, c), want) /\ Sound(Forget(pending[conn], c), want)
    BY <2>1, <2>6, SoundForget DEF FrameInv, IInv, TypeOK
  <2>8. UNCHANGED <<conn, open, want>> /\ pc' = [pc EXCEPT ![c] = "idle"]
        /\ \A d \in Clients : d # c => got'[d] = got[d]
    BY <1>6 DEF Recv, FailOpen, Goto, IInv, TypeOK
  <2>9. FrameInv'
    BY <2>1, <2>4, <2>5, <2>6, <2>7, <2>8 DEF FrameInv, IInv, TypeOK
  <2>10. EmptyInv' /\ GotInv' /\ RetryInv'
    BY <2>1, <2>5, <2>6, <2>8 DEF EmptyInv, GotInv, RetryInv, IInv, TypeOK
  <2>11. QED
    BY <2>9, <2>10
<1>7. ASSUME NEW s \in Sockets, Network(s)
      PROVE  RInv'
  <2> DEFINE q == pending[s]
             h == Head(pending[s])
  <2>1. /\ q \in Seq(Piece) /\ inbox[s] \in Seq(Piece) /\ Frames(inbox[s], q)
        /\ Sound(q, want) /\ Sound(inbox[s], want)
    BY DEF IInv, TypeOK, FrameInv
  <2>2. /\ Frames(inbox'[s], pending'[s]) /\ Sound(inbox'[s], want) /\ Sound(pending'[s], want)
        /\ pending[s] # <<>> \/ s \in open
        /\ \A t \in Sockets : t # s => inbox'[t] = inbox[t] /\ pending'[t] = pending[t]
    <3>1. CASE Deliver(s)
      <4>1. h \in Piece /\ Sound(<<h>>, want)
        <5>1. h \in Piece /\ h = q[1] /\ 1 \in DOMAIN q
          BY <2>1, <3>1 DEF Deliver
        <5>2. \A i \in DOMAIN <<h>> : <<h>>[i] = h
          OBVIOUS
        <5>3. QED
          BY <2>1, <5>1, <5>2 DEF Sound
      <4>2. /\ Frames(Append(inbox[s], h), Tail(q)) /\ Sound(Append(inbox[s], h), want)
            /\ Sound(Tail(q), want)
        BY <2>1, <3>1, <4>1, FramesDeliver, SoundAppend, SoundTail DEF Deliver
      <4>3. QED
        BY <3>1, <4>2 DEF Deliver, IInv, TypeOK
    <3>2. CASE DeliverHead(s)
      <4> DEFINE f == [h EXCEPT !.part = "head"]
                 t == [h EXCEPT !.part = "tail"]
      <4>1. h \in Piece /\ h = q[1] /\ 1 \in DOMAIN q /\ q # <<>> /\ h.part = "whole" /\ Framing = "tcp"
        BY <2>1, <3>2 DEF DeliverHead
      <4>2. /\ f \in Piece /\ f.of = h.of /\ f.block = h.block /\ f.part = "head"
            /\ t \in Piece /\ t.of = h.of /\ t.block = h.block /\ t.part = "tail"
        BY <4>1 DEF Piece
      <4>3. /\ inbox' = [inbox EXCEPT ![s] = Append(@, f)]
            /\ pending' = [pending EXCEPT ![s] = <<t>> \o Tail(@)]
        BY <3>2 DEF DeliverHead
      <4> HIDE DEF f, t
      <4>4. Sound(<<f>>, want) /\ Sound(<<t>>, want)
        <5>1. h.of # Nobody => h.block = want[h.of]
          BY <2>1, <4>1 DEF Sound
        <5>2. \A i \in DOMAIN <<f>> : <<f>>[i] = f
          OBVIOUS
        <5>3. \A i \in DOMAIN <<t>> : <<t>>[i] = t
          OBVIOUS
        <5>4. QED
          BY <4>1, <4>2, <5>1, <5>2, <5>3 DEF Sound
      <4>5. Frames(Append(inbox[s], f), <<t>> \o Tail(q))
        BY <2>1, <4>1, <4>2, FramesSplit
      <4>6. Sound(Append(inbox[s], f), want) /\ Sound(<<t>> \o Tail(q), want)
        BY <2>1, <4>1, <4>2, <4>4, SoundAppend, SoundSplit
      <4>7. QED
        BY <4>1, <4>3, <4>5, <4>6 DEF IInv, TypeOK
    <3>3. CASE Lose(s)
      <4>1. Frames(inbox[s], Tail(q)) /\ Sound(Tail(q), want)
        BY <2>1, <3>3, FramesLose, SoundTail DEF Lose
      <4>2. QED
        BY <2>1, <3>3, <4>1 DEF Lose, IInv, TypeOK
    <3>4. CASE Drop(s)
      BY <2>1, <3>4 DEF Drop, IInv, TypeOK, Frames, Sound
    <3>5. QED
      BY <1>7, <3>1, <3>2, <3>3, <3>4 DEF Network
  <2>3. FrameInv' /\ EmptyInv'
    BY <1>7, <2>2 DEF FrameInv, EmptyInv, Network, Deliver, DeliverHead, Lose, Drop
  <2>4. GotInv' /\ RetryInv'
    BY <1>7 DEF GotInv, RetryInv, Network, Deliver, DeliverHead, Lose, Drop
  <2>5. QED
    BY <2>3, <2>4
<1>8. CASE UNCHANGED vars
  BY <1>8 DEF vars, socketVars, FrameInv, EmptyInv, GotInv, RetryInv
<1>9. QED
  BY <1>1, <1>2, <1>3, <1>4, <1>5, <1>6, <1>7, <1>8 DEF Next, Call, TakeLock, Step, DoRead

\* Somewhere in a queue there is a piece that nobody waits for.
Loose(q) == \E i \in DOMAIN q : q[i].of = Nobody

\* What appending, taking and splitting a piece do to Loose.
LEMMA LooseQueues ==
    ASSUME NEW q \in Seq(Piece), NEW p \in Piece
    PROVE  /\ Loose(Append(q, p)) <=> Loose(q) \/ p.of = Nobody
           /\ q # <<>> => (Loose(q) <=> Loose(Tail(q)) \/ Head(q).of = Nobody)
           /\ q # <<>> /\ p.of = Head(q).of => (Loose(<<p>> \o Tail(q)) <=> Loose(q))
<1>1. Loose(Append(q, p)) <=> Loose(q) \/ p.of = Nobody
  <2>1. DOMAIN Append(q, p) = DOMAIN q \cup {Len(q) + 1}
    OBVIOUS
  <2>2. Append(q, p)[Len(q) + 1] = p /\ \A i \in DOMAIN q : Append(q, p)[i] = q[i]
    OBVIOUS
  <2>3. QED
    BY <2>1, <2>2 DEF Loose
<1>2. ASSUME q # <<>> PROVE Loose(q) <=> Loose(Tail(q)) \/ Head(q).of = Nobody
  <2>1. /\ \A i \in DOMAIN Tail(q) : i + 1 \in DOMAIN q /\ Tail(q)[i] = q[i + 1]
        /\ \A i \in DOMAIN q : i = 1 \/ (i - 1 \in DOMAIN Tail(q) /\ Tail(q)[i - 1] = q[i])
    BY <1>2
  <2>2. Head(q) = q[1] /\ 1 \in DOMAIN q
    BY <1>2
  <2>3. ASSUME NEW i \in DOMAIN q, q[i].of = Nobody PROVE Loose(Tail(q)) \/ Head(q).of = Nobody
    <3>1. CASE i = 1
      BY <2>2, <2>3, <3>1
    <3>2. CASE i # 1
      <4>1. i - 1 \in DOMAIN Tail(q) /\ Tail(q)[i - 1].of = Nobody
        BY <2>1, <2>3, <3>2
      <4>2. QED
        BY <4>1 DEF Loose
    <3>3. QED
      BY <3>1, <3>2
  <2>4. ASSUME NEW i \in DOMAIN Tail(q), Tail(q)[i].of = Nobody PROVE Loose(q)
    <3>1. i + 1 \in DOMAIN q /\ q[i + 1].of = Nobody
      BY <2>1, <2>4
    <3>2. QED
      BY <3>1 DEF Loose
  <2>5. QED
    BY <2>2, <2>3, <2>4 DEF Loose
<1>3. ASSUME q # <<>>, p.of = Head(q).of PROVE Loose(<<p>> \o Tail(q)) <=> Loose(q)
  <2>1. /\ DOMAIN (<<p>> \o Tail(q)) = DOMAIN q
        /\ \A i \in DOMAIN q : (<<p>> \o Tail(q))[i] = IF i = 1 THEN p ELSE q[i]
    BY <1>3
  <2>2. Head(q) = q[1]
    BY <1>3
  <2>3. QED
    BY <1>3, <2>1, <2>2 DEF Loose
<1>4. QED
  BY <1>1, <1>2, <1>3

\* The refinement mapping, as Service in Transport has it.
CallNow == [c \in Clients |-> IF pc[c] \in {"idle", "panic"} THEN pc[c] ELSE "calling"]
ServingNow == IF mu # Nobody /\ pc[mu] \in Transaction THEN mu ELSE Nobody
SoiledNow == conn # NoSocket /\ \E p \in Pipe(conn) : p.of = Nobody

\* The service's soiled is a loose piece on the connection, pending or arrived.
LEMMA SoiledLoose ==
    SoiledNow <=> conn # NoSocket /\ (Loose(pending[conn]) \/ Loose(inbox[conn]))
BY DEF SoiledNow, Pipe, Loose

\* Initial states are initial states of the service.
LEMMA ServiceInit == Init => Service!Init
BY DEF Init, Service!Init, Error, Service!Error

\* Every step is a step of the service, or changes nothing the callers see.
LEMMA ServiceNext == IInv /\ IInv' /\ RInv /\ RInv' /\ [Next]_vars => [Service!Next]_(Service!vars)
<1> SUFFICES ASSUME IInv, IInv', RInv, RInv', [Next]_vars PROVE [Service!Next]_(Service!vars)
  OBVIOUS
<1> USE NilAssumption
<1>0. pc \in [Clients -> {"idle", "panic"} \cup Waiting \cup Critical] /\ mu \in Holder
      /\ got \in [Clients -> Outcome] /\ want \in [Clients -> Blocks \cup {NoBlock}]
  BY DEF IInv, TypeOK
<1>1. ASSUME NEW c \in Clients, CallConnect(c) \/ CallClose(c)
      PROVE  Service!Request(c, NoBlock)
  <2>1. CallNow[c] = "idle" /\ CallNow' = [CallNow EXCEPT ![c] = "calling"] /\ c \in Owners
    BY <1>0, <1>1 DEF CallConnect, CallClose, Goto, CallNow
  <2>2. got' = [got EXCEPT ![c] = Service!Error] /\ want' = [want EXCEPT ![c] = NoBlock]
    BY <1>1 DEF CallConnect, CallClose, Error, Service!Error
  <2>3. ServingNow' = ServingNow
    BY <1>0, <1>1 DEF CallConnect, CallClose, Goto, ServingNow
  <2>4. SoiledNow' = SoiledNow
    BY <1>1 DEF CallConnect, CallClose, SoiledNow, Pipe, socketVars
  <2>5. QED
    BY <2>1, <2>2, <2>3, <2>4
    DEF Service!Request, Service!Ends, Service!Returns, CallNow, ServingNow, SoiledNow
<1>2. ASSUME NEW c \in Clients, NEW b \in Blocks, CallReadRegisters(c, b)
      PROVE  Service!Request(c, b)
  <2>1. CallNow[c] = "idle" /\ CallNow' = [CallNow EXCEPT ![c] = "calling"] /\ b # NoBlock
    BY <1>0, <1>2 DEF CallReadRegisters, Goto, CallNow
  <2>2. got' = [got EXCEPT ![c] = Service!Error] /\ want' = [want EXCEPT ![c] = b]
    BY <1>2 DEF CallReadRegisters, Error, Service!Error
  <2>3. ServingNow' = ServingNow
    BY <1>0, <1>2 DEF CallReadRegisters, Goto, ServingNow
  <2>4. SoiledNow' = SoiledNow
    BY <1>2 DEF CallReadRegisters, SoiledNow, Pipe, socketVars
  <2>5. QED
    BY <2>1, <2>2, <2>3, <2>4
    DEF Service!Request, Service!Ends, Service!Returns, CallNow, ServingNow, SoiledNow
<1>3. ASSUME NEW c \in Clients, Close(c) \/ ConnectLock(c)
      PROVE  Service!Renew(c)
  <2>1. CallNow[c] = "calling" /\ CallNow' \in {CallNow, [CallNow EXCEPT ![c] = "idle"]}
    <3>1. CASE Close(c) /\ pc[c] = "close"
      BY <1>0, <3>1 DEF Close, Goto, CallNow
    <3>2. CASE (Close(c) /\ pc[c] # "close") \/ ConnectLock(c)
      BY <1>0, <3>2 DEF Close, ConnectLock, Goto, CallNow
    <3>3. QED
      BY <1>3, <3>1, <3>2
  <2>2. ServingNow = Nobody /\ ServingNow' = Nobody
    BY <1>0, <1>3 DEF Close, ConnectLock, Goto, ServingNow
  <2>3. SoiledNow' = FALSE
    BY <1>3 DEF Close, ConnectLock, Shut, SoiledNow
  <2>4. want' = want /\ got' = got
    BY <1>3 DEF Close, ConnectLock
  <2>5. QED
    BY <2>1, <2>2, <2>3, <2>4 DEF Service!Renew, CallNow, ServingNow, SoiledNow
<1>4. ASSUME NEW c \in Clients, NEW s \in Sockets, DialOk(c, s)
      PROVE  Service!Renew(c)
  <2>1. CallNow[c] = "calling" /\ CallNow' \in {CallNow, [CallNow EXCEPT ![c] = "idle"]}
    <3>1. CASE want[c] = NoBlock
      BY <1>0, <1>4, <3>1 DEF DialOk, Goto, CallNow
    <3>2. CASE want[c] # NoBlock
      BY <1>0, <1>4, <3>2 DEF DialOk, Goto, CallNow
    <3>3. QED
      BY <3>1, <3>2
  <2>2. ServingNow = Nobody /\ ServingNow' = Nobody
    BY <1>0, <1>4 DEF DialOk, ServingNow, IInv, LockInv
  <2>3. SoiledNow' = FALSE
    BY <1>4 DEF DialOk, SoiledNow, Pipe, RInv, EmptyInv
  <2>4. want' = want /\ got' = got
    BY <1>4 DEF DialOk
  <2>5. QED
    BY <2>1, <2>2, <2>3, <2>4 DEF Service!Renew, CallNow, ServingNow, SoiledNow
<1>5. ASSUME NEW c \in Clients, DialFail(c)
      PROVE  Service!Fail(c)
  <2>1. CallNow[c] = "calling" /\ CallNow' = [CallNow EXCEPT ![c] = "idle"]
    BY <1>0, <1>5 DEF DialFail, Goto, CallNow
  <2>2. ServingNow = Nobody /\ ServingNow' = Nobody /\ c # Nobody
    BY <1>0, <1>5 DEF DialFail, ServingNow, IInv, LockInv
  <2>3. SoiledNow' = SoiledNow
    BY <1>5 DEF DialFail, SoiledNow, Pipe, socketVars
  <2>4. want' = want /\ got' = [got EXCEPT ![c] = Service!Error]
    BY <1>5 DEF DialFail, Error, Service!Error
  <2>5. QED
    BY <2>1, <2>2, <2>3, <2>4
    DEF Service!Fail, Service!Ends, Service!Returns, CallNow, ServingNow, SoiledNow
<1>6. ASSUME NEW c \in Clients, ReadLock(c) \/ RetryLock(c), conn # NoSocket
      PROVE  Service!Begin(c)
  <2>1. CallNow[c] = "calling" /\ CallNow' = CallNow
    BY <1>0, <1>6 DEF ReadLock, RetryLock, Goto, CallNow
  <2>2. ServingNow = Nobody /\ ServingNow' = c /\ want[c] \in Blocks
    BY <1>0, <1>6 DEF ReadLock, RetryLock, Goto, ServingNow, IInv, WantInv
  <2>3. SoiledNow' = SoiledNow
    BY <1>6 DEF ReadLock, RetryLock, SoiledNow, Pipe, socketVars
  <2>4. want' = want /\ got' = got
    BY <1>6 DEF ReadLock, RetryLock
  <2>5. QED
    BY <2>1, <2>2, <2>3, <2>4 DEF Service!Begin, CallNow, ServingNow, SoiledNow
<1>7. ASSUME NEW c \in Clients, ReadLock(c), conn = NoSocket
      PROVE  UNCHANGED Service!vars
  <2>1. CallNow' = CallNow
    BY <1>0, <1>7 DEF ReadLock, Goto, CallNow
  <2>2. ServingNow' = ServingNow
    BY <1>0, <1>7 DEF ReadLock, Goto, ServingNow
  <2>3. SoiledNow' = SoiledNow
    BY <1>7 DEF ReadLock, SoiledNow, Pipe, socketVars
  <2>4. want' = want /\ got' = got
    BY <1>7 DEF ReadLock
  <2>5. QED
    BY <2>1, <2>2, <2>3, <2>4 DEF Service!vars, CallNow, ServingNow, SoiledNow
<1>8. ASSUME NEW c \in Clients, RetryLock(c), conn = NoSocket
      PROVE  Service!Panic(c)
  <2>1. CallNow[c] = "calling" /\ CallNow' = [CallNow EXCEPT ![c] = "panic"]
    BY <1>0, <1>8 DEF RetryLock, Goto, CallNow
  <2>2. ServingNow = Nobody /\ ServingNow' = Nobody /\ want[c] \in Blocks /\ Clients # {c}
    BY <1>0, <1>8 DEF RetryLock, Goto, ServingNow, IInv, WantInv, RInv, RetryInv
  <2>3. SoiledNow' = SoiledNow
    BY <1>8 DEF RetryLock, SoiledNow, Pipe, socketVars
  <2>4. want' = want /\ got' = got
    BY <1>8 DEF RetryLock
  <2>5. QED
    BY <2>1, <2>2, <2>3, <2>4 DEF Service!Panic, Service!Ends, CallNow, ServingNow, SoiledNow
<1>9. ASSUME NEW c \in Clients, Send(c)
      PROVE  UNCHANGED Service!vars
  <2>1. mu = c /\ conn \in Sockets /\ pending[conn] \in Seq(Piece) /\ want[c] \in Blocks
    BY <1>9 DEF IInv, TypeOK, LockInv, WantInv, ConnInv, Send
  <2>2. CallNow' = CallNow
    BY <1>0, <1>9 DEF Send, Goto, CallNow
  <2>3. ServingNow' = ServingNow
    BY <1>0, <1>9, <2>1 DEF Send, Goto, ServingNow
  <2>4. SoiledNow' = SoiledNow
    <3> DEFINE p == [block |-> want[c], of |-> c, part |-> "whole"]
    <3>1. p \in Piece /\ p.of # Nobody
      BY <2>1 DEF Piece
    <3> HIDE DEF p
    <3>2. Loose(Append(pending[conn], p)) <=> Loose(pending[conn])
      BY <2>1, <3>1, LooseQueues
    <3>3. /\ conn' = conn /\ inbox' = inbox
          /\ pending' \in {pending, [pending EXCEPT ![conn] = Append(@, p)]}
      BY <1>9 DEF Send, p
    <3>4. SoiledNow' <=> conn' # NoSocket /\ (Loose(pending'[conn']) \/ Loose(inbox'[conn']))
      BY DEF SoiledNow, Pipe, Loose
    <3>5. pending'[conn] \in {pending[conn], Append(pending[conn], p)}
      BY <2>1, <3>3 DEF IInv, TypeOK
    <3>6. SoiledNow' <=> SoiledNow
      BY <3>2, <3>3, <3>4, <3>5, SoiledLoose
    <3>7. QED
      BY <3>6 DEF SoiledNow
  <2>5. want' = want /\ got' = got
    BY <1>9 DEF Send
  <2>6. QED
    BY <2>2, <2>3, <2>4, <2>5 DEF Service!vars, CallNow, ServingNow, SoiledNow
<1>10. ASSUME NEW c \in Clients, Recv(c)
       PROVE  Service!Answer(c)
  <2> DEFINE in == inbox[conn]
             out == pending[conn]
             h == Head(in)
  <2>1. /\ mu = c /\ conn \in Sockets /\ conn # NoSocket /\ want[c] \in Blocks
        /\ in \in Seq(Piece) /\ in # <<>> /\ out \in Seq(Piece)
        /\ Frames(in, out) /\ Sound(in, want)
    BY <1>10 DEF IInv, TypeOK, LockInv, WantInv, ConnInv, Recv, RInv, FrameInv
  <2>2. /\ h \in Piece /\ h = in[1] /\ 1 \in DOMAIN in
        /\ DOMAIN in = 1..Len(in) /\ Len(in) \in Nat \ {0}
        /\ Len(in) = 1 => Tail(in) = <<>>
        /\ DOMAIN out = {} => out = <<>>
    <3>1. \A q \in Seq(Piece) : q # <<>> =>
             /\ Head(q) \in Piece /\ Head(q) = q[1] /\ 1 \in DOMAIN q
             /\ DOMAIN q = 1..Len(q) /\ Len(q) \in Nat \ {0}
      OBVIOUS
    <3>2. ASSUME NEW q \in Seq(Piece), q # <<>>, Len(q) = 1
          PROVE  Tail(q) = <<>>
      <4>1. Tail(q) \in Seq(Piece) /\ Len(Tail(q)) = 0
        BY <3>2
      <4>2. \A r \in Seq(Piece) : Len(r) = 0 => r = <<>>
        OBVIOUS
      <4>3. QED
        BY <4>1, <4>2
    <3>3. \A q \in Seq(Piece) : DOMAIN q = {} => q = <<>>
      OBVIOUS
    <3>4. QED
      BY <2>1, <3>1, <3>2, <3>3
  <2>3. Head(Taken) = h /\ (Framing = "tcp" => Taken = in)
    <3>1. Head(SubSeq(in, 1, 1)) = h
      BY <2>1
    <3>2. QED
      BY <3>1 DEF Taken
  <2>4. h.of \in {c, Nobody}
    <3>1. h.of \in Owed(in) \cup {Nobody}
      BY <2>2 DEF Owed
    <3>2. Owed(in) \subseteq {c}
      BY <2>1 DEF IInv, OwedInv, LockInv
    <3>3. QED
      BY <3>1, <3>2
  <2>5. h.of = Nobody => SoiledNow
    BY <2>1, <2>2, SoiledLoose DEF Loose
  <2>6. h.of = c => h.block = want[c] /\ h.part # "tail"
    BY <2>1, <2>2 DEF Sound, Frames
  <2>7. PICK o \in Parse(Taken) : got' = [got EXCEPT ![c] = o]
    BY <1>10 DEF Recv
  <2>8. o \in {Service!Own(c), Service!Exception, Service!Error}
                \cup (IF SoiledNow THEN Service!Late ELSE {})
    <3>1. CASE h.part = "tail"
      BY <2>3, <2>4, <2>5, <2>6, <2>7, <3>1
      DEF Parse, Garbage, Exception, Error, Service!Exception, Service!Error, Service!Late
    <3>2. CASE h.part # "tail"
      <4>1. o \in {Exception, Error} \/ o = [kind |-> "data", block |-> h.block, of |-> h.of]
        BY <2>3, <2>7, <3>2 DEF Parse
      <4>2. CASE o = [kind |-> "data", block |-> h.block, of |-> h.of] /\ h.of = c
        BY <2>6, <4>2 DEF Service!Own
      <4>3. CASE o = [kind |-> "data", block |-> h.block, of |-> h.of] /\ h.of = Nobody
        <5>1. h.block \in Blocks
          BY <2>2 DEF Piece
        <5>2. o \in Service!Late
          BY <4>3, <5>1 DEF Service!Late
        <5>3. QED
          BY <2>5, <4>3, <5>2
      <4>4. QED
        BY <2>4, <4>1, <4>2, <4>3 DEF Exception, Error, Service!Exception, Service!Error
    <3>3. QED
      BY <3>1, <3>2
  <2>9. ASSUME ~SoiledNow, o # Service!Error PROVE ~SoiledNow'
    <3>1. /\ \A i \in DOMAIN in : in[i].of # Nobody
          /\ \A i \in DOMAIN out : out[i].of # Nobody
      BY <2>1, <2>9, SoiledLoose DEF Loose
    <3>2. h.part \in {"whole", "head"} /\ (h.part = "head" => Len(Taken) # 1)
      <4>1. h.part # "tail"
        BY <2>1, <2>2, <3>1 DEF Frames
      <4>2. h.part = "head" => Len(Taken) # 1
        BY <2>3, <2>7, <2>9 DEF Parse, Error, Service!Error
      <4>3. QED
        BY <2>2, <4>1, <4>2 DEF Piece
    <3>3. Left = <<>> /\ out = <<>>
      <4>1. CASE h.part = "whole"
        <5>1. \A i \in DOMAIN in : i = 1
          BY <2>1, <2>2, <3>1, <4>1 DEF Frames
        <5>2. Len(in) = 1
          <6> HIDE DEF in
          <6>1. Len(in) \in DOMAIN in
            BY <2>2
          <6>2. QED
            BY <5>1, <6>1
        <5>3. DOMAIN out = {}
          BY <2>1, <2>2, <3>1, <4>1 DEF Frames
        <5>4. Tail(in) = <<>> /\ out = <<>>
          BY <2>2, <5>2, <5>3
        <5>5. QED
          BY <5>4 DEF Left
      <4>2. CASE h.part = "head"
        <5>1. Framing = "tcp"
          BY <2>1, <2>2, <4>2, FramingAssumption DEF Sound
        <5>2. Len(in) # 1
          BY <2>3, <3>2, <4>2, <5>1
        <5>3. 2 \in DOMAIN in
          <6> HIDE DEF in
          <6>1. Len(in) >= 2
            BY <2>2, <5>2
          <6>2. QED
            BY <2>2, <6>1
        <5>4. in[2].part = "tail"
          BY <2>2, <3>1, <5>3, <2>1 DEF Frames
        <5>5. DOMAIN out = {}
          BY <2>1, <3>1, <5>3, <5>4 DEF Frames
        <5>6. QED
          BY <2>2, <5>1, <5>5 DEF Left
      <4>3. QED
        BY <3>2, <4>1, <4>2
    <3>4. conn' = conn /\ inbox'[conn] = Forget(<<>>, c) /\ pending'[conn] = Forget(<<>>, c)
      BY <1>10, <2>1, <3>3 DEF Recv, IInv, TypeOK
    <3>5. ~Loose(Forget(<<>>, c))
      BY DEF Loose, Forget
    <3>6. SoiledNow' <=> conn' # NoSocket /\ (Loose(pending'[conn']) \/ Loose(inbox'[conn']))
      BY DEF SoiledNow, Pipe, Loose
    <3>7. QED
      BY <3>4, <3>5, <3>6
  <2>10. CallNow' = [CallNow EXCEPT ![c] = "idle"]
    BY <1>0, <1>10 DEF Recv, Goto, CallNow
  <2>11. ServingNow = c /\ ServingNow' = Nobody /\ want' = want
    BY <1>0, <1>10, <2>1 DEF Recv, ServingNow
  <2>12. SoiledNow' \in IF SoiledNow \/ o = Service!Error THEN BOOLEAN ELSE {FALSE}
    BY <2>9 DEF SoiledNow
  <2>13. QED
    BY <2>7, <2>8, <2>10, <2>11, <2>12
    DEF Service!Answer, Service!Ends, Service!Returns, CallNow, ServingNow, SoiledNow
<1>11. ASSUME NEW c \in Clients, FailOpen(c)
       PROVE  Service!Answer(c)
  <2>1. mu = c /\ conn \in Sockets
    BY <1>11 DEF IInv, TypeOK, LockInv, ConnInv, FailOpen
  <2>2. got' = [got EXCEPT ![c] = Service!Error]
    <3>1. got' = got /\ got[c] = Error
      BY <1>11 DEF FailOpen, RInv, GotInv
    <3>2. QED
      BY <1>0, <3>1 DEF Error, Service!Error
  <2>3. CallNow' = [CallNow EXCEPT ![c] = "idle"]
    BY <1>0, <1>11 DEF FailOpen, Goto, CallNow
  <2>4. ServingNow = c /\ ServingNow' = Nobody /\ want' = want
    BY <1>0, <1>11, <2>1 DEF FailOpen, ServingNow
  <2>5. SoiledNow' \in BOOLEAN
    BY DEF SoiledNow
  <2>6. QED
    BY <2>2, <2>3, <2>4, <2>5
    DEF Service!Answer, Service!Ends, Service!Returns, CallNow, ServingNow, SoiledNow
<1>12. ASSUME NEW c \in Clients, FailClosed(c)
       PROVE  Service!Break(c)
  <2>1. mu = c
    BY <1>12 DEF IInv, LockInv, FailClosed
  <2>2. CallNow' = CallNow
    BY <1>0, <1>12 DEF FailClosed, Goto, CallNow
  <2>3. ServingNow = c /\ ServingNow' = Nobody
    BY <1>0, <1>12, <2>1 DEF FailClosed, ServingNow
  <2>4. SoiledNow' = FALSE
    BY <1>12 DEF FailClosed, Shut, SoiledNow
  <2>5. want' = want /\ got' = got
    BY <1>12 DEF FailClosed
  <2>6. QED
    BY <2>2, <2>3, <2>4, <2>5 DEF Service!Break, CallNow, ServingNow, SoiledNow
<1>13. ASSUME NEW c \in Clients, Recover(c)
       PROVE  Service!Recover(c)
  <2>1. CallNow[c] = "panic" /\ CallNow' = [CallNow EXCEPT ![c] = "idle"]
    BY <1>0, <1>13 DEF Recover, Goto, CallNow
  <2>2. ServingNow' = ServingNow
    BY <1>0, <1>13 DEF Recover, Goto, ServingNow
  <2>3. SoiledNow' = SoiledNow
    BY <1>13 DEF Recover, SoiledNow, Pipe, socketVars
  <2>4. want' = want /\ got' = got
    BY <1>13 DEF Recover
  <2>5. QED
    BY <2>1, <2>2, <2>3, <2>4
    DEF Service!Recover, Service!Ends, CallNow, ServingNow, SoiledNow
<1>14. ASSUME NEW s \in Sockets, Network(s)
       PROVE  Service!Fade \/ UNCHANGED Service!vars
  <2>1. CallNow' = CallNow /\ ServingNow' = ServingNow /\ want' = want /\ got' = got /\ conn' = conn
    BY <1>14 DEF Network, Deliver, DeliverHead, Lose, Drop, CallNow, ServingNow
  <2>2. SoiledNow' => SoiledNow
    <3> DEFINE q == pending[s]
               h == Head(pending[s])
    <3>1. q \in Seq(Piece) /\ inbox[s] \in Seq(Piece) /\ (q # <<>> => h \in Piece)
      BY DEF IInv, TypeOK
    <3>2. Loose(pending'[s]) \/ Loose(inbox'[s]) => Loose(pending[s]) \/ Loose(inbox[s])
      <4>1. CASE Deliver(s)
        <5>1. q # <<>> /\ pending'[s] = Tail(q) /\ inbox'[s] = Append(inbox[s], h)
          BY <4>1 DEF Deliver, IInv, TypeOK
        <5>2. /\ Loose(Append(inbox[s], h)) <=> Loose(inbox[s]) \/ h.of = Nobody
              /\ Loose(q) <=> Loose(Tail(q)) \/ h.of = Nobody
          BY <3>1, <5>1, LooseQueues
        <5>3. QED
          BY <5>1, <5>2
      <4>2. CASE DeliverHead(s)
        <5> DEFINE f == [h EXCEPT !.part = "head"]
                   t == [h EXCEPT !.part = "tail"]
        <5>1. q # <<>> /\ pending'[s] = <<t>> \o Tail(q) /\ inbox'[s] = Append(inbox[s], f)
          BY <4>2 DEF DeliverHead, IInv, TypeOK
        <5>2. f \in Piece /\ t \in Piece /\ f.of = h.of /\ t.of = h.of
          BY <3>1, <5>1 DEF Piece
        <5> HIDE DEF f, t
        <5>3. /\ Loose(Append(inbox[s], f)) <=> Loose(inbox[s]) \/ f.of = Nobody
              /\ Loose(q) <=> Loose(Tail(q)) \/ h.of = Nobody
              /\ Loose(<<t>> \o Tail(q)) <=> Loose(q)
          BY <3>1, <5>1, <5>2, LooseQueues
        <5>4. QED
          BY <5>1, <5>2, <5>3
      <4>3. CASE Lose(s)
        <5>1. q # <<>> /\ pending'[s] = Tail(q) /\ inbox'[s] = inbox[s]
          BY <4>3 DEF Lose, IInv, TypeOK
        <5>2. Loose(q) <=> Loose(Tail(q)) \/ Head(q).of = Nobody
          BY <3>1, <5>1, LooseQueues
        <5>3. QED
          BY <5>1, <5>2
      <4>4. CASE Drop(s)
        <5>1. pending'[s] = <<>> /\ inbox'[s] = inbox[s]
          BY <4>4 DEF Drop, IInv, TypeOK
        <5>2. QED
          BY <5>1 DEF Loose
      <4>5. QED
        BY <1>14, <4>1, <4>2, <4>3, <4>4 DEF Network
    <3>3. \A t \in Sockets : t # s => pending'[t] = pending[t] /\ inbox'[t] = inbox[t]
      <4>1. CASE Deliver(s)
        BY <4>1 DEF Deliver, IInv, TypeOK
      <4>2. CASE DeliverHead(s)
        BY <4>2 DEF DeliverHead, IInv, TypeOK
      <4>3. CASE Lose(s)
        BY <4>3 DEF Lose, IInv, TypeOK
      <4>4. CASE Drop(s)
        BY <4>4 DEF Drop, IInv, TypeOK
      <4>5. QED
        BY <1>14, <4>1, <4>2, <4>3, <4>4 DEF Network
    <3>4. SoiledNow' <=> conn' # NoSocket /\ (Loose(pending'[conn']) \/ Loose(inbox'[conn']))
      BY DEF SoiledNow, Pipe, Loose
    <3>5. conn \in Sockets \cup {NoSocket}
      BY DEF IInv, TypeOK
    <3>6. QED
      BY <2>1, <3>2, <3>3, <3>4, <3>5, SoiledLoose
  <2>3. SoiledNow' = SoiledNow \/ SoiledNow' = FALSE
    BY <2>2 DEF SoiledNow
  <2>4. QED
    BY <2>1, <2>3 DEF Service!Fade, Service!vars, CallNow, ServingNow, SoiledNow
<1>15. CASE UNCHANGED vars
  BY <1>15 DEF vars, socketVars, Service!vars, Pipe
<1>16. QED
  <2>1. CASE UNCHANGED vars
    BY <1>15, <2>1
  <2>2. ASSUME NEW c \in Clients, Call(c) PROVE Service!Next
    BY <2>2, <1>1, <1>2 DEF Call, Service!Next
  <2>3. ASSUME NEW c \in Clients, TakeLock(c) PROVE Service!Next \/ UNCHANGED Service!vars
    BY <2>3, <1>3, <1>6, <1>7, <1>8 DEF TakeLock, Service!Next
  <2>4. ASSUME NEW c \in Clients, Step(c) PROVE Service!Next \/ UNCHANGED Service!vars
    BY <2>4, <1>4, <1>5, <1>9, <1>10, <1>11, <1>12, <1>13 DEF Step, DoRead, Service!Next
  <2>5. ASSUME NEW s \in Sockets, Network(s) PROVE Service!Next \/ UNCHANGED Service!vars
    BY <2>5, <1>14 DEF Service!Next
  <2>6. QED
    BY <2>1, <2>2, <2>3, <2>4, <2>5 DEF Next

\* The transports implement RegisterService, for any number of clients,
\* sockets and blocks and both framings: what the connections, the mutex, the
\* reconnects, the deadlines and the broken frames of the code do to a call
\* is never more than the service allows.
THEOREM ServiceImplemented == Spec => ImplementsService
<1>1. Spec => []RInv
  BY Invariance, RInitInv, RNextInv, PTL DEF Spec
<1>2. QED
  BY <1>1, Invariance, ServiceInit, ServiceNext, PTL DEF Spec, ImplementsService, Service!Spec
=============================================================================
