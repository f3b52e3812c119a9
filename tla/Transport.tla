----------------------------- MODULE Transport -----------------------------
(***************************************************************************)
(* The two Modbus transports, et/tcp_transport.go and                      *)
(* et/dtls_transport.go, shared by the poll goroutine and the HTTP         *)
(* handlers.  Both have the same control: a mutex mu, the connection conn  *)
(* (nil when there is none) and the methods Connect, Close and             *)
(* ReadRegisters.  They differ in what one conn.Read returns: a stream     *)
(* read takes every byte that has arrived, a datagram read takes one       *)
(* answer (Framing).                                                       *)
(*                                                                         *)
(* A goroutine is a client.  A client in Owners may also call              *)
(* ETInverter.Connect and Close (the poll goroutine of the daemon, or the  *)
(* command line tool); the others are HTTP handlers and only read.         *)
(*                                                                         *)
(* Nothing numbers an answer: the transaction id is sent and never         *)
(* compared.  The model therefore follows each answer with the client      *)
(* whose call is still waiting for it (of), or Nobody once that call has   *)
(* returned.                                                               *)
(***************************************************************************)
EXTENDS Naturals, Sequences

CONSTANTS
    Clients,   \* goroutines that use the transport
    Owners,    \* the clients that may also Connect and Close
    Sockets,   \* descriptors a dial can return; a closed one is used again
    Blocks,    \* register blocks a client may ask for
    Framing,   \* "tcp": Modbus TCP on a stream; "rtu": Modbus RTU on DTLS
    MaxPipe,   \* bound: unanswered requests plus unread answers of a socket
    Nobody,    \* no client: mu is free, or an answer nobody waits for
    NoSocket,  \* conn is nil
    NoBlock    \* the client's call is not ReadRegisters

ASSUME OwnersAssumption == Owners \subseteq Clients
ASSUME FramingAssumption == Framing \in {"tcp", "rtu"}
ASSUME MaxPipeAssumption == MaxPipe \in Nat \ {0}
ASSUME NilAssumption ==
    Nobody \notin Clients /\ NoSocket \notin Sockets /\ NoBlock \notin Blocks

VARIABLES
    mu,       \* who holds t.mu
    conn,     \* t.conn
    open,     \* sockets the process holds open
    peer,     \* whether the inverter still serves a socket
    pending,  \* per socket: requests the inverter has not answered yet
    inbox,    \* per socket: answers, or parts of answers, not yet read
    pc,       \* per client: where it is in the call it makes
    want,     \* per client: the block its ReadRegisters asks for
    got       \* per client: what its last ReadRegisters returned

socketVars == <<open, peer, pending, inbox>>
vars == <<mu, conn, socketVars, pc, want, got>>

Holder == Clients \cup {Nobody}

\* An answer on its way: the block it carries, the client waiting for it, and
\* whether it is all of the frame or, on a stream, the first or the last part.
Piece == [block: Blocks, of: Holder, part: {"whole", "head", "tail"}]

\* What ReadRegisters returns: register data (whose, and for which call),
\* a Modbus exception, or an error.
Data == [kind: {"data"}, block: Blocks, of: Holder]
Garbage == [kind |-> "garbage"]      \* data parsed out of the middle of a frame
Exception == [kind |-> "exception"]
Error == [kind |-> "error"]
Outcome == Data \cup {Garbage, Exception, Error}

\* Where a client can be.  In Critical it holds mu.
Waiting == {"close", "preclose", "connect", "read", "retry"}
Critical == {"dial", "send", "recv", "resend", "rerecv"}
Transaction == {"send", "recv", "resend", "rerecv"}
AwaitingAnswer == {"recv", "rerecv"}

TypeOK ==
    /\ mu \in Holder
    /\ conn \in Sockets \cup {NoSocket}
    /\ open \subseteq Sockets
    /\ peer \in [Sockets -> {"up", "gone"}]
    /\ pending \in [Sockets -> Seq(Piece)]
    /\ inbox \in [Sockets -> Seq(Piece)]
    /\ pc \in [Clients -> {"idle", "panic"} \cup Waiting \cup Critical]
    /\ want \in [Clients -> Blocks \cup {NoBlock}]
    /\ got \in [Clients -> Outcome]

Init ==
    /\ mu = Nobody
    /\ conn = NoSocket
    /\ open = {}
    /\ peer = [s \in Sockets |-> "gone"]
    /\ pending = [s \in Sockets |-> <<>>]
    /\ inbox = [s \in Sockets |-> <<>>]
    /\ pc = [c \in Clients |-> "idle"]
    /\ want = [c \in Clients |-> NoBlock]
    /\ got = [c \in Clients |-> Error]

\* A panic in the poll goroutine ends the process; net/http recovers one in
\* a handler.
Crashed == \E c \in Owners : pc[c] = "panic"

-----------------------------------------------------------------------------
(* Calls.                                                                  *)

Goto(c, l) == pc' = [pc EXCEPT ![c] = l]

\* ETInverter.Connect: transport.Close and then transport.Connect, two
\* critical sections.
CallConnect(c) ==
    /\ c \in Owners /\ pc[c] = "idle"
    /\ Goto(c, "preclose")
    /\ want' = [want EXCEPT ![c] = NoBlock]
    /\ got' = [got EXCEPT ![c] = Error]
    /\ UNCHANGED <<mu, conn, socketVars>>

CallClose(c) ==
    /\ c \in Owners /\ pc[c] = "idle"
    /\ Goto(c, "close")
    /\ want' = [want EXCEPT ![c] = NoBlock]
    /\ got' = [got EXCEPT ![c] = Error]
    /\ UNCHANGED <<mu, conn, socketVars>>

CallReadRegisters(c, b) ==
    /\ pc[c] = "idle"
    /\ Goto(c, "read")
    /\ want' = [want EXCEPT ![c] = b]
    /\ got' = [got EXCEPT ![c] = Error]
    /\ UNCHANGED <<mu, conn, socketVars>>

-----------------------------------------------------------------------------
(* Sockets.                                                                *)

\* conn.Close and conn = nil: what was in the socket is gone with it.
Shut ==
    /\ conn' = NoSocket
    /\ open' = open \ {conn}
    /\ pending' = [s \in Sockets |-> IF s = conn THEN <<>> ELSE pending[s]]
    /\ inbox' = [s \in Sockets |-> IF s = conn THEN <<>> ELSE inbox[s]]
    /\ UNCHANGED peer

\* The pieces of a queue once client c no longer waits for its answer.
Forget(q, c) ==
    [i \in DOMAIN q |-> IF q[i].of = c THEN [q[i] EXCEPT !.of = Nobody] ELSE q[i]]

-----------------------------------------------------------------------------
(* Close: one critical section.  After it the first half of                *)
(* ETInverter.Connect goes on to transport.Connect.                        *)

Close(c) ==
    /\ pc[c] \in {"close", "preclose"} /\ mu = Nobody
    /\ Shut
    /\ Goto(c, IF pc[c] = "close" THEN "idle" ELSE "connect")
    /\ UNCHANGED <<mu, want, got>>

(* Connect: take the lock, close a stale connection, dial.                 *)

\* Mutant of ConnectLock: the stale connection is dropped without a Close.
ConnectLockLeaks(c) ==
    /\ pc[c] = "connect" /\ mu = Nobody
    /\ mu' = c
    /\ conn' = NoSocket
    /\ Goto(c, "dial")
    /\ UNCHANGED <<socketVars, want, got>>

ConnectLock(c) ==
    /\ pc[c] = "connect" /\ mu = Nobody
    /\ mu' = c
    /\ Shut
    /\ Goto(c, "dial")
    /\ UNCHANGED <<want, got>>

\* Mutant of DialOk: a plain Connect, too, goes on to read.
DialOkReads(c, s) ==
    /\ pc[c] = "dial" /\ s \notin open
    /\ conn' = s
    /\ open' = open \cup {s}
    /\ peer' = [peer EXCEPT ![s] = "up"]
    /\ mu' = Nobody
    /\ Goto(c, "retry")
    /\ UNCHANGED <<pending, inbox, want, got>>

\* The dial succeeds.  Inside ReadRegisters the call goes on to its retry.
DialOk(c, s) ==
    /\ pc[c] = "dial" /\ s \notin open
    /\ conn' = s
    /\ open' = open \cup {s}
    /\ peer' = [peer EXCEPT ![s] = "up"]
    /\ mu' = Nobody
    /\ Goto(c, IF want[c] = NoBlock THEN "idle" ELSE "retry")
    /\ UNCHANGED <<pending, inbox, want, got>>

\* The dial fails: conn stays nil and ReadRegisters returns "reconnect failed".
DialFail(c) ==
    /\ pc[c] = "dial"
    /\ mu' = Nobody
    /\ Goto(c, "idle")
    /\ got' = [got EXCEPT ![c] = Error]
    /\ UNCHANGED <<conn, socketVars, want>>

-----------------------------------------------------------------------------
(* ReadRegisters.                                                          *)

\* Mutant of ReadLock: the lock only guards the look at conn.
ReadLockReleased(c) ==
    /\ pc[c] = "read" /\ mu = Nobody
    /\ Goto(c, IF conn # NoSocket THEN "send" ELSE "connect")
    /\ UNCHANGED <<mu, conn, socketVars, want, got>>

\* The fast path needs a connection; without one the lock is released at once.
ReadLock(c) ==
    /\ pc[c] = "read" /\ mu = Nobody
    /\ IF conn # NoSocket THEN mu' = c /\ Goto(c, "send")
                          ELSE mu' = mu /\ Goto(c, "connect")
    /\ UNCHANGED <<conn, socketVars, want, got>>

\* The retry uses whatever conn is by now, without a look at it: on nil the
\* call panics, and the deferred Unlock releases mu.
RetryLock(c) ==
    /\ pc[c] = "retry" /\ mu = Nobody
    /\ IF conn # NoSocket THEN mu' = c /\ Goto(c, "resend")
                          ELSE mu' = mu /\ Goto(c, "panic")
    /\ UNCHANGED <<conn, socketVars, want, got>>

\* Mutant of Send: the lock is not held across the write and the read.
SendUnlocks(c) ==
    /\ pc[c] \in {"send", "resend"}
    /\ Len(pending[conn]) + Len(inbox[conn]) < MaxPipe
    /\ pending' = [pending EXCEPT ![conn] =
                     Append(@, [block |-> want[c], of |-> c, part |-> "whole"])]
    /\ mu' = Nobody
    /\ Goto(c, IF pc[c] = "send" THEN "recv" ELSE "rerecv")
    /\ UNCHANGED <<conn, open, peer, inbox, want, got>>

\* doRead, the write.  One to a peer that has gone may succeed and reach nobody.
Send(c) ==
    /\ pc[c] \in {"send", "resend"}
    /\ Len(pending[conn]) + Len(inbox[conn]) < MaxPipe
    /\ pending' = IF peer[conn] = "gone" THEN pending
                  ELSE [pending EXCEPT ![conn] =
                          Append(@, [block |-> want[c], of |-> c, part |-> "whole"])]
    /\ Goto(c, IF pc[c] = "send" THEN "recv" ELSE "rerecv")
    /\ UNCHANGED <<mu, conn, open, peer, inbox, want, got>>

\* What one conn.Read takes, and what it leaves in the socket.
Taken == IF Framing = "tcp" THEN inbox[conn] ELSE SubSeq(inbox[conn], 1, 1)
Left == IF Framing = "tcp" THEN <<>> ELSE Tail(inbox[conn])

\* parseModbusTCPResponse, parseModbusBulkResponse: only the first frame of
\* what was read is looked at, and it is taken for the answer.  A frame may
\* be an exception, or be malformed.
Parse(buf) ==
    IF Head(buf).part = "tail" THEN {Garbage, Exception, Error}
    ELSE IF Head(buf).part = "head" /\ Len(buf) = 1 THEN {Error}
    ELSE {[kind |-> "data", block |-> Head(buf).block, of |-> Head(buf).of], Exception, Error}

\* doRead, the read, with an answer.  Neither data nor a parse error nor an
\* exception makes isConnClosed true: the call returns.
Recv(c) ==
    /\ pc[c] \in AwaitingAnswer
    /\ inbox[conn] # <<>>
    /\ \E out \in Parse(Taken) : got' = [got EXCEPT ![c] = out]
    /\ inbox' = [inbox EXCEPT ![conn] = Forget(Left, c)]
    /\ pending' = [pending EXCEPT ![conn] = Forget(@, c)]
    /\ mu' = Nobody
    /\ Goto(c, "idle")
    /\ UNCHANGED <<conn, open, peer, want>>

\* doRead fails with an error isConnClosed does not match (a write or read
\* deadline, EOF), or with any error in the retry: the call returns it and
\* leaves the connection as it is.  A read deadline passes only while no
\* answer is there.
FailOpen(c) ==
    /\ pc[c] \in Transaction
    /\ pc[c] \in AwaitingAnswer => inbox[conn] = <<>> \/ peer[conn] = "gone"
    /\ inbox' = [inbox EXCEPT ![conn] = Forget(@, c)]
    /\ pending' = [pending EXCEPT ![conn] = Forget(@, c)]
    /\ mu' = Nobody
    /\ Goto(c, "idle")
    /\ UNCHANGED <<conn, open, peer, want, got>>

\* An error that isConnClosed matches (refused, broken pipe, reset by peer) means
\* that the peer has gone.
ConnClosed == peer[conn] = "gone"

\* Mutant of FailClosed: the reconnect is tried with the lock still held.
FailClosedLocked(c) ==
    /\ pc[c] \in {"send", "recv"} /\ ConnClosed
    /\ Shut
    /\ Goto(c, "connect")
    /\ UNCHANGED <<mu, want, got>>

\* The first doRead fails with such an error: close, unlock, reconnect.
FailClosed(c) ==
    /\ pc[c] \in {"send", "recv"} /\ ConnClosed
    /\ Shut
    /\ mu' = Nobody
    /\ Goto(c, "connect")
    /\ UNCHANGED <<want, got>>

\* net/http recovers the panic of a handler's goroutine.
Recover(c) ==
    /\ pc[c] = "panic" /\ c \notin Owners
    /\ Goto(c, "idle")
    /\ UNCHANGED <<mu, conn, socketVars, want, got>>

-----------------------------------------------------------------------------
(* The inverter and the network.                                           *)

\* The next answer, or the rest of one, arrives.
Deliver(s) ==
    /\ pending[s] # <<>>
    /\ inbox' = [inbox EXCEPT ![s] = Append(@, Head(pending[s]))]
    /\ pending' = [pending EXCEPT ![s] = Tail(@)]
    /\ UNCHANGED <<mu, conn, open, peer, pc, want, got>>

\* On a stream the first segment of an answer may arrive before the rest.
DeliverHead(s) ==
    /\ Framing = "tcp"
    /\ pending[s] # <<>> /\ Head(pending[s]).part = "whole"
    /\ inbox' = [inbox EXCEPT ![s] = Append(@, [Head(pending[s]) EXCEPT !.part = "head"])]
    /\ pending' = [pending EXCEPT ![s] = <<[Head(@) EXCEPT !.part = "tail"]>> \o Tail(@)]
    /\ UNCHANGED <<mu, conn, open, peer, pc, want, got>>

\* A request or its answer is lost; the inverter ignores a request.
Lose(s) ==
    /\ pending[s] # <<>> /\ Head(pending[s]).part = "whole"
    /\ pending' = [pending EXCEPT ![s] = Tail(@)]
    /\ UNCHANGED <<mu, conn, open, peer, inbox, pc, want, got>>

\* The inverter drops the connection; what it had not answered is lost.
Drop(s) ==
    /\ s \in open /\ peer[s] = "up"
    /\ peer' = [peer EXCEPT ![s] = "gone"]
    /\ pending' = [pending EXCEPT ![s] = <<>>]
    /\ UNCHANGED <<mu, conn, open, inbox, pc, want, got>>

-----------------------------------------------------------------------------

TakeLock(c) == Close(c) \/ ConnectLock(c) \/ ReadLock(c) \/ RetryLock(c)

\* The steps of doRead use conn, which NoUseAfterClose says is there.
DoRead(c) ==
    /\ conn # NoSocket
    /\ Send(c) \/ Recv(c) \/ FailOpen(c) \/ FailClosed(c)

Step(c) ==
    \/ \E s \in Sockets : DialOk(c, s)
    \/ DialFail(c)
    \/ DoRead(c)
    \/ Recover(c)

Call(c) ==
    \/ CallConnect(c) \/ CallClose(c)
    \/ \E b \in Blocks : CallReadRegisters(c, b)

Network(s) == Deliver(s) \/ DeliverHead(s) \/ Lose(s) \/ Drop(s)

Next ==
    \/ /\ ~Crashed
       /\ \/ \E c \in Clients : Call(c) \/ TakeLock(c) \/ Step(c)
          \/ \E s \in Sockets : Network(s)
    \/ Crashed /\ UNCHANGED vars

\* A goroutine that can run does; deadlines bound every write, read and dial.
\* A sync.Mutex starves nobody, so a client that waits for it gets it.
Fairness == \A c \in Clients : WF_vars(~Crashed /\ Step(c)) /\ SF_vars(~Crashed /\ TakeLock(c))

Spec == Init /\ [][Next]_vars
FairSpec == Spec /\ Fairness

-----------------------------------------------------------------------------
(* Properties.                                                             *)

\* The pieces of answers in a socket, arrived or not.
Pipe(s) == {pending[s][i] : i \in DOMAIN pending[s]} \cup {inbox[s][i] : i \in DOMAIN inbox[s]}

\* The calls that wait for a piece of a queue.
Owed(q) == {q[i].of : i \in DOMAIN q} \ {Nobody}

\* "The mutex is held across the entire write+read cycle to prevent concurrent
\* goroutines from interleaving Modbus transactions on the same socket": on
\* no socket does a request of one call stand beside a request of another.
NoInterleaving ==
    \A s \in Sockets : \A c, d \in Owed(pending[s]) \cup Owed(inbox[s]) : c = d

\* A client in the middle of a transaction works on the current connection,
\* and nobody has closed it under its hands.
NoUseAfterClose ==
    \A c \in Clients : pc[c] \in Transaction => conn \in open

\* Connect, Close and the reconnect of ReadRegisters leak no connection: the
\* only socket the process holds open is conn (a dongle serves only one).
NoLeak == open \subseteq {conn}

\* Data that ReadRegisters returns was never meant for a call that is still
\* under way: it answers this call, or one that had given up before.
NoStolenAnswer ==
    \A c \in Clients : got[c].kind = "data" => got[c].of \in {c, Nobody}

\* ReadRegisters returns the registers it was asked for.
AnswerMatchesRequest ==
    \A c \in Clients : pc[c] = "idle" /\ got[c].kind = "data" => got[c].block = want[c]

\* No call dereferences a nil connection.
NoNilDeref == \A c \in Clients : pc[c] # "panic"

\* What the callers see of this state: whose call is under way and served, and
\* whether the connection holds an answer nobody waits for.
Service == INSTANCE RegisterService WITH
    call <- [c \in Clients |-> IF pc[c] \in {"idle", "panic"} THEN pc[c] ELSE "calling"],
    serving <- IF mu # Nobody /\ pc[mu] \in Transaction THEN mu ELSE Nobody,
    soiled <- conn # NoSocket /\ \E p \in Pipe(conn) : p.of = Nobody

\* The transports keep the promise of the interface they implement: whatever
\* reconnects, deadlines and broken frames do, calls are served one at a time,
\* and a call gets its own answer unless one given up before is in the way.
ImplementsService == Service!Spec

\* Every call returns: deadlines and the mutex leave nobody waiting forever.
CallsReturn ==
    \A c \in Clients : pc[c] # "idle" ~> pc[c] = "idle" \/ Crashed
=============================================================================
