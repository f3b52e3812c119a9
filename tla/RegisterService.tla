-------------------------- MODULE RegisterService ---------------------------
(***************************************************************************)
(* What the interface Transport (et/transport.go) gives its callers: calls *)
(* that read a block of registers, served one at a time, beside the        *)
(* Connect and Close of the owners.  There are no sockets, queues or locks *)
(* here, only whose call is served and whether the connection is soiled,   *)
(* that is, may still hold an answer nobody waits for any more.            *)
(*                                                                         *)
(* Transport implements this specification (see Service there).            *)
(***************************************************************************)
CONSTANTS
    Clients,  \* goroutines that call
    Owners,   \* the clients that may also Connect and Close
    Blocks,   \* register blocks
    Nobody,   \* no client
    NoBlock   \* the call is Connect or Close

VARIABLES
    call,     \* per client: "idle", "calling" or "panic"
    want,     \* per client: the block it asks for
    got,      \* per client: what its last read returned
    serving,  \* the client whose transaction is under way
    soiled    \* an answer given up may still come out of the connection

vars == <<call, want, got, serving, soiled>>

Own(c) == [kind |-> "data", block |-> want[c], of |-> c]
Late == [kind: {"data"}, block: Blocks, of: {Nobody}] \cup {[kind |-> "garbage"]}
Exception == [kind |-> "exception"]
Error == [kind |-> "error"]

Init ==
    /\ call = [c \in Clients |-> "idle"]
    /\ want = [c \in Clients |-> NoBlock]
    /\ got = [c \in Clients |-> Error]
    /\ serving = Nobody
    /\ soiled = FALSE

Ends(c, how) == call' = [call EXCEPT ![c] = how]
Returns(c, out) == got' = [got EXCEPT ![c] = out]

\* A goroutine calls ReadRegisters for a block, or Connect or Close.
Request(c, b) ==
    /\ call[c] = "idle"
    /\ b = NoBlock => c \in Owners
    /\ Ends(c, "calling") /\ Returns(c, Error)
    /\ want' = [want EXCEPT ![c] = b]
    /\ UNCHANGED <<serving, soiled>>

\* One transaction at a time.
Begin(c) ==
    /\ call[c] = "calling" /\ want[c] \in Blocks /\ serving = Nobody
    /\ serving' = c
    /\ UNCHANGED <<call, want, got, soiled>>

\* The call returns what it asked for, or an error.  Only on a soiled
\* connection may it be given an answer that was left behind, and only an
\* error soils a clean one.
Answer(c) ==
    /\ serving = c
    /\ \E out \in {Own(c), Exception, Error} \cup (IF soiled THEN Late ELSE {}) :
         /\ Returns(c, out)
         /\ soiled' \in IF soiled \/ out = Error THEN BOOLEAN ELSE {FALSE}
    /\ serving' = Nobody
    /\ Ends(c, "idle")
    /\ UNCHANGED want

\* The transaction breaks: the connection is closed, the call goes on.
Break(c) ==
    /\ serving = c
    /\ serving' = Nobody /\ soiled' = FALSE
    /\ UNCHANGED <<call, want, got>>

\* The connection is closed or replaced by a call that is not being served;
\* that call may return.
Renew(c) ==
    /\ call[c] = "calling" /\ serving = Nobody
    /\ soiled' = FALSE
    /\ call' \in {call, [call EXCEPT ![c] = "idle"]}
    /\ UNCHANGED <<want, got, serving>>

\* The connection cannot be made.
Fail(c) ==
    /\ call[c] = "calling" /\ serving # c
    /\ Returns(c, Error) /\ Ends(c, "idle")
    /\ UNCHANGED <<want, serving, soiled>>

\* The connection was closed by another client before the retry.
Panic(c) ==
    /\ call[c] = "calling" /\ want[c] \in Blocks /\ serving = Nobody
    /\ Clients # {c}
    /\ Ends(c, "panic")
    /\ UNCHANGED <<want, got, serving, soiled>>

Recover(c) ==
    /\ call[c] = "panic"
    /\ Ends(c, "idle")
    /\ UNCHANGED <<want, got, serving, soiled>>

\* An answer nobody waits for is lost.
Fade ==
    /\ soiled' = FALSE
    /\ UNCHANGED <<call, want, got, serving>>

Next ==
    \/ \E c \in Clients :
         \/ \E b \in Blocks \cup {NoBlock} : Request(c, b)
         \/ Begin(c) \/ Answer(c) \/ Break(c) \/ Renew(c)
         \/ Fail(c) \/ Panic(c) \/ Recover(c)
    \/ Fade

Spec == Init /\ [][Next]_vars
=============================================================================
