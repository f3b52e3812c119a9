---------------------------- MODULE DaemonProofs ----------------------------
(***************************************************************************)
(* Proofs about Daemon, for any devices, serials, poll intervals and       *)
(* backoff times.  The argument: the place Run is at and connState go      *)
(* together (RunInv), and a mismatch, once set, leaves Run only the way    *)
(* from the check to its end (MismatchInv).  What verifyIdentity has read  *)
(* of the identity is still so when it writes it (IdentityInv).  As long   *)
(* as the device that GetInfo has read answers, every read reaches it      *)
(* (SwapInv).                                                              *)
(***************************************************************************)
EXTENDS Daemon, FiniteSetTheorems, TLAPS

\* Where Run can be in a given connection state, and from where on GetInfo has
\* been called.
RunInv ==
    /\ pc \in {"connect", "info", "verify", "store", "update", "purge", "check"} => connState = "Connecting"
    /\ pc \in {"poll", "more", "insert"} => connState = "Connected"
    /\ pc = "schedule" => connState \in {"Disconnected", "Connected", "Failed"}
    /\ pc = "select" => connState \in {"Disconnected", "Connected"}
    /\ pc \in {"verify", "store", "update"} => info.serial \in Serials

\* A mismatch is about to be reported, or has been and Run is at its end.
MismatchInv ==
    /\ verificationErr =>
         \/ pc = "check"
         \/ pc \in {"schedule", "failed", "returned"} /\ connState = "Failed"
    /\ connState = "Failed" => verificationErr /\ connErr

IInv == TypeOK /\ RunInv /\ MismatchInv

\* There is one row at most, and what verifyIdentity has found of it is so.
IdentityInv ==
    /\ \A r, s \in identities : r = s
    /\ pc = "store" => identities = {}
    /\ pc = "update" => \A r \in identities : r.serial = info.serial

\* Unless it was swapped, the device that GetInfo has read is the one behind
\* the connection, the one that was verified and the one that is polled.
SwapInv ==
    /\ link \in {None, device}
    /\ ~swapped =>
         /\ device # None
         /\ pc \in {"verify", "store", "update"} => info.serial = device
         /\ (pc \in {"purge", "check"} \/ connState = "Connected") /\ ~verificationErr =>
              \A row \in GetInverterIdentity : row.serial \in Devices => row.serial = device
         /\ pc \in {"more", "insert"} => batch \subseteq {device}

-----------------------------------------------------------------------------

\* The doubled backoff stays within its limits.
LEMMA DoubledInRange ==
    ASSUME backoff \in BackoffInitial..BackoffMax
    PROVE  Doubled \in BackoffInitial..BackoffMax
BY BackoffAssumption DEF Doubled

\* New and the database establish the invariant.
LEMMA InitInv == Init => IInv
<1> SUFFICES ASSUME Init PROVE IInv
  OBVIOUS
<1>1. TypeOK
  <2>1. conf \in [inverter: BOOLEAN, probe: ProbeSerials, store: BOOLEAN, pollInterval: Nat]
    BY FlagsAssumption DEF Init
  <2>2. connState \in {"Disabled", "Disconnected", "Connecting", "Connected", "Failed"}
    BY DEF Init
  <2>3. backoff \in BackoffInitial..BackoffMax /\ fails \in 0..MaxFails
    BY BackoffAssumption, MaxFailsAssumption DEF Init
  <2>4. identities \subseteq [serial: Serials, details: Devices \cup {None}]
    BY DEF Init, Serials, Info
  <2>5. /\ pc = "start" /\ sleep = 0 /\ batch = {} /\ origins = {}
        /\ info \in [serial: Serials \cup {None}, details: Devices \cup {None}]
    BY DEF Init, Info
  <2>6. device \in Devices /\ link = None
    BY DEF Init
  <2>7. /\ cancelled \in BOOLEAN /\ connErr \in BOOLEAN /\ verificationErr \in BOOLEAN
        /\ calm \in BOOLEAN /\ swapped \in BOOLEAN
    BY Zenon DEF Init
  <2>8. QED
    BY <2>1, <2>2, <2>3, <2>4, <2>5, <2>6, <2>7 DEF TypeOK
<1>2. RunInv /\ MismatchInv
  BY DEF Init, RunInv, MismatchInv
<1>3. QED
  BY <1>1, <1>2 DEF IInv

\* Every step keeps the types.
LEMMA TypeStep == IInv /\ [Next]_vars => TypeOK'
<1> SUFFICES ASSUME IInv, [Next]_vars PROVE TypeOK'
  OBVIOUS
<1>a. TypeOK
  BY DEF IInv
<1> USE DEF TypeOK, runVars, stateVars, dbVars, envVars, HasInverter, HasStore, PollInterval,
            SetState, ReadsFrom, ReadFails, Serials
<1> USE <1>a
<1>1. CASE Start
  <2>1. connErr' \in BOOLEAN /\ verificationErr' \in BOOLEAN
    BY <1>1, Zenon DEF Start
  <2>2. connState' \in {"Disabled", "Disconnected", "Connecting", "Connected", "Failed"}
    BY <1>1 DEF Start
  <2>3. QED
    BY <1>1, <2>1, <2>2 DEF Start
<1>2. CASE WaitDone
  BY <1>2 DEF WaitDone
<1>3. CASE SelectDone
  BY <1>3 DEF SelectDone
<1>4. CASE TimerFires
  <2>1. connErr' \in BOOLEAN /\ verificationErr' \in BOOLEAN
    BY <1>4, Zenon DEF TimerFires
  <2>2. connState' \in {"Disabled", "Disconnected", "Connecting", "Connected", "Failed"}
    BY <1>4 DEF TimerFires
  <2>3. QED
    BY <1>4, <2>1, <2>2 DEF TimerFires
<1>5. CASE ConnectOk
  BY <1>5 DEF ConnectOk
<1>6. CASE ConnectFails
  BY <1>6 DEF ConnectFails
<1>7. CASE GetInfo
  <2>1. swapped' \in BOOLEAN
    BY <1>7, Zenon DEF GetInfo
  <2>2. /\ info' \in [serial: Serials \cup {None}, details: Devices \cup {None}]
        /\ link' \in Devices \cup {None}
    BY <1>7 DEF GetInfo, Info
  <2>3. QED
    BY <1>7, <2>1, <2>2 DEF GetInfo
<1>8. CASE Verify \/ StoreIdentity \/ UpdateIdentity \/ PurgeBadSamples
  <2>1. CASE Verify
    <3>1. verificationErr' \in BOOLEAN
      BY <2>1, Zenon DEF Verify
    <3>2. pc' \in {"check", "store", "update"}
      BY <2>1 DEF Verify
    <3>3. QED
      BY <2>1, <3>1, <3>2 DEF Verify
  <2>2. CASE StoreIdentity \/ UpdateIdentity
    <3>1. /\ pc' = "purge" /\ pc \in {"store", "update"}
          /\ SetInverterIdentity \/ UNCHANGED identities
          /\ UNCHANGED <<backoff, sleep, info, batch, fails, stateVars, origins, envVars,
                         cancelled, link>>
      BY <2>2 DEF StoreIdentity, UpdateIdentity
    <3>2. info.serial \in Serials
      BY <2>2 DEF StoreIdentity, UpdateIdentity, IInv, RunInv
    <3>3. info \in [serial: Serials, details: Devices \cup {None}]
      BY <3>2
    <3>4. identities' \subseteq [serial: Serials, details: Devices \cup {None}]
      BY <3>1, <3>3 DEF SetInverterIdentity
    <3>5. QED
      BY <3>1, <3>4
  <2>3. CASE PurgeBadSamples
    BY <2>3 DEF PurgeBadSamples
  <2>4. QED
    BY <1>8, <2>1, <2>2, <2>3
<1>9. CASE VerifyFails
  BY <1>9 DEF VerifyFails
<1>10. CASE Check
  <2>1. connErr' \in BOOLEAN /\ verificationErr' \in BOOLEAN
    BY <1>10, Zenon DEF Check
  <2>2. connState' \in {"Disabled", "Disconnected", "Connecting", "Connected", "Failed"}
    BY <1>10 DEF Check
  <2>3. QED
    BY <1>10, <2>1, <2>2 DEF Check
<1>11. CASE PollOk
  BY <1>11 DEF PollOk
<1>12. CASE PollMore
  BY <1>12 DEF PollMore
<1>13. CASE PollFails
  BY <1>13 DEF PollFails
<1>14. CASE Insert
  BY <1>14 DEF Insert
<1>15. CASE Schedule
  <2>1. fails' \in 0..MaxFails
    BY <1>15, MaxFailsAssumption DEF Schedule
  <2>2. backoff' \in BackoffInitial..BackoffMax
    BY <1>15, DoubledInRange, BackoffAssumption DEF Schedule
  <2>3. sleep' \in (BackoffInitial..BackoffMax) \cup {0, PollInterval}
    BY <1>15 DEF Schedule
  <2>4. QED
    BY <1>15, <2>1, <2>2, <2>3 DEF Schedule
<1>16. CASE FailedDone
  BY <1>16 DEF FailedDone
<1>17. CASE Cancel
  BY <1>17 DEF Cancel
<1>18. CASE HttpRead
  BY <1>18 DEF HttpRead
<1>19. CASE Disconnect
  BY <1>19 DEF Disconnect
<1>20. CASE Calm
  BY <1>20 DEF Calm
<1>21. CASE \E d \in Devices \cup {None} : Replace(d)
  BY <1>21 DEF Replace
<1>22. CASE UNCHANGED vars
  BY <1>22 DEF vars
<1>23. CASE Restart
  <2>1. conf' \in [inverter: BOOLEAN, probe: ProbeSerials, store: BOOLEAN, pollInterval: Nat]
    BY <1>23 DEF Restart
  <2>2. /\ cancelled' \in BOOLEAN /\ connErr' \in BOOLEAN /\ verificationErr' \in BOOLEAN
        /\ calm' \in BOOLEAN /\ swapped' \in BOOLEAN
    BY <1>23, Zenon DEF Restart
  <2>3. connState' \in {"Disabled", "Disconnected", "Connecting", "Connected", "Failed"}
    BY <1>23 DEF Restart
  <2>4. /\ backoff' \in BackoffInitial..BackoffMax /\ sleep' = 0
        /\ fails' \in 0..MaxFails
    BY <1>23, BackoffAssumption, MaxFailsAssumption DEF Restart
  <2>5. info' \in [serial: Serials \cup {None}, details: Devices \cup {None}] /\ batch' = {}
    BY <1>23 DEF Restart, Info
  <2>6. pc' = "start" /\ link' = None /\ UNCHANGED <<identities, origins, device>>
    BY <1>23 DEF Restart
  <2>7. QED
    BY <2>1, <2>2, <2>3, <2>4, <2>5, <2>6
<1>24. QED
  BY <1>1, <1>2, <1>3, <1>4, <1>5, <1>6, <1>7, <1>8, <1>9, <1>10, <1>11, <1>12, <1>13,
     <1>14, <1>15, <1>16, <1>17, <1>18, <1>19, <1>20, <1>21, <1>22, <1>23
     DEF Next, Run, Environment

\* Every step keeps Run's place, the state and the mismatch together.
LEMMA MismatchStep == IInv /\ [Next]_vars => RunInv' /\ MismatchInv'
<1> SUFFICES ASSUME IInv, [Next]_vars PROVE RunInv' /\ MismatchInv'
  OBVIOUS
<1> USE DEF IInv, RunInv, MismatchInv, runVars, stateVars, SetState
<1>1. CASE Start
  BY <1>1 DEF Start
<1>2. CASE WaitDone
  BY <1>2 DEF WaitDone
<1>3. CASE SelectDone
  BY <1>3 DEF SelectDone
<1>4. CASE TimerFires
  BY <1>4 DEF TimerFires
<1>5. CASE ConnectOk
  BY <1>5 DEF ConnectOk
<1>6. CASE ConnectFails
  BY <1>6 DEF ConnectFails
<1>7. CASE GetInfo
  <2>1. info'.serial \in Serials
    BY <1>7 DEF GetInfo, Info, Serials, TypeOK
  <2>2. QED
    BY <1>7, <2>1 DEF GetInfo
<1>8. CASE Verify \/ StoreIdentity \/ UpdateIdentity \/ PurgeBadSamples
  BY <1>8 DEF Verify, StoreIdentity, UpdateIdentity, PurgeBadSamples
<1>9. CASE VerifyFails
  BY <1>9 DEF VerifyFails
<1>10. CASE Check
  BY <1>10 DEF Check
<1>11. CASE PollOk
  BY <1>11 DEF PollOk
<1>12. CASE PollMore
  BY <1>12 DEF PollMore
<1>13. CASE PollFails
  BY <1>13 DEF PollFails
<1>14. CASE Insert
  BY <1>14 DEF Insert
<1>15. CASE Schedule
  BY <1>15 DEF Schedule
<1>16. CASE FailedDone
  BY <1>16 DEF FailedDone
<1>17. CASE Cancel
  BY <1>17 DEF Cancel
<1>18. CASE HttpRead
  BY <1>18 DEF HttpRead
<1>19. CASE Disconnect
  BY <1>19 DEF Disconnect
<1>20. CASE Calm
  BY <1>20 DEF Calm
<1>21. CASE \E d \in Devices \cup {None} : Replace(d)
  BY <1>21 DEF Replace
<1>22. CASE UNCHANGED vars
  BY <1>22 DEF vars
<1>23. CASE Restart
  BY <1>23 DEF Restart
<1>24. QED
  BY <1>1, <1>2, <1>3, <1>4, <1>5, <1>6, <1>7, <1>8, <1>9, <1>10, <1>11, <1>12, <1>13,
     <1>14, <1>15, <1>16, <1>17, <1>18, <1>19, <1>20, <1>21, <1>22, <1>23
     DEF Next, Run, Environment

\* Run, doConnect and doPoll keep the invariant.
THEOREM Invariance == Spec => []IInv
<1>1. IInv /\ [Next]_vars => IInv'
  BY TypeStep, MismatchStep DEF IInv
<1>2. QED
  BY InitInv, <1>1, PTL DEF Spec

\* The fields of Daemon, Run's locals and the tables keep their types; the
\* backoff lies between backoffInitial and backoffMax.
THEOREM TypeCorrect == Spec => []TypeOK
<1>1. IInv => TypeOK
  BY DEF IInv
<1>2. QED
  BY Invariance, <1>1, PTL

\* What /api/health reports: "Connected" hides no mismatch, "Failed" is a
\* mismatch with its error.
THEOREM HealthAgrees == Spec => []StatesAgree
<1>1. IInv => StatesAgree
  BY DEF IInv, RunInv, MismatchInv, StatesAgree
<1>2. QED
  BY Invariance, <1>1, PTL

-----------------------------------------------------------------------------

\* Once the serial does not match, nothing is polled and stored again.
THEOREM MismatchFinal == Spec => MismatchIsFinal
<1>1. ASSUME IInv, [Next]_vars, verificationErr
      PROVE  origins' = origins /\ (verificationErr' \/ pc' = "start")
  <2> USE <1>1 DEF IInv, MismatchInv, runVars, stateVars, dbVars, SetState
  <2>1. CASE Start \/ WaitDone \/ SelectDone \/ TimerFires
    BY <2>1 DEF Start, WaitDone, SelectDone, TimerFires
  <2>2. CASE ConnectOk \/ ConnectFails \/ GetInfo \/ VerifyFails \/ Check
    BY <2>2 DEF ConnectOk, ConnectFails, GetInfo, VerifyFails, Check
  <2>3. CASE Verify \/ StoreIdentity \/ UpdateIdentity \/ PurgeBadSamples
    BY <2>3 DEF Verify, StoreIdentity, UpdateIdentity, PurgeBadSamples
  <2>4. CASE PollOk \/ PollMore \/ PollFails
    BY <2>4 DEF PollOk, PollMore, PollFails
  <2>5. CASE Insert
    BY <2>5 DEF Insert
  <2>6. CASE Schedule \/ FailedDone
    BY <2>6 DEF Schedule, FailedDone
  <2>7. CASE Environment
    BY <2>7 DEF Environment, Cancel, HttpRead, Disconnect, Calm, Replace, Restart
  <2>8. CASE UNCHANGED vars
    BY <2>8 DEF vars
  <2>9. QED
    BY <2>1, <2>2, <2>3, <2>4, <2>5, <2>6, <2>7, <2>8 DEF Next, Run
<1>2. IInv /\ [Next]_vars => [verificationErr =>
                                origins' = origins /\ (verificationErr' \/ pc' = "start")]_vars
  BY <1>1
<1>3. QED
  BY Invariance, <1>2, PTL DEF Spec, MismatchIsFinal

\* Every step keeps what verifyIdentity has found: nobody else writes the table,
\* and a process that dies forgets what it has read.
LEMMA IdentityStep ==
  ASSUME TypeOK, IdentityInv, [Next]_vars
  PROVE  /\ IdentityInv'
         /\ \A row \in identities : \E new \in identities' : new.serial = row.serial
<1> USE DEF runVars, stateVars, dbVars, envVars
<1>1. CASE StoreIdentity \/ UpdateIdentity
  <2>1. /\ pc' = "purge" /\ pc \in {"store", "update"} /\ info' = info
        /\ SetInverterIdentity \/ UNCHANGED identities
    BY <1>1 DEF StoreIdentity, UpdateIdentity
  <2>2. CASE SetInverterIdentity
    <3>1. \A r \in identities : r.serial = info.serial
      BY <2>1 DEF IdentityInv
    <3>2. identities' = {info}
      BY <2>2, <3>1 DEF SetInverterIdentity
    <3>3. QED
      BY <2>1, <3>1, <3>2 DEF IdentityInv
  <2>3. CASE UNCHANGED identities
    BY <2>1, <2>3 DEF IdentityInv
  <2>4. QED
    BY <2>1, <2>2, <2>3
<1>2. CASE Verify
  <2>1. /\ UNCHANGED <<identities, info>>
        /\ \/ pc' = "check"
           \/ pc' = "store" /\ identities = {}
           \/ pc' = "update" /\ \E row \in identities : row.serial = info.serial
    BY <1>2 DEF Verify, GetInverterIdentity
  <2>2. QED
    BY <2>1 DEF IdentityInv
<1>3. CASE \/ Start \/ WaitDone \/ SelectDone \/ TimerFires \/ ConnectOk \/ ConnectFails \/ GetInfo
           \/ PurgeBadSamples \/ VerifyFails \/ Check \/ PollOk \/ PollMore \/ PollFails
           \/ Insert \/ Schedule \/ FailedDone \/ Restart
  <2>1. identities' = identities /\ pc' \notin {"store", "update"}
    BY <1>3 DEF Start, WaitDone, SelectDone, TimerFires, ConnectOk, ConnectFails, GetInfo,
       PurgeBadSamples, VerifyFails, Check, PollOk, PollMore, PollFails, Insert, Schedule,
       FailedDone, Restart
  <2>2. QED
    BY <2>1 DEF IdentityInv
<1>4. CASE \/ Cancel \/ HttpRead \/ Disconnect \/ Calm \/ UNCHANGED vars
           \/ \E d \in Devices \cup {None} : Replace(d)
  <2>1. UNCHANGED <<identities, pc, info>>
    BY <1>4 DEF Cancel, HttpRead, Disconnect, Calm, Replace, vars
  <2>2. QED
    BY <2>1 DEF IdentityInv
<1>5. QED
  BY <1>1, <1>2, <1>3, <1>4 DEF Next, Run, Environment

\* The identity in the database is the first one ever verified, in one row, also
\* when its row is rewritten at each connect, when a write fails, and when the
\* process dies between reading and writing it.
THEOREM IdentityStays == Spec => IdentityKept
<1>1. Init => IdentityInv
  BY DEF Init, IdentityInv
<1>2. IInv /\ IdentityInv /\ [Next]_vars => IdentityInv'
  BY IdentityStep DEF IInv
<1>3. ASSUME IInv, IdentityInv, [Next]_vars
      PROVE  /\ Cardinality(identities') <= 1
             /\ \A row \in identities : \E new \in identities' : new.serial = row.serial
  <2>1. /\ \A r, s \in identities' : r = s
        /\ \A row \in identities : \E new \in identities' : new.serial = row.serial
    BY <1>3, IdentityStep DEF IInv, IdentityInv
  <2>2. CASE identities' = {}
    BY <2>1, <2>2, FS_EmptySet
  <2>3. CASE identities' # {}
    <3>1. PICK r \in identities' : identities' = {r}
      BY <2>1, <2>3
    <3>2. Cardinality({r}) = 1
      BY FS_Singleton
    <3>3. QED
      BY <2>1, <3>1, <3>2
  <2>4. QED
    BY <2>2, <2>3
<1>4. IInv /\ IdentityInv /\ [Next]_vars =>
        [/\ Cardinality(identities') <= 1
         /\ \A row \in identities : \E new \in identities' : new.serial = row.serial]_vars
  BY <1>3
<1>5. QED
  BY Invariance, <1>1, <1>2, <1>4, PTL DEF Spec, IdentityKept

-----------------------------------------------------------------------------

\* Every step keeps polling on the device that GetInfo has read.
LEMMA SwapStep == IInv /\ IdentityInv /\ SwapInv /\ [Next]_vars => SwapInv'
<1> SUFFICES ASSUME IInv, IdentityInv, SwapInv, [Next]_vars PROVE SwapInv'
  OBVIOUS
<1> USE NoneAssumption
    DEF IInv, RunInv, SwapInv, runVars, stateVars, dbVars, envVars, SetState, HasStore
<1>1. CASE Start
  BY <1>1 DEF Start, GetInverterIdentity
<1>2. CASE WaitDone \/ SelectDone \/ TimerFires
  BY <1>2 DEF WaitDone, SelectDone, TimerFires, GetInverterIdentity
<1>3. CASE ConnectOk \/ ConnectFails
  BY <1>3 DEF ConnectOk, ConnectFails, GetInverterIdentity
<1>4. CASE GetInfo
  <2>1. pc' = "verify" /\ connState = "Connecting" /\ UNCHANGED <<connState, device>>
    BY <1>4 DEF GetInfo
  <2>2. CASE \E d \in Devices : ReadsFrom(d) /\ info' = Info(d, d)
    <3>1. link' = device /\ info'.serial = device /\ device # None
      BY <2>2 DEF ReadsFrom, Info
    <3>2. QED
      BY <2>1, <3>1
  <2>3. CASE ReadFails /\ swapped' = TRUE
    <3>1. swapped'
      BY <2>3
    <3>2. link' \in {None, device}
      BY <2>3 DEF ReadFails
    <3>3. QED
      BY <2>1, <3>1, <3>2
  <2>4. QED
    BY <1>4, <2>2, <2>3 DEF GetInfo
<1>5. CASE Verify
  <2>1. /\ pc = "verify" /\ swapped' = swapped /\ link' = link /\ device' = device
        /\ conf' = conf /\ identities' = identities /\ info' = info
        /\ connState = "Connecting" /\ connState' = connState
        /\ \/ pc' \in {"store", "update"}
           \/ pc' = "check" /\ ~HasStore
           \/ pc' = "check" /\ verificationErr' = TRUE
    BY <1>5 DEF Verify
  <2>2. verificationErr' = TRUE => verificationErr'
    OBVIOUS
  <2>3. pc' = "check" /\ ~verificationErr' => GetInverterIdentity' = {}
    BY <2>1, <2>2 DEF GetInverterIdentity
  <2>4. QED
    BY <2>1, <2>3
<1>6. CASE VerifyFails \/ Check
  BY <1>6 DEF VerifyFails, Check, GetInverterIdentity
<1>7. CASE PollOk
  BY <1>7 DEF PollOk, ReadsFrom, GetInverterIdentity
<1>8. CASE PollMore
  BY <1>8 DEF PollMore, ReadsFrom, GetInverterIdentity
<1>9. CASE PollFails \/ Insert
  BY <1>9 DEF PollFails, Insert, GetInverterIdentity
<1>10. CASE Schedule \/ FailedDone
  BY <1>10 DEF Schedule, FailedDone, GetInverterIdentity
<1>11. CASE HttpRead
  BY <1>11 DEF HttpRead, ReadsFrom, GetInverterIdentity
<1>12. CASE Cancel \/ Disconnect \/ Calm \/ \E d \in Devices \cup {None} : Replace(d)
  BY <1>12 DEF Cancel, Disconnect, Calm, Replace, GetInverterIdentity
<1>13. CASE UNCHANGED vars
  BY <1>13 DEF vars, GetInverterIdentity
<1>14. CASE StoreIdentity \/ UpdateIdentity
  <2>1. /\ pc \in {"store", "update"} /\ pc' = "purge" /\ swapped' = swapped /\ link' = link
        /\ device' = device /\ conf' = conf /\ info' = info /\ connState' = connState
        /\ SetInverterIdentity \/ UNCHANGED identities
    BY <1>14 DEF StoreIdentity, UpdateIdentity
  <2>2. \A row \in identities : row.serial = info.serial
    BY <2>1 DEF IdentityInv
  <2>3. \A row \in identities' : row.serial = info.serial
    BY <2>1, <2>2 DEF SetInverterIdentity
  <2>4. \A row \in GetInverterIdentity' : row.serial = info.serial
    BY <2>3 DEF GetInverterIdentity
  <2>5. QED
    BY <2>1, <2>4
<1>15. CASE PurgeBadSamples \/ Restart
  BY <1>15 DEF PurgeBadSamples, Restart, GetInverterIdentity
<1>16. QED
  BY <1>1, <1>2, <1>3, <1>4, <1>5, <1>6, <1>7, <1>8, <1>9, <1>10, <1>11, <1>12, <1>13,
     <1>14, <1>15
     DEF Next, Run, Environment

\* Samples of a device that is not the stored one are only stored when the
\* device was swapped behind the daemon's back, or GetInfo could not read it.
THEOREM ForeignSamplesAfterSwap == Spec => ForeignOnlyAfterSwap
<1>1. Init => SwapInv
  BY DEF Init, SwapInv
<1>2. Spec => []IdentityInv
  <2>1. Init => IdentityInv
    BY DEF Init, IdentityInv
  <2>2. IInv /\ IdentityInv /\ [Next]_vars => IdentityInv'
    BY IdentityStep DEF IInv
  <2>3. QED
    BY <2>1, <2>2, Invariance, PTL DEF Spec
<1>3. Spec => []SwapInv
  BY <1>1, <1>2, SwapStep, Invariance, PTL DEF Spec
<1>4. ASSUME IInv, SwapInv, [Next]_vars, NEW row \in GetInverterIdentity, row.serial \in Devices,
             NEW d \in origins' \ origins, ~swapped
      PROVE  d = row.serial
  <2>1. CASE Insert
    <3>1. d \in batch /\ pc = "insert"
      BY <1>4, <2>1 DEF Insert
    <3>2. d = device /\ connState = "Connected" /\ ~verificationErr
      BY <1>4, <3>1 DEF IInv, RunInv, MismatchInv, SwapInv
    <3>3. QED
      BY <1>4, <3>2 DEF SwapInv
  <2>2. CASE PurgeBadSamples
    BY <1>4, <2>2 DEF PurgeBadSamples
  <2>3. CASE ~Insert /\ ~PurgeBadSamples
    <3>1. origins' = origins
      BY <1>4, <2>3 DEF Next, Run, Environment, vars, dbVars, Start, WaitDone, SelectDone,
         TimerFires, ConnectOk, ConnectFails, GetInfo, Verify, StoreIdentity,
         UpdateIdentity, VerifyFails, Check, PollOk,
         PollMore, PollFails, Schedule, FailedDone, Cancel, HttpRead, Disconnect, Calm, Replace,
         Restart
    <3>2. QED
      BY <1>4, <3>1
  <2>4. QED
    BY <2>1, <2>2, <2>3
<1>5. IInv /\ SwapInv /\ [Next]_vars =>
        [\A row \in GetInverterIdentity : row.serial \in Devices =>
           \A d \in origins' \ origins : d = row.serial \/ swapped]_vars
  BY <1>4
<1>6. QED
  BY Invariance, <1>3, <1>5, PTL DEF Spec, ForeignOnlyAfterSwap
-----------------------------------------------------------------------------
(* The backoff.  What the prover has to know of powers of two it gets from  *)
(* the number of subsets of a set.                                         *)

\* A set of n numbers has 2^n subsets, and one more number twice as many.
LEMMA Powers ==
    /\ 2^0 = 1
    /\ \A n \in Nat : 2^n \in Nat /\ 2^(n + 1) = 2 * 2^n
<1>1. 2^0 = 1
  <2>1. Cardinality(SUBSET {}) = 2^0
    BY FS_EmptySet, FS_SUBSET
  <2>2. SUBSET {} = {{}}
    OBVIOUS
  <2>3. QED
    BY <2>1, <2>2, FS_Singleton
<1>2. ASSUME NEW n \in Nat PROVE 2^n \in Nat /\ 2^(n + 1) = 2 * 2^n
  <2> DEFINE S == SUBSET (1..n)
             T == {X \cup {n + 1} : X \in S}
             f == [X \in S |-> X \cup {n + 1}]
  <2>1. /\ IsFiniteSet(1..n) /\ Cardinality(1..n) = n
        /\ IsFiniteSet(1..(n + 1)) /\ Cardinality(1..(n + 1)) = n + 1
    BY FS_Interval
  <2>2. IsFiniteSet(S) /\ Cardinality(S) = 2^n /\ Cardinality(S) \in Nat
    BY <2>1, FS_SUBSET, FS_CardinalityType
  <2>3. Cardinality(SUBSET (1..(n + 1))) = 2^(n + 1)
    BY <2>1, FS_SUBSET
  <2>4. \A X \in S : n + 1 \notin X
    OBVIOUS
  <2>5. IsFiniteSet(T) /\ Cardinality(T) = Cardinality(S)
    <3>1. f \in [S -> T] /\ \A t \in T : \E X \in S : f[X] = t
      OBVIOUS
    <3>2. \A X, Y \in S : f[X] = f[Y] => X = Y
      BY <2>4
    <3>3. f \in Bijection(S, T)
      <4>1. f \in Injection(S, T)
        BY <3>1, <3>2 DEF Injection, IsInjective
      <4>2. f \in Surjection(S, T)
        BY <3>1 DEF Surjection
      <4>3. QED
        BY <4>1, <4>2 DEF Bijection
    <3>4. ExistsBijection(S, T)
      BY <3>3 DEF ExistsBijection
    <3>5. QED
      BY <2>2, <3>4, FS_Bijection
  <2>6. SUBSET (1..(n + 1)) = S \cup T
    <3>1. ASSUME NEW Y \in SUBSET (1..(n + 1)) PROVE Y \in S \cup T
      <4>1. CASE n + 1 \notin Y
        <5>1. Y \subseteq 1..n
          BY <4>1
        <5>2. QED
          BY <5>1
      <4>2. CASE n + 1 \in Y
        <5>1. Y \ {n + 1} \in S
          OBVIOUS
        <5>2. Y = (Y \ {n + 1}) \cup {n + 1}
          BY <4>2
        <5>3. QED
          BY <5>1, <5>2
      <4>3. QED
        BY <4>1, <4>2
    <3>2. ASSUME NEW X \in S PROVE X \subseteq 1..(n + 1) /\ X \cup {n + 1} \subseteq 1..(n + 1)
      OBVIOUS
    <3>3. ASSUME NEW Y \in S \cup T PROVE Y \in SUBSET (1..(n + 1))
      <4>1. CASE Y \in S
        BY <4>1, <3>2
      <4>2. CASE Y \in T
        <5>1. PICK X \in S : Y = X \cup {n + 1}
          BY <4>2
        <5>2. QED
          BY <5>1, <3>2
      <4>3. QED
        BY <4>1, <4>2
    <3> HIDE DEF S, T
    <3>4. QED
      BY <3>1, <3>3, Zenon
  <2>7. S \cap T = {}
    BY <2>4
  <2> HIDE DEF S, T
  <2>8. Cardinality(S \cup T) = Cardinality(S) + Cardinality(T) - 0
    BY <2>2, <2>5, <2>7, FS_Union, FS_EmptySet
  <2>9. Cardinality(S \cup T) = 2^(n + 1)
    BY <2>3, <2>6, Zenon
  <2>10. Cardinality(T) = 2^n /\ Cardinality(S) = 2^n /\ 2^n \in Nat
    BY <2>2, <2>5, Zenon
  <2>11. Cardinality(S \cup T) = 2^n + 2^n - 0
    BY <2>8, <2>10, Zenon
  <2>12. 2^n + 2^n - 0 = 2 * 2^n
    <3>1. \A k \in Nat : k + k - 0 = 2 * k
      OBVIOUS
    <3>2. QED
      BY <2>10, <3>1, Zenon
  <2>13. QED
    BY <2>9, <2>10, <2>11, <2>12, Zenon
<1>3. QED
  BY <1>1, <1>2

\* The sleep after n rounds that failed, and as many doublings.
Cap(x) == IF x > BackoffMax THEN BackoffMax ELSE x
After(n) == Cap(BackoffInitial * 2^n)

\* Doubling takes the backoff one failure further.
LEMMA DoubledIsNext ==
    ASSUME NEW n \in Nat, backoff = After(n)
    PROVE  Doubled = After(n + 1)
<1> DEFINE x == BackoffInitial * 2^n
<1>1. 2^n \in Nat /\ 2^(n + 1) = 2 * 2^n /\ BackoffInitial \in Nat /\ BackoffMax \in Nat
  BY Powers, BackoffAssumption
<1>2. x \in Nat /\ BackoffInitial * 2^(n + 1) = 2 * x
  <2>1. \A a, b \in Nat : a * b \in Nat /\ a * (2 * b) = 2 * (a * b)
    OBVIOUS
  <2>2. QED
    BY <1>1, <2>1
<1>3. backoff = Cap(x) /\ After(n + 1) = Cap(2 * x)
  BY <1>2 DEF After
<1> HIDE DEF x
<1>4. QED
  BY <1>1, <1>2, <1>3 DEF Cap, Doubled

\* The backoff counts the rounds that have failed in a row, and the timer was
\* set to what it was one round before.
BackoffInv ==
    /\ pc = "start" => fails = 0
    /\ fails < MaxFails => backoff = After(fails)
    /\ pc = "select" /\ connState = "Disconnected" /\ fails \in 1..(MaxFails - 1) =>
         sleep = After(fails - 1)

\* After n failed rounds Run sleeps 2^(n-1) times backoffInitial, at most
\* backoffMax, for any two of these; polling starts the count again.
THEOREM BackoffDoubles == Spec => []BackoffFollowsFailures
<1>1. Init => BackoffInv
  <2> SUFFICES ASSUME Init PROVE BackoffInv
    OBVIOUS
  <2>1. After(0) = BackoffInitial
    BY Powers, BackoffAssumption DEF After, Cap
  <2>2. QED
    BY <2>1 DEF Init, BackoffInv
<1>2. IInv /\ BackoffInv /\ [Next]_vars => BackoffInv'
  <2> SUFFICES ASSUME IInv, BackoffInv, [Next]_vars PROVE BackoffInv'
    OBVIOUS
  <2>1. CASE Schedule
    <3>1. fails \in 0..MaxFails /\ MaxFails \in Nat \ {0}
      BY MaxFailsAssumption DEF IInv, TypeOK
    <3>2. CASE connState = "Connected"
      <4>1. fails' = 0 /\ backoff' = BackoffInitial /\ pc' = "select" /\ connState' = "Connected"
        BY <2>1, <3>2 DEF Schedule, stateVars
      <4>2. After(0) = BackoffInitial
        BY Powers, BackoffAssumption DEF After, Cap
      <4>3. QED
        BY <4>1, <4>2 DEF BackoffInv
    <3>3. CASE connState = "Disconnected"
      <4>1. /\ sleep' = backoff /\ backoff' = Doubled /\ pc' = "select"
            /\ fails' = (IF fails < MaxFails THEN fails + 1 ELSE fails)
        BY <2>1, <3>3 DEF Schedule
      <4>2. CASE fails < MaxFails
        <5>1. backoff = After(fails) /\ fails \in Nat /\ fails' = fails + 1
          BY <3>1, <4>1, <4>2 DEF BackoffInv
        <5>2. backoff' = After(fails')
          BY <4>1, <5>1, DoubledIsNext
        <5>3. sleep' = After(fails' - 1)
          <6>1. fails' - 1 = fails
            BY <5>1
          <6>2. QED
            BY <4>1, <5>1, <6>1
        <5>4. QED
          BY <4>1, <5>2, <5>3 DEF BackoffInv, After, Cap
      <4>3. CASE ~(fails < MaxFails)
        BY <3>1, <4>1, <4>3 DEF BackoffInv
      <4>4. QED
        BY <4>2, <4>3
    <3>4. CASE connState = "Failed"
      BY <2>1, <3>4 DEF Schedule, BackoffInv, After, Cap
    <3>5. QED
      BY <2>1, <3>2, <3>3, <3>4 DEF Schedule
  <2>2. CASE Start
    <3>1. fails' = 0 /\ backoff' = backoff /\ pc' # "start" /\ fails = 0
      BY <2>2 DEF Start, BackoffInv
    <3>2. QED
      BY <3>1 DEF BackoffInv, After, Cap
  <2>3. CASE Cancel \/ HttpRead \/ Disconnect \/ Calm \/ (\E d \in Devices \cup {None} : Replace(d))
             \/ UNCHANGED vars
    <3>1. UNCHANGED <<pc, backoff, sleep, fails, connState>>
      BY <2>3 DEF Cancel, HttpRead, Disconnect, Calm, Replace, vars, runVars, stateVars
    <3>2. QED
      BY <3>1 DEF BackoffInv, After, Cap
  <2>4. CASE \/ WaitDone \/ SelectDone \/ TimerFires \/ ConnectOk \/ ConnectFails \/ GetInfo
             \/ Verify \/ StoreIdentity \/ UpdateIdentity \/ PurgeBadSamples
             \/ VerifyFails \/ Check \/ PollOk \/ PollMore \/ PollFails \/ Insert
             \/ FailedDone
    <3>1. UNCHANGED <<backoff, sleep, fails>> /\ pc' \notin {"select", "start"}
      BY <2>4 DEF WaitDone, SelectDone, TimerFires, ConnectOk, ConnectFails, GetInfo, Verify,
                  StoreIdentity, UpdateIdentity, PurgeBadSamples, VerifyFails, Check, PollOk, PollMore, PollFails, Insert, FailedDone
    <3>2. QED
      BY <3>1 DEF BackoffInv, After, Cap
  <2>5. CASE Restart
    <3>1. fails' = 0 /\ backoff' = BackoffInitial /\ pc' = "start"
      BY <2>5 DEF Restart
    <3>2. After(0) = BackoffInitial
      BY Powers, BackoffAssumption DEF After, Cap
    <3>3. QED
      BY <3>1, <3>2 DEF BackoffInv
  <2>6. QED
    BY <2>1, <2>2, <2>3, <2>4, <2>5 DEF Next, Run, Environment
<1>3. BackoffInv => BackoffFollowsFailures
  BY DEF BackoffInv, After, Cap, BackoffFollowsFailures
<1>4. QED
  BY Invariance, <1>1, <1>2, <1>3, PTL DEF Spec
=============================================================================
