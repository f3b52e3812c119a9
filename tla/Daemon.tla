------------------------------- MODULE Daemon -------------------------------
(***************************************************************************)
(* The poll loop of pkg/daemon/daemon.go: Run, doConnect, verifyIdentity   *)
(* and doPoll, with the inverter on the other end of the transport and the *)
(* HTTP handlers that read through the same transport.  The process may    *)
(* die at any step and be started again over the same database.            *)
(*                                                                         *)
(* What matters of the transport here is which device a read reaches.      *)
(* link is the device behind the open connection.  A read over a lost or   *)
(* closed connection dials again by itself (ReadRegisters, see Transport), *)
(* and so reaches whatever device has the address by then.                 *)
(*                                                                         *)
(* A device is named by the serial number in its registers.  The serial    *)
(* the discovery probe reported at startup, which GetInfo falls back to,   *)
(* is a string of its own and may be that of the device or not.            *)
(***************************************************************************)
EXTENDS Integers, FiniteSets

CONSTANTS
    Devices,         \* inverters that may answer at the address
    ProbeSerials,    \* the serials discovery may report (ETInverter.serial)
    Stores,          \* whether there is a database: a set of Booleans to try
    PollIntervals,   \* values of -poll to try, in seconds; 0 turns polling off
    BackoffInitial,  \* backoffInitial, in seconds
    BackoffMax,      \* backoffMax, in seconds
    MaxFails,        \* bound: the failed rounds counted one by one
    None             \* no device, no serial

ASSUME NoneAssumption == None \notin Devices \cup ProbeSerials
ASSUME FlagsAssumption == Stores \subseteq BOOLEAN /\ PollIntervals \subseteq Nat
ASSUME BackoffAssumption ==
    /\ BackoffInitial \in Nat \ {0} /\ BackoffMax \in Nat
    /\ BackoffInitial <= BackoffMax
ASSUME MaxFailsAssumption == MaxFails \in Nat \ {0}

Serials == Devices \cup ProbeSerials

\* Info and the identity's row: the serial, and whose registers the other
\* fields are from, None for empty ones.
Info(serial, details) == [serial |-> serial, details |-> details]

VARIABLES
    conf,             \* the inverter, its probe's serial, store and pollInterval given to New
    pc,               \* where Run is
    cancelled,        \* ctx.Done is closed
    connState, connErr, verificationErr,   \* the fields of Daemon
    backoff,          \* the local backoff of Run
    sleep,            \* what the timer was last reset to
    info,             \* the result of the last GetInfo
    batch,            \* the devices the sensors of this poll were read from
    identities,       \* the rows of inverter_identity
    origins,          \* the devices sensor_samples holds samples of
    device,           \* the device that answers at the address now
    link,             \* the device behind the transport's connection
    fails,            \* rounds failed in a row (history)
    calm,             \* nothing fails from now on (environment)
    swapped           \* GetInfo did not reach the device that answers now (history)

runVars == <<pc, backoff, sleep, info, batch, fails>>
stateVars == <<connState, connErr, verificationErr>>
dbVars == <<identities, origins>>
envVars == <<device, calm, conf, swapped>>
vars == <<runVars, stateVars, dbVars, envVars, cancelled, link>>

HasInverter == conf.inverter
HasStore == conf.store
PollInterval == conf.pollInterval

TypeOK ==
    /\ conf \in [inverter: BOOLEAN, probe: ProbeSerials, store: BOOLEAN, pollInterval: Nat]
    /\ pc \in {"start", "wait", "select", "connect", "info", "verify", "store", "update",
               "purge", "check", "poll", "more", "insert", "schedule", "failed", "returned"}
    /\ cancelled \in BOOLEAN /\ connErr \in BOOLEAN /\ verificationErr \in BOOLEAN
    /\ connState \in {"Disabled", "Disconnected", "Connecting", "Connected", "Failed"}
    /\ backoff \in BackoffInitial..BackoffMax
    /\ sleep \in (BackoffInitial..BackoffMax) \cup {0, PollInterval}
    /\ info \in [serial: Serials \cup {None}, details: Devices \cup {None}]
    /\ identities \subseteq [serial: Serials, details: Devices \cup {None}]
    /\ batch \subseteq Devices /\ origins \subseteq Devices
    /\ device \in Devices \cup {None} /\ link \in Devices \cup {None}
    /\ fails \in 0..MaxFails /\ calm \in BOOLEAN /\ swapped \in BOOLEAN

\* New at the first start, with the identity that an earlier release may have stored.
Init ==
    /\ conf \in [inverter: BOOLEAN, probe: ProbeSerials, store: Stores,
                 pollInterval: PollIntervals]
    /\ pc = "start" /\ cancelled = FALSE
    /\ connState = IF HasInverter THEN "Disconnected" ELSE "Disabled"
    /\ connErr = FALSE /\ verificationErr = FALSE
    /\ backoff = BackoffInitial /\ sleep = 0
    /\ info = Info(None, None) /\ batch = {}
    /\ \/ identities = {}
       \/ HasStore /\ \E d \in Devices : identities = {Info(d, d)}
    /\ origins = {}
    /\ device \in Devices /\ link = None
    /\ fails = 0 /\ calm = FALSE /\ swapped = TRUE

-----------------------------------------------------------------------------

\* setState.
SetState(s, err) ==
    /\ connState' = s /\ connErr' = err
    /\ UNCHANGED verificationErr

\* A ReadRegisters that succeeds reads from device d, over the connection
\* there is or over a new one.
ReadsFrom(d) ==
    /\ device # None
    /\ d = IF link # None THEN link ELSE device
    /\ link' = d

\* Calls may fail as long as the world is not calm, and once the context is
\* done.
Faulty == ~calm \/ cancelled

\* A ReadRegisters that fails leaves the connection there is, or none.
ReadFails == Faulty /\ link' \in {link, None}

\* The prologue of Run, up to the first select.  The timer fires at once.
Start ==
    /\ pc = "start"
    /\ \/ ~HasInverter /\ SetState("Disabled", FALSE) /\ pc' = "wait"
       \/ HasInverter /\ PollInterval = 0 /\ SetState("Disconnected", FALSE) /\ pc' = "wait"
       \/ HasInverter /\ PollInterval > 0 /\ SetState("Disconnected", FALSE) /\ pc' = "select"
    /\ UNCHANGED <<backoff, sleep, info, batch, fails, dbVars, envVars, cancelled, link>>

\* Nothing to poll: Run waits for the context.
WaitDone ==
    /\ pc = "wait" /\ cancelled
    /\ pc' = "returned"
    /\ UNCHANGED <<backoff, sleep, info, batch, fails, stateVars, dbVars, envVars, cancelled, link>>

\* select takes ctx.Done: close the connection and return.
SelectDone ==
    /\ pc = "select" /\ cancelled
    /\ link' = None
    /\ pc' = "returned"
    /\ UNCHANGED <<backoff, sleep, info, batch, fails, stateVars, dbVars, envVars, cancelled>>

\* Mutant of TimerFires: a lost connection is not made again.
TimerFiresConnected ==
    /\ pc = "select" /\ connState = "Connected"
    /\ pc' = "poll"
    /\ UNCHANGED <<backoff, sleep, info, batch, fails, stateVars, dbVars, envVars, cancelled, link>>

\* select takes the timer.
TimerFires ==
    /\ pc = "select"
    /\ \/ connState = "Disconnected" /\ SetState("Connecting", FALSE) /\ pc' = "connect"
       \/ connState = "Connected" /\ UNCHANGED stateVars /\ pc' = "poll"
    /\ UNCHANGED <<backoff, sleep, info, batch, fails, dbVars, envVars, cancelled, link>>

-----------------------------------------------------------------------------
(* doConnect and verifyIdentity.                                           *)

ConnectOk ==
    /\ pc = "connect" /\ device # None
    /\ link' = device
    /\ pc' = "info"
    /\ UNCHANGED <<backoff, sleep, info, batch, fails, stateVars, dbVars, envVars, cancelled>>

ConnectFails ==
    /\ pc = "connect" /\ (Faulty \/ device = None)
    /\ link' = None
    /\ SetState("Disconnected", TRUE)
    /\ pc' = "schedule"
    /\ UNCHANGED <<backoff, sleep, info, batch, fails, dbVars, envVars, cancelled>>

\* ETInverter.GetInfo never fails: when it cannot read the registers it
\* reports the serial of the probe and nothing else.
GetInfo ==
    /\ pc = "info"
    /\ \/ \E d \in Devices : ReadsFrom(d) /\ info' = Info(d, d) /\ swapped' = FALSE
       \/ ReadFails /\ info' = Info(conf.probe, None) /\ swapped' = TRUE
    /\ pc' = "verify"
    /\ UNCHANGED <<backoff, sleep, batch, fails, stateVars, dbVars, device, calm, conf, cancelled>>

\* The rows that GetInverterIdentity takes the first of.
GetInverterIdentity == IF HasStore THEN identities ELSE {}

\* INSERT, or UPDATE of the row with this serial.
SetInverterIdentity == identities' = {r \in identities : r.serial # info.serial} \cup {info}

\* Mutant of Verify: a replaced inverter is taken over.
VerifyAdopts ==
    /\ pc = "verify"
    /\ pc' = IF ~HasStore THEN "check" ELSE IF identities = {} THEN "store" ELSE "update"
    /\ UNCHANGED <<backoff, sleep, info, batch, fails, stateVars, dbVars, envVars, cancelled, link>>

\* verifyIdentity reads the stored identity: none yet, this one, or another,
\* which sets verificationErr, and nothing ever clears that.
Verify ==
    /\ pc = "verify"
    /\ \/ ~HasStore /\ pc' = "check" /\ UNCHANGED verificationErr
       \/ HasStore /\ GetInverterIdentity = {} /\ pc' = "store" /\ UNCHANGED verificationErr
       \/ \E row \in GetInverterIdentity :
            \/ row.serial = info.serial /\ pc' = "update" /\ UNCHANGED verificationErr
            \/ row.serial # info.serial /\ pc' = "check" /\ verificationErr' = TRUE
    /\ UNCHANGED <<backoff, sleep, info, batch, fails, connState, connErr, dbVars, envVars,
                   cancelled, link>>

\* The first identity is stored.
StoreIdentity ==
    /\ pc = "store"
    /\ SetInverterIdentity
    /\ pc' = "purge"
    /\ UNCHANGED <<backoff, sleep, info, batch, fails, stateVars, origins, envVars, cancelled, link>>

\* The row of the same serial is written anew; an error is only logged.
UpdateIdentity ==
    /\ pc = "update"
    /\ SetInverterIdentity \/ (Faulty /\ UNCHANGED identities)
    /\ pc' = "purge"
    /\ UNCHANGED <<backoff, sleep, info, batch, fails, stateVars, origins, envVars, cancelled, link>>

\* Samples out of range are deleted, maybe the last ones of a device.
PurgeBadSamples ==
    /\ pc = "purge"
    /\ origins' \in SUBSET origins
    /\ pc' = "check"
    /\ UNCHANGED <<backoff, sleep, info, batch, fails, stateVars, identities, envVars, cancelled,
                   link>>

\* The stored identity cannot be read, or the first one not be written.
VerifyFails ==
    /\ pc \in {"verify", "store"} /\ HasStore /\ Faulty
    /\ link' = None
    /\ SetState("Disconnected", TRUE)
    /\ pc' = "schedule"
    /\ UNCHANGED <<backoff, sleep, info, batch, fails, dbVars, envVars, cancelled>>

\* Mutant of Check: the mismatch is only logged.
CheckIgnored ==
    /\ pc = "check"
    /\ SetState("Connected", FALSE) /\ pc' = "poll"
    /\ UNCHANGED <<backoff, sleep, info, batch, fails, dbVars, envVars, cancelled, link>>

\* Mutant of Check: the state fails without its error.
CheckNoError ==
    /\ pc = "check"
    /\ \/ verificationErr /\ SetState("Failed", FALSE) /\ pc' = "schedule"
       \/ ~verificationErr /\ SetState("Connected", FALSE) /\ pc' = "poll"
    /\ UNCHANGED <<backoff, sleep, info, batch, fails, dbVars, envVars, cancelled, link>>

\* The end of doConnect; Run polls at once when it has connected.
Check ==
    /\ pc = "check"
    /\ \/ verificationErr /\ SetState("Failed", TRUE) /\ pc' = "schedule"
       \/ ~verificationErr /\ SetState("Connected", FALSE) /\ pc' = "poll"
    /\ UNCHANGED <<backoff, sleep, info, batch, fails, dbVars, envVars, cancelled, link>>

-----------------------------------------------------------------------------
(* doPoll.                                                                 *)

\* GetSensors reads the main block.
PollOk ==
    /\ pc = "poll"
    /\ \E d \in Devices : ReadsFrom(d) /\ batch' = {d}
    /\ pc' = "more"
    /\ UNCHANGED <<backoff, sleep, info, fails, stateVars, dbVars, envVars, cancelled>>

\* GetSensors reads the battery, meter and MPPT blocks, here one for all: a
\* block that cannot be read is left out.
PollMore ==
    /\ pc = "more"
    /\ \/ \E d \in Devices : ReadsFrom(d) /\ batch' = batch \cup {d}
       \/ (Faulty \/ device = None) /\ link' \in {link, None} /\ UNCHANGED batch
    /\ pc' = "insert"
    /\ UNCHANGED <<backoff, sleep, info, fails, stateVars, dbVars, envVars, cancelled>>

\* GetSensors fails in the main block, or finds the context done later on.
PollFails ==
    /\ \/ pc = "poll" /\ (Faulty \/ device = None)
       \/ pc = "more" /\ cancelled
    /\ link' = None
    /\ SetState("Disconnected", TRUE)
    /\ pc' = "schedule"
    /\ UNCHANGED <<backoff, sleep, info, batch, fails, dbVars, envVars, cancelled>>

\* Every sensor is inserted by a statement of its own, and one that fails is
\* skipped.
Insert ==
    /\ pc = "insert"
    /\ \E written \in SUBSET batch :
         /\ Faulty \/ written = batch
         /\ origins' = IF HasStore THEN origins \cup written ELSE origins
    /\ pc' = "schedule"
    /\ UNCHANGED <<backoff, sleep, info, batch, fails, stateVars, identities, envVars, cancelled, link>>

-----------------------------------------------------------------------------

\* Mutant of Doubled: no upper limit.
DoubledUncapped == 2 * backoff

Doubled == IF 2 * backoff > BackoffMax THEN BackoffMax ELSE 2 * backoff

\* Mutant of Schedule: reconnecting does not reset the backoff.
ScheduleNoReset ==
    /\ pc = "schedule"
    /\ \/ connState = "Connected" /\ sleep' = PollInterval /\ fails' = 0
          /\ UNCHANGED backoff /\ pc' = "select"
       \/ connState = "Disconnected" /\ sleep' = backoff /\ backoff' = Doubled
          /\ fails' = (IF fails < MaxFails THEN fails + 1 ELSE fails) /\ pc' = "select"
       \/ connState = "Failed" /\ UNCHANGED <<sleep, backoff, fails>> /\ pc' = "failed"
    /\ UNCHANGED <<info, batch, stateVars, dbVars, envVars, cancelled, link>>

\* The end of a round of Run.
Schedule ==
    /\ pc = "schedule"
    /\ \/ connState = "Connected" /\ sleep' = PollInterval /\ fails' = 0
          /\ backoff' = BackoffInitial /\ pc' = "select"
       \/ connState = "Disconnected" /\ sleep' = backoff /\ backoff' = Doubled
          /\ fails' = (IF fails < MaxFails THEN fails + 1 ELSE fails) /\ pc' = "select"
       \/ connState = "Failed" /\ UNCHANGED <<sleep, backoff, fails>> /\ pc' = "failed"
    /\ UNCHANGED <<info, batch, stateVars, dbVars, envVars, cancelled, link>>

\* Mutant of FailedDone: the goroutine parks for good.
FailedDoneNever == FALSE /\ UNCHANGED vars

\* After a mismatch Run waits for the context and returns, the connection
\* still open.
FailedDone ==
    /\ pc = "failed" /\ cancelled
    /\ pc' = "returned"
    /\ UNCHANGED <<backoff, sleep, info, batch, fails, stateVars, dbVars, envVars, cancelled, link>>

-----------------------------------------------------------------------------
(* The rest of the process, and the world.                                 *)

\* A signal.
Cancel ==
    /\ ~cancelled
    /\ cancelled' = TRUE
    /\ UNCHANGED <<runVars, stateVars, dbVars, envVars, link>>

\* handleGetData reads a sensor whatever the state of the daemon, and so may
\* open a connection.
HttpRead ==
    /\ HasInverter /\ link = None
    /\ \E d \in Devices : ReadsFrom(d)
    /\ UNCHANGED <<runVars, stateVars, dbVars, envVars, cancelled>>

\* The device at the address goes away, comes back, or is replaced; the
\* connection to it is lost.
Replace(d) ==
    /\ ~calm /\ d # device
    /\ device' = d /\ link' = None /\ swapped' = TRUE
    /\ UNCHANGED <<runVars, stateVars, dbVars, cancelled, calm, conf>>

\* The process ends or dies, wherever Run is, and is started again with the
\* same flags: a new discovery, New, and the database as it is.
Restart ==
    /\ ~calm
    /\ \E serial \in ProbeSerials : conf' = [conf EXCEPT !.probe = serial]
    /\ pc' = "start" /\ cancelled' = FALSE
    /\ connState' = IF HasInverter THEN "Disconnected" ELSE "Disabled"
    /\ connErr' = FALSE /\ verificationErr' = FALSE
    /\ backoff' = BackoffInitial /\ sleep' = 0
    /\ info' = Info(None, None) /\ batch' = {} /\ fails' = 0
    /\ link' = None /\ swapped' = TRUE
    /\ UNCHANGED <<dbVars, device, calm>>

\* The network drops the connection.
Disconnect ==
    /\ ~calm /\ link # None
    /\ link' = None
    /\ UNCHANGED <<runVars, stateVars, dbVars, envVars, cancelled>>

Calm ==
    /\ ~calm /\ device # None
    /\ calm' = TRUE
    /\ UNCHANGED <<runVars, stateVars, dbVars, device, conf, swapped, cancelled, link>>

-----------------------------------------------------------------------------

Run ==
    \/ Start \/ WaitDone \/ SelectDone \/ TimerFires
    \/ ConnectOk \/ ConnectFails \/ GetInfo \/ Verify \/ StoreIdentity
    \/ UpdateIdentity \/ PurgeBadSamples \/ VerifyFails \/ Check
    \/ PollOk \/ PollMore \/ PollFails \/ Insert
    \/ Schedule \/ FailedDone

Environment ==
    \/ Cancel \/ HttpRead \/ Disconnect \/ Calm \/ Restart
    \/ \E d \in Devices \cup {None} : Replace(d)

\* Run has returned; the process lives on until main ends it.
Next == Run \/ Environment \/ (pc = "returned" /\ UNCHANGED vars)

Spec == Init /\ [][Next]_vars

\* The goroutine of Run is scheduled, its timer fires, every call it makes
\* has a deadline; and select, which chooses at random, takes ctx.Done in the
\* end.
Fairness == WF_vars(Run) /\ SF_vars(SelectDone)

FairSpec == Spec /\ Fairness

-----------------------------------------------------------------------------
(* Properties.                                                             *)

\* A state "Connected" that /api/health reports never hides a mismatch, and a
\* mismatch alone makes the state "Failed".
StatesAgree ==
    /\ connState = "Connected" => ~verificationErr
    /\ connState = "Failed" => verificationErr /\ connErr
    /\ pc = "select" => connState \in {"Disconnected", "Connected"}

\* Once another serial has been seen, this process stores no sample again, by
\* whatever way Run reconnects, and the mismatch stays reported.
MismatchIsFinal ==
    [][verificationErr => origins' = origins /\ (verificationErr' \/ pc' = "start")]_vars

\* The identity in the database is the first one ever verified: although its
\* row is written anew at every connect, and the process may die between reading
\* and writing it or the write fail, there is never a second row, nor one of
\* another serial.
IdentityKept ==
    [][/\ Cardinality(identities') <= 1
       /\ \A row \in identities : \E new \in identities' : new.serial = row.serial]_vars

\* A sample of a device other than the stored one gets into the database only
\* when the device was replaced behind a connection the daemon had verified,
\* since ReadRegisters dials again without doConnect, or when GetInfo had
\* fallen back to the serial of the probe; never after a GetInfo that has read
\* that device's serial.
ForeignOnlyAfterSwap ==
    [][\A row \in GetInverterIdentity : row.serial \in Devices =>
        \A d \in origins' \ origins : d = row.serial \/ swapped]_vars

\* After n failed rounds in a row Run sleeps 2^(n-1) times backoffInitial, at
\* most backoffMax; a round that polls starts the count again ("5s initial,
\* 5min max, reset on poll success", TODO.md).
BackoffFollowsFailures ==
    pc = "select" /\ connState = "Disconnected" /\ fails \in 1..(MaxFails - 1) =>
        sleep = IF BackoffInitial * 2^(fails - 1) > BackoffMax
                THEN BackoffMax ELSE BackoffInitial * 2^(fails - 1)

\* Connected means "connected and identity verified" (handler.go): the device
\* on the other end has the stored serial (when that is a register serial).
ConnectedIsVerified ==
    connState = "Connected" /\ link # None =>
        \A row \in GetInverterIdentity : row.serial \in Devices => link = row.serial

\* "ConnError() error // nil unless state is Failed" (handler.go).
ConnErrorOnlyIfFailed == connErr => connState = "Failed"

\* verificationErr is "set when inverter serial doesn't match DB": as long as
\* one and the same device answers, it stays unset.
NoFalseMismatch == (\A d, e \in Devices : d = e) => ~verificationErr

\* Cancelling the context makes Run return, unless the process dies before.
CancelStopsRun == cancelled ~> (pc = "returned" \/ ~cancelled)

\* Once nothing fails any more, Run goes back to storing polls and keeps doing
\* so, unless it is cancelled or the serial does not match.
PollingResumes ==
    calm ~> (connState = "Failed" \/ cancelled \/ pc \in {"insert", "wait"})
=============================================================================
