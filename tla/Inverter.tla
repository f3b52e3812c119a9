------------------------------ MODULE Inverter ------------------------------
(***************************************************************************)
(* discovery/discover.go and the operations of ETInverter (et/et.go):      *)
(* Discover, GetInfo, GetSensors and ReadSensor, register block by         *)
(* register block.  A transaction is atomic here and reaches the device    *)
(* (Transport has its parts).                                              *)
(*                                                                         *)
(* What the device is does not change: the registers it serves, what is in *)
(* them, and what the dongle answers to the discovery probe.               *)
(***************************************************************************)
EXTENDS Registry, FiniteSets

CONSTANTS
    Devices,     \* the devices to try, see DeviceAssumption
    Probes,      \* the answers of the dongle to try, see ProbeAssumption
    ETSerials,   \* the serials that have one of isETModel's tags
    NoSerial,    \* the empty serial
    Unknown,     \* a sensor name that is in no registry
    NoValue      \* the empty SensorValue

ASSUME DeviceAssumption == \A d \in Devices :
    /\ d.served \in [main: {125}, battery: {0, 24}, meter: {0, 45, 58, 125}, mppt: {0, 61}]
    /\ DOMAIN d.words = DOMAIN Count
    /\ \A b \in DOMAIN d.words : DOMAIN d.words[b] \subseteq Nat /\ \A i \in DOMAIN d.words[b] : d.words[b][i] \in Word
    /\ d.rated \in Nat /\ d.model \in BOOLEAN
ASSUME ProbeAssumption == \A p \in Probes :
    p.busy \in BOOLEAN /\ p.dtls \in BOOLEAN
ASSUME NamesAssumption == NoSerial \notin ETSerials /\ Unknown \notin Names
ASSUME ValueAssumption == NoValue \notin [num: Int] /\ NoValue \notin [text: SUBSET Int]

VARIABLES
    device, dongle,  \* of Devices and Probes
    inv,        \* the ETInverter that Discover returned: serial and transport
    cancelled,  \* the context of the caller is done
    op, step,   \* the operation under way and where it is
    failed,     \* a transaction of it failed (history)
    readings,   \* what GetSensors has decoded so far
    info,       \* what the last GetInfo returned
    bulk,       \* what the last GetSensors returned
    single      \* what the last ReadSensor since then was asked for and returned

deviceVars == <<device, dongle>>
answerVars == <<info, bulk, single>>
inverterVars == <<deviceVars, inv, cancelled, op, step, failed, readings, answerVars>>

NoInverter == [serial |-> NoSerial, transport |-> "none"]
NoInfo == [serial |-> NoSerial, model |-> "", rated |-> 0]
NoReadings == [s \in {} |-> Num(0)]
NoBulk == [readings |-> NoReadings, error |-> TRUE, failed |-> TRUE]
NoSingle == [name |-> Unknown, value |-> NoValue, error |-> TRUE, failed |-> TRUE]

InverterInit ==
    /\ device \in Devices /\ dongle \in Probes
    /\ inv = NoInverter /\ cancelled = FALSE
    /\ op = "none" /\ step = "none" /\ failed = FALSE
    /\ readings = NoReadings
    /\ info = NoInfo /\ bulk = NoBulk /\ single = NoSingle

-----------------------------------------------------------------------------
(* Discovery.                                                              *)

\* parseProbeResponse and isETModel: a busy dongle, a TCP answer without a
\* serial, a serial without a known tag.
Rejected(p) == p.busy \/ (~p.dtls /\ p.serial = NoSerial) \/ p.serial \notin ETSerials

\* Discover: the probe is answered, and what it announces decides on the
\* transport.
DiscoverOk ==
    /\ ~Rejected(dongle)
    /\ inv' = [serial |-> dongle.serial, transport |-> IF dongle.dtls THEN "dtls" ELSE "tcp"]

\* Discover: the answer is rejected, or there is none in time, which may
\* happen with any dongle.
DiscoverFails == UNCHANGED inv

\* The caller gives up.
Cancel ==
    /\ ~cancelled /\ cancelled' = TRUE
    /\ UNCHANGED <<deviceVars, inv, op, step, failed, readings, answerVars>>

-----------------------------------------------------------------------------
(* Calls.  Each is a sequence of transactions, and only a discovered       *)
(* inverter can be called.                                                 *)

Idle == op = "none"

Call(o, first) ==
    /\ Idle /\ inv # NoInverter
    /\ op' = o /\ step' = first /\ failed' = FALSE /\ readings' = NoReadings
    /\ UNCHANGED <<deviceVars, inv, cancelled>>

CallGetInfo == Call("GetInfo", "info") /\ UNCHANGED answerVars
CallGetSensors ==
    Call("GetSensors", "main") /\ bulk' = NoBulk /\ single' = NoSingle /\ UNCHANGED info

\* A name that sensorLookup does not have is an error at once.
CallReadSensor(s) ==
    \/ s \in Names
       /\ Call("ReadSensor", Registers[s].block)
       /\ single' = [name |-> s, value |-> NoValue, error |-> FALSE, failed |-> FALSE]
       /\ UNCHANGED <<info, bulk>>
    \/ s \notin Names /\ Idle /\ inv # NoInverter
       /\ single' = [name |-> s, value |-> NoValue, error |-> TRUE, failed |-> FALSE]
       /\ UNCHANGED <<deviceVars, inv, cancelled, op, step, failed, readings, info, bulk>>

Returns == op' = "none" /\ step' = "none" /\ failed' = FALSE /\ readings' = NoReadings

\* The n registers that a transaction over a block gets.
Block(b, n) ==
    [i \in 1..n |-> IF i - 1 \in DOMAIN device.words[b] THEN device.words[b][i - 1] ELSE 0]

\* Modbus exception 0x02: the block is not there, or not that long.
IllegalDataAddress(b, n) == n > device.served[b]

\* The meter block is tried with 125, 58 and 45 registers.
Quantity == Over(Count, [meter58 |-> 58, meter45 |-> 45])
BlockAt == Over([b \in DOMAIN Count |-> b], [meter58 |-> "meter", meter45 |-> "meter"])

-----------------------------------------------------------------------------
(* GetInfo.                                                                *)

\* The name registers are blank on some models; the name is then made of the
\* rated power.
ModelName ==
    IF device.model THEN "name" ELSE IF device.rated \div 1000 > 0 THEN "GW-ET" ELSE ""

\* A failed read, or a short answer, is no error: the answer is then the
\* serial of the probe and nothing else.
GetInfo ==
    /\ op = "GetInfo" /\ Returns
    /\ \/ info' = [serial |-> device.serial, model |-> ModelName, rated |-> device.rated]
       \/ info' = [NoInfo EXCEPT !.serial = inv.serial]
    /\ UNCHANGED <<deviceVars, inv, cancelled, bulk, single>>

-----------------------------------------------------------------------------
(* GetSensors.  step is the block it reads next.                           *)

\* On to the next block, or back with what there is.
Proceed(next, read, fails) ==
    IF next = "done"
    THEN Returns /\ bulk' = [readings |-> read, error |-> FALSE, failed |-> fails]
    ELSE op' = op /\ step' = next /\ readings' = read /\ failed' = fails /\ UNCHANGED bulk

ReturnsError == Returns /\ bulk' = NoBulk

\* The sensors of a block are decoded, unless the context is done.  (What is
\* returned with its error, nobody looks at.)
Decode(b, n, next) ==
    /\ ~IllegalDataAddress(b, n)
    /\ IF cancelled THEN ReturnsError
       ELSE LET data == Block(b, n)
            IN Proceed(next, Over([s \in SensorsOf(b) |-> Calculator(s, data)], readings), failed)

ReadMain ==
    /\ op = "GetSensors" /\ step = "main"
    /\ Decode("main", Quantity.main, "battery") \/ ReturnsError
    /\ UNCHANGED <<deviceVars, inv, cancelled, info, single>>

\* A block that the device does not have, and one that cannot be read, is
\* left out.
ReadBattery ==
    /\ op = "GetSensors" /\ step = "battery"
    /\ \/ Decode("battery", Quantity.battery, "meter")
       \/ IllegalDataAddress("battery", Quantity.battery) /\ Proceed("meter", readings, failed)
       \/ Proceed("meter", readings, TRUE)
    /\ UNCHANGED <<deviceVars, inv, cancelled, info, single>>

\* Mutant of Smaller: no second fallback.
SmallerOnce(b) == IF b = "meter" THEN "meter58" ELSE "none"

\* The quantity to try when the device does not have so many registers.
Smaller(b) == CASE b = "meter" -> "meter58" [] b = "meter58" -> "meter45" [] OTHER -> "none"

ReadMeter ==
    /\ op = "GetSensors" /\ step \in {"meter", "meter58", "meter45"}
    /\ \/ Decode("meter", Quantity[step], "mppt")
       \/ /\ IllegalDataAddress("meter", Quantity[step])
          /\ Proceed(IF Smaller(step) = "none" THEN "mppt" ELSE Smaller(step), readings, failed)
       \/ Proceed("mppt", readings, TRUE)
    /\ UNCHANGED <<deviceVars, inv, cancelled, info, single>>

ReadMPPT ==
    /\ op = "GetSensors" /\ step = "mppt"
    /\ \/ Decode("mppt", Quantity.mppt, "done")
       \/ IllegalDataAddress("mppt", Quantity.mppt) /\ Proceed("done", readings, failed)
       \/ Proceed("done", readings, TRUE)
    /\ UNCHANGED <<deviceVars, inv, cancelled, info, single>>

-----------------------------------------------------------------------------
(* ReadSensor.  step is the block of the sensor, and the quantity.         *)

\* Mutant of ReadSensorSmaller: the fallback of ReadSensor stops at 58.
ReadSensorSmallerOnce(b) == IF b = "meter" THEN "meter58" ELSE "none"

\* fallbackQty, and the second fallback behind it.
ReadSensorSmaller(b) ==
    CASE b = "meter" -> "meter58" [] b = "meter58" -> "meter45" [] OTHER -> "none"

ReadSensorOk ==
    /\ ~IllegalDataAddress(BlockAt[step], Quantity[step])
    /\ single' = [single EXCEPT
         !.value = Calculator(single.name, Block(BlockAt[step], Quantity[step]))]
    /\ Returns

ReadSensorFallback ==
    /\ IllegalDataAddress(BlockAt[step], Quantity[step])
    /\ ReadSensorSmaller(step) # "none"
    /\ step' = ReadSensorSmaller(step)
    /\ UNCHANGED <<op, failed, readings, single>>

ReadSensorAbsent ==
    /\ IllegalDataAddress(BlockAt[step], Quantity[step])
    /\ ReadSensorSmaller(step) = "none"
    /\ single' = [single EXCEPT !.error = TRUE]
    /\ Returns

ReadSensorFails ==
    /\ single' = [single EXCEPT !.error = TRUE, !.failed = TRUE]
    /\ Returns

ReadSensor ==
    /\ op = "ReadSensor"
    /\ ReadSensorOk \/ ReadSensorFallback \/ ReadSensorAbsent \/ ReadSensorFails
    /\ UNCHANGED <<deviceVars, inv, cancelled, info, bulk>>

Transaction == GetInfo \/ ReadMain \/ ReadBattery \/ ReadMeter \/ ReadMPPT \/ ReadSensor

-----------------------------------------------------------------------------
(* Properties.                                                             *)

\* A sensor that was read alone has the value that it has among all sensors,
\* and it cannot be read alone exactly when its block is missing there: the
\* fallbacks of ReadSensor and of GetSensors, which are written twice
\* (et.go), lead to the same registers.
SingleAgreesWithBulk ==
    (~bulk.failed /\ ~single.failed /\ op # "ReadSensor" /\ single.name \in Names) =>
        IF single.name \in DOMAIN bulk.readings
        THEN ~single.error /\ single.value = bulk.readings[single.name]
        ELSE single.error

\* GetSensors leaves out a block only if the device does not have it at any
\* of the lengths in use, or a transaction failed, and never a part of it.
NoBlockLost == ~bulk.error =>
    /\ \A b \in DOMAIN Count :
         SensorsOf(b) \subseteq DOMAIN bulk.readings \/ SensorsOf(b) \cap DOMAIN bulk.readings = {}
    /\ SensorsOf("main") \subseteq DOMAIN bulk.readings
    /\ ~bulk.failed => \A b \in DOMAIN Count :
         device.served[b] > 0 => SensorsOf(b) \subseteq DOMAIN bulk.readings

\* The sensors that are computed agree with the ones they are computed of
\* (registry.go: house_consumption, ppv, grid_in_out, battery_error, the mode
\* labels), also where a string is absent and its registers are all ones.  A
\* battery register that reads 0 may be absent; its bits are not compared.
DerivedAgree ==
    LET v == bulk.readings
        N(s) == v[s].num
        Bit(n, k) == (n \div 2^k) % 2 = 1
    IN /\ SensorsOf("main") \subseteq DOMAIN v =>
            /\ N("house_consumption") =
                 N("ppv1") + N("ppv2") + N("ppv3") + N("ppv4") + N("pbattery1") - N("active_power")
            /\ N("ppv") = (N("ppv1") + N("ppv2") + N("ppv3") + N("ppv4")) % 2^(2 * W)
            /\ (N("grid_in_out") = 1) <=> (N("active_power") >= 90)
            /\ (N("grid_in_out") = 2) <=> (N("active_power") < -90)
            /\ v["pv1_mode_label"].text = {N("pv1_mode")} \cap PvModes
            /\ v["pv2_mode_label"].text = {N("pv2_mode")} \cap PvModes
       /\ SensorsOf("battery") \subseteq DOMAIN v => \A k \in ErrorBits :
            /\ k < W /\ N("battery_error_l") # 0 =>
                 (k \in v["battery_error"].text <=> Bit(N("battery_error_l"), k))
            /\ k >= W /\ N("battery_error_h") # 0 =>
                 (k \in v["battery_error"].text <=> Bit(N("battery_error_h"), k - W))
=============================================================================
