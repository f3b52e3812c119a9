------------------------------ MODULE Registry ------------------------------
(***************************************************************************)
(* et/registry.go: which registers a sensor is made of and how they are    *)
(* decoded.  data is what ReadRegisters returned, one element a register:  *)
(* register i of the block is data[i + 1].                                 *)
(*                                                                         *)
(* A register has W bits, 16 in the program; TLC takes fewer.  A reading   *)
(* is in units of its register: the scale of a reader (0.1 V, 0.01 Hz) is  *)
(* left out, so energy4Reader decodes like uint32Reader, energy2Reader like *)
(* uint16Reader and decimalReader like int16Reader.  A label is the        *)
(* code or the bit it is the label of.  Of the 200 sensors there are here  *)
(* the ones that differ in reader, block or place.                         *)
(***************************************************************************)
EXTENDS Integers, Sequences

CONSTANTS
    W,           \* bits of a register
    WorkModes,   \* the codes workModesET has a label for
    PvModes,     \* the codes pvModes has a label for
    ErrorBits    \* the bits errorCodes and bmsAlarmCodes have a label for

ASSUME WidthAssumption == W \in Nat /\ W % 2 = 0 /\ W > 0
ASSUME LabelsAssumption ==
    WorkModes \subseteq Nat /\ PvModes \subseteq Nat /\ ErrorBits \subseteq Nat

Word == 0..(2^W - 1)
undef16 == 2^W - 1
undef32 == 2^(2 * W) - 1

-----------------------------------------------------------------------------
(* Readers.                                                                *)

Num(n) == [num |-> n]
Text(labels) == [text |-> labels]

\* int8, int16 and int32 of an unsigned value of so many bits.
Signed(v, bits) == IF v >= 2^(bits - 1) THEN v - 2^bits ELSE v

\* data has n registers from i on.
Has(data, i, n) == i + n <= Len(data)

readUint32(data, i) == IF Has(data, i, 2) THEN data[i + 1] * 2^W + data[i + 2] ELSE 0

\* The value, or 0 where the inverter has none: all ones.
Defined32(v) == IF v = undef32 THEN 0 ELSE v

uint16Reader(data, i) ==
    IF ~Has(data, i, 1) \/ data[i + 1] = undef16 THEN 0 ELSE data[i + 1]

int16Reader(data, i) == IF Has(data, i, 1) THEN Signed(data[i + 1], W) ELSE 0
uint32Reader(data, i) == Defined32(readUint32(data, i))
int32Reader(data, i) == Signed(readUint32(data, i), 2 * W)
energy8Reader(data, i) ==
    IF ~Has(data, i, 4) \/ (\A k \in 1..4 : data[i + k] = undef16) THEN 0
    ELSE readUint32(data, i) * 2^(2 * W) + readUint32(data, i + 2)

\* -1 and 32767 stand for no temperature.
tempReader(data, i) ==
    IF int16Reader(data, i) \in {-1, 2^(W - 1) - 1} THEN 0 ELSE int16Reader(data, i)

\* Readers without a look at undef16.
cellVoltageReader(data, i) == IF Has(data, i, 1) THEN data[i + 1] ELSE 0

\* The high and the low byte of a register, signed.
highByteReader(data, i) ==
    IF Has(data, i, 1) THEN Signed(data[i + 1] \div 2^(W \div 2), W \div 2) ELSE 0
lowByteReader(data, i) ==
    IF Has(data, i, 1) THEN Signed(data[i + 1] % 2^(W \div 2), W \div 2) ELSE 0

\* The label of a code, or none.
enumHReader(data, i, codes) == IF Has(data, i, 1) THEN {highByteReader(data, i)} \cap codes ELSE {}
enumLReader(data, i, codes) == IF Has(data, i, 1) THEN {lowByteReader(data, i)} \cap codes ELSE {}
enum2Reader(data, i, codes) == IF Has(data, i, 1) THEN {data[i + 1]} \cap codes ELSE {}

decodeBitmap(v, bits) == {k \in bits : (v \div 2^k) % 2 = 1}

enumBitmap4Reader(data, i, bits) == decodeBitmap(readUint32(data, i), bits)

enumBitmap22Reader(data, hi, lo, bits) ==
    IF Has(data, hi, 1) /\ Has(data, lo, 1)
    THEN decodeBitmap(data[hi + 1] * 2^W + data[lo + 1], bits) ELSE {}

\* grid_in_out, and house_consumption below, take active_power without a look
\* at the length of data, which is the whole block of 125 registers.
GridInOut(v) == IF v < -90 THEN 2 ELSE IF v >= 90 THEN 1 ELSE 0

\* Mutant of PvSum: a string that is not there counts with all its ones.
PvSumRaw(data) ==
    readUint32(data, 5) + readUint32(data, 9) + readUint32(data, 13) + readUint32(data, 17)

\* ppv1 to ppv4.
PvSum(data) ==
    uint32Reader(data, 5) + uint32Reader(data, 9) + uint32Reader(data, 13)
        + uint32Reader(data, 17)

\* ppv adds in uint32, house_consumption in int64.
Ppv(data) == PvSum(data) % 2^(2 * W)
HouseConsumption(data) == PvSum(data) + int32Reader(data, 82) - int16Reader(data, 40)

-----------------------------------------------------------------------------
(* The tables of sensors, and sensorLookup over all of them.               *)

Sensor(b, r, i) == [block |-> b, reader |-> r, at |-> i]

registry ==
    [ppv1 |-> Sensor("main", "uint32", 5), ppv2 |-> Sensor("main", "uint32", 9),
     ppv3 |-> Sensor("main", "uint32", 13), ppv4 |-> Sensor("main", "uint32", 17),
     pv1_mode |-> Sensor("main", "lowByte", 20),
     pv2_mode |-> Sensor("main", "highByte", 20),
     pv1_mode_label |-> Sensor("main", "enumL", 20),
     pv2_mode_label |-> Sensor("main", "enumH", 20),
     vgrid |-> Sensor("main", "uint16", 21),
     active_power |-> Sensor("main", "int16", 40),
     grid_in_out |-> Sensor("main", "gridInOut", 40),
     pbattery1 |-> Sensor("main", "int32", 82),
     work_mode_label |-> Sensor("main", "workMode", 87),
     errors |-> Sensor("main", "bitmap4", 89),
     ppv |-> Sensor("main", "ppv", 5),
     house_consumption |-> Sensor("main", "house", 5)]

batteryRegistry ==
    [battery_temperature |-> Sensor("battery", "temp", 3),
     battery_error_l |-> Sensor("battery", "uint16", 6),
     battery_soc |-> Sensor("battery", "uint16", 7),
     battery_error_h |-> Sensor("battery", "uint16", 12),
     battery_error |-> Sensor("battery", "bitmap22", 12),
     battery_min_cell_voltage |-> Sensor("battery", "cellVoltage", 23)]

\* Up to the last register of each length that the block may be read in.
meterRegistry ==
    [meter_sw_version |-> Sensor("meter", "uint16", 44),
     meter2_active_power |-> Sensor("meter", "int32", 45),
     meter_current3 |-> Sensor("meter", "uint16", 57),
     meter_e_total_exp1 |-> Sensor("meter", "energy8", 92),
     meter_e_total_imp_8 |-> Sensor("meter", "energy8", 120)]

mpptRegistry ==
    [ppv_total |-> Sensor("mppt", "uint32", 0),
     ipv16 |-> Sensor("mppt", "uint16", 26)]

\* f, and g where f has nothing.
Over(f, g) == [x \in DOMAIN f \cup DOMAIN g |-> IF x \in DOMAIN f THEN f[x] ELSE g[x]]

Registers == Over(registry, Over(batteryRegistry, Over(meterRegistry, mpptRegistry)))

Names == DOMAIN Registers
SensorsOf(b) == {s \in Names : Registers[s].block = b}

\* The number of registers of a block.  The meter block may be cut to 58 or
\* 45 registers.
Count == [main |-> 125, battery |-> 24, meter |-> 125, mppt |-> 61]

\* sensorDefinition.Calculator.
Calculator(s, data) ==
    LET at == Registers[s].at
    IN CASE Registers[s].reader = "uint16" -> Num(uint16Reader(data, at))
         [] Registers[s].reader = "int16" -> Num(int16Reader(data, at))
         [] Registers[s].reader = "uint32" -> Num(uint32Reader(data, at))
         [] Registers[s].reader = "int32" -> Num(int32Reader(data, at))
         [] Registers[s].reader = "energy8" -> Num(energy8Reader(data, at))
         [] Registers[s].reader = "temp" -> Num(tempReader(data, at))
         [] Registers[s].reader = "highByte" -> Num(highByteReader(data, at))
         [] Registers[s].reader = "lowByte" -> Num(lowByteReader(data, at))
         [] Registers[s].reader = "cellVoltage" -> Num(cellVoltageReader(data, at))
         [] Registers[s].reader = "enumH" -> Text(enumHReader(data, at, PvModes))
         [] Registers[s].reader = "enumL" -> Text(enumLReader(data, at, PvModes))
         [] Registers[s].reader = "workMode" -> Text(enum2Reader(data, at, WorkModes))
         [] Registers[s].reader = "bitmap4" -> Text(enumBitmap4Reader(data, at, ErrorBits))
         [] Registers[s].reader = "bitmap22" -> Text(enumBitmap22Reader(data, at, 6, ErrorBits))
         [] Registers[s].reader = "gridInOut" -> Num(GridInOut(int16Reader(data, at)))
         [] Registers[s].reader = "ppv" -> Num(Ppv(data))
         [] Registers[s].reader = "house" -> Num(HouseConsumption(data))
=============================================================================
