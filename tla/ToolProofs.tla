----------------------------- MODULE ToolProofs -----------------------------
(***************************************************************************)
(* Proofs about Tool: the library as a caller sees it, and the command     *)
(* line tool.  What a reader makes of its registers stays closed but for   *)
(* its type, until the last part, about the sensors computed of others.    *)
(***************************************************************************)
EXTENDS Tool, FiniteSetTheorems, TLAPS

-----------------------------------------------------------------------------
(* What the device holds.                                                  *)

Blocks == {"main", "battery", "meter", "mppt"}
Readers ==
    {"uint16", "int16", "uint32", "int32", "energy8", "temp", "highByte", "lowByte", "cellVoltage",
     "enumH", "enumL", "workMode", "bitmap4", "bitmap22", "gridInOut", "ppv", "house"}
Reading == [num: Int] \cup [text: SUBSET Int]

\* Block, of any device.
BlockOf(d, b, n) ==
    [i \in 1..n |-> IF i - 1 \in DOMAIN d.words[b] THEN d.words[b][i - 1] ELSE 0]

\* A sensor, from all the registers of its block that the device serves.
Real(d, s) == Calculator(s, BlockOf(d, Registers[s].block, d.served[Registers[s].block]))

-----------------------------------------------------------------------------
(* The invariant.                                                          *)

\* The blocks that GetSensors is done with.
Before(st) ==
    CASE st = "main" -> {} [] st = "battery" -> {"main"}
      [] st = "mppt" -> {"main", "battery", "meter"} [] OTHER -> {"main", "battery"}

\* What a refused length says about the device.
Refused(d, st) ==
    (st = "meter58" => d.served.meter < 125) /\ (st = "meter45" => d.served.meter < 58)

\* The readings of the blocks B: whole blocks, true, and none is missing but
\* for a failure.
Gathered(d, r, B, fails) ==
    /\ \A s \in DOMAIN r :
         s \in Names /\ Registers[s].block \in B /\ d.served[Registers[s].block] > 0 /\ r[s] = Real(d, s)
    /\ \A b \in Blocks : SensorsOf(b) \subseteq DOMAIN r \/ SensorsOf(b) \cap DOMAIN r = {}
    /\ "main" \in B => SensorsOf("main") \subseteq DOMAIN r
    /\ ~fails => \A b \in B : d.served[b] > 0 => SensorsOf(b) \subseteq DOMAIN r

\* A sensor that was read alone.
Answered(d, x) ==
    /\ x.error \/ (x.value \in Reading /\ x.name \in Names /\ ~x.failed)
    /\ ~x.failed /\ x.name \in Names =>
         IF d.served[Registers[x.name].block] > 0 THEN ~x.error /\ x.value = Real(d, x.name)
         ELSE x.error

Asked(d, st, x) ==
    /\ st \in DOMAIN Quantity /\ Refused(d, st)
    /\ x.name \in Names /\ Registers[x.name].block = BlockAt[st]
    /\ ~x.error /\ ~x.failed

Records ==
    /\ bulk = [readings |-> bulk.readings, error |-> bulk.error, failed |-> bulk.failed]
    /\ bulk.error \in BOOLEAN /\ bulk.failed \in BOOLEAN /\ failed \in BOOLEAN
    /\ single = [name |-> single.name, value |-> single.value, error |-> single.error,
                 failed |-> single.failed]
    /\ single.error \in BOOLEAN /\ single.failed \in BOOLEAN

ReadingInv ==
    /\ device \in Devices /\ Records
    /\ op = "GetSensors" =>
         /\ step \in DOMAIN Quantity /\ Refused(device, step)
         /\ Gathered(device, readings, Before(step), failed)
    /\ bulk.error => bulk.failed
    /\ ~bulk.error => Gathered(device, bulk.readings, Blocks, bulk.failed)
    /\ IF op = "ReadSensor" THEN Asked(device, step, single) ELSE Answered(device, single)

\* The sensors printed and the ones left are the ones that were asked for.
Shared(p, t) ==
    /\ t \in Seq(Names \cup {Unknown}) /\ p \in Seq([name: Names \cup {Unknown}, value: Reading])
    /\ Len(p) + Len(t) = Len(names)
    /\ \A i \in 1..Len(p) : p[i].name = names[i]
    /\ \A i \in 1..Len(t) : t[i] = names[Len(p) + i]

ToolInv ==
    /\ mode \in Modes /\ (mode \in {"read", "poll"} => names \in Seq(Names \cup {Unknown}))
    /\ pc \in {"discover", "connect", "free", "info", "flags", "reading", "wait", "select",
               "return", "exited"}
    /\ status # "none" <=> pc = "exited"
    /\ pc \in {"discover", "connect"} => ~open
    /\ pc = "select" => mode = "poll"
    /\ pc = "return" => mode \in {"poll", "none"}
    /\ pc = "exited" /\ mode = "poll" => ~open
    /\ pc \in {"discover", "connect", "info", "flags"} => printed = <<>>
    /\ mode = "read" /\ pc \in {"reading", "wait"} => Shared(printed, todo)
    /\ pc = "wait" => todo # <<>>
    /\ mode = "read" /\ status = "0" => Shared(printed, <<>>)

\* What was printed is what the registers say; and the sensor read last is the
\* one to be printed next.
PrintedInv ==
    /\ mode = "read" => \A i \in 1..Len(printed) :
         /\ printed[i].name \in Names /\ device.served[Registers[printed[i].name].block] > 0
         /\ printed[i].value = Real(device, printed[i].name)
    /\ pc = "wait" => single.name = Head(todo)

IInv == ReadingInv /\ ToolInv /\ PrintedInv

-----------------------------------------------------------------------------
(* The tables.                                                             *)

\* The lengths in which a block may be read.
LEMMA Lengths ==
  /\ DOMAIN Quantity = {"main", "battery", "meter", "mppt", "meter58", "meter45"}
  /\ Quantity.main = 125 /\ Quantity.battery = 24 /\ Quantity.meter = 125 /\ Quantity.mppt = 61
  /\ Quantity.meter58 = 58 /\ Quantity.meter45 = 45
  /\ BlockAt["main"] = "main" /\ BlockAt["battery"] = "battery" /\ BlockAt["meter"] = "meter"
  /\ BlockAt["mppt"] = "mppt" /\ BlockAt["meter58"] = "meter" /\ BlockAt["meter45"] = "meter"
BY DEF Quantity, BlockAt, Over, Count

\* What a device serves.
LEMMA Served ==
  ASSUME NEW d \in Devices
  PROVE  /\ d.served.main = 125 /\ d.served.battery \in {0, 24}
         /\ d.served.meter \in {0, 45, 58, 125} /\ d.served.mppt \in {0, 61}
BY DeviceAssumption

\* Every table has its block.
LEMMA Tables ==
  ASSUME NEW s \in Names
  PROVE  /\ Registers[s].block \in Blocks /\ Registers[s].reader \in Readers
         /\ Registers[s].at \in Nat
<1> DEFINE Row == {r \in [block: Blocks, reader: Readers, at: Nat] : TRUE}
<1>1. \A x \in DOMAIN registry : registry[x] \in Row
  BY DEF registry, Sensor, Blocks, Readers
<1>2. \A x \in DOMAIN batteryRegistry : batteryRegistry[x] \in Row
  BY DEF batteryRegistry, Sensor, Blocks, Readers
<1>3. \A x \in DOMAIN meterRegistry : meterRegistry[x] \in Row
  BY DEF meterRegistry, Sensor, Blocks, Readers
<1>4. \A x \in DOMAIN mpptRegistry : mpptRegistry[x] \in Row
  BY DEF mpptRegistry, Sensor, Blocks, Readers
<1> HIDE DEF Row
<1>5. \A f, g : (\A x \in DOMAIN f : f[x] \in Row) /\ (\A x \in DOMAIN g : g[x] \in Row)
                  => \A x \in DOMAIN Over(f, g) : Over(f, g)[x] \in Row
  BY DEF Over
<1>6. Registers[s] \in Row
  BY <1>1, <1>2, <1>3, <1>4, <1>5 DEF Registers, Names
<1>7. QED
  BY <1>6 DEF Row

\* A power of two is a number of subsets.
LEMMA Power == ASSUME NEW n \in Nat PROVE 2^n \in Nat /\ 2^n > 0
<1>1. IsFiniteSet(1..n) /\ Cardinality(1..n) = n
  BY FS_Interval
<1>2. IsFiniteSet(SUBSET (1..n)) /\ Cardinality(SUBSET (1..n)) = 2^n
  BY <1>1, FS_SUBSET
<1>3. Cardinality(SUBSET (1..n)) \in Nat /\ Cardinality(SUBSET (1..n)) # 0
  <2>1. {} \in SUBSET (1..n)
    OBVIOUS
  <2>2. QED
    BY <1>2, <2>1, FS_CardinalityType, FS_EmptySet
<1>4. QED
  BY <1>2, <1>3

\* What is decoded of registers is a number or a set of labels.
LEMMA Decoded ==
  ASSUME NEW s \in Names, NEW data \in Seq(Nat)
  PROVE  Calculator(s, data) \in Reading
<1> DEFINE at == Registers[s].at
<1>1. at \in Nat /\ Registers[s].reader \in Readers
  BY Tables
<1>2. \A n \in Int : Num(n) \in Reading
  BY DEF Num, Reading
<1>3. \A l \in SUBSET Int : Text(l) \in Reading
  BY DEF Text, Reading
<1>4. WorkModes \subseteq Int /\ PvModes \subseteq Int /\ ErrorBits \subseteq Int
  BY LabelsAssumption
<1>5. \A i, n \in Nat : Has(data, i, n) => \A k \in 1..n : data[i + k] \in Nat
  BY DEF Has
<1>6. /\ W \in Nat /\ 2^W \in Int /\ 2^(2 * W) \in Int /\ undef16 \in Int
      /\ 2 * W \in Int /\ W \div 2 \in Int
      /\ 2^(W \div 2) \in Int /\ 2^(W \div 2) > 0 /\ 2^(2 * W) > 0
  <2>1. W \in Nat /\ 2 * W \in Nat /\ W \div 2 \in Nat
    BY WidthAssumption
  <2>2. QED
    BY <2>1, Power DEF undef16
<1>7. \A v \in Int, b \in Int : Signed(v, b) \in Int
  BY DEF Signed
<1>8. \A i \in Nat : Has(data, i, 1) => data[i + 1] \in Int
  BY <1>5
<1>9. \A i \in Nat : readUint32(data, i) \in Int
  <2> SUFFICES ASSUME NEW i \in Nat, Has(data, i, 2) PROVE data[i + 1] * 2^W + data[i + 2] \in Int
    BY DEF readUint32
  <2>1. data[i + 1] \in Int /\ data[i + 2] \in Int
    BY <1>5
  <2>2. \A a, b, c \in Int : a * b + c \in Int
    OBVIOUS
  <2>3. QED
    BY <1>6, <2>1, <2>2
<1>10. \A i \in Nat : /\ uint16Reader(data, i) \in Int /\ int16Reader(data, i) \in Int
                      /\ cellVoltageReader(data, i) \in Int
  <2> SUFFICES ASSUME NEW i \in Nat
               PROVE  /\ uint16Reader(data, i) \in Int /\ int16Reader(data, i) \in Int
                      /\ cellVoltageReader(data, i) \in Int
    OBVIOUS
  <2>1. Has(data, i, 1) => Signed(data[i + 1], W) \in Int
    <3>1. W \in Int /\ (Has(data, i, 1) => data[i + 1] \in Int)
      BY <1>6, <1>8
    <3>2. QED
      BY <1>7, <3>1
  <2>2. QED
    BY <1>8, <2>1 DEF uint16Reader, int16Reader, cellVoltageReader
<1>11. \A i \in Nat : uint32Reader(data, i) \in Int /\ int32Reader(data, i) \in Int
  <2> SUFFICES ASSUME NEW i \in Nat
               PROVE  uint32Reader(data, i) \in Int /\ int32Reader(data, i) \in Int
    OBVIOUS
  <2>1. Signed(readUint32(data, i), 2 * W) \in Int
    BY <1>6, <1>7, <1>9
  <2>2. QED
    BY <1>9, <2>1 DEF uint32Reader, Defined32, int32Reader
<1>12. \A i \in Nat : energy8Reader(data, i) \in Int
  <2> SUFFICES ASSUME NEW i \in Nat
               PROVE  readUint32(data, i) * 2^(2 * W) + readUint32(data, i + 2) \in Int
    BY DEF energy8Reader
  <2>1. readUint32(data, i) \in Int /\ readUint32(data, i + 2) \in Int
    BY <1>9
  <2>2. QED
    BY <1>6, <2>1
<1>13. \A i \in Nat : tempReader(data, i) \in Int
  BY <1>10 DEF tempReader
<1>14. \A i \in Nat : highByteReader(data, i) \in Int /\ lowByteReader(data, i) \in Int
  <2> SUFFICES ASSUME NEW i \in Nat, Has(data, i, 1)
               PROVE  highByteReader(data, i) \in Int /\ lowByteReader(data, i) \in Int
    BY DEF highByteReader, lowByteReader
  <2>1. data[i + 1] \in Int
    BY <1>8
  <2>2. \A v \in Int, m \in Int : m > 0 => v \div m \in Int /\ v % m \in Int
    OBVIOUS
  <2>3. data[i + 1] \div 2^(W \div 2) \in Int /\ data[i + 1] % 2^(W \div 2) \in Int
    BY <1>6, <2>1, <2>2
  <2>4. W \div 2 \in Int
    BY <1>6
  <2>5. QED
    BY <1>7, <2>3, <2>4 DEF highByteReader, lowByteReader
<1>15. \A i \in Nat, c \in SUBSET Int : /\ enumHReader(data, i, c) \subseteq Int
                                        /\ enumLReader(data, i, c) \subseteq Int
                                        /\ enum2Reader(data, i, c) \subseteq Int
  BY DEF enumHReader, enumLReader, enum2Reader
<1>16. \A i \in Nat : /\ enumBitmap4Reader(data, i, ErrorBits) \subseteq Int
                      /\ enumBitmap22Reader(data, i, 6, ErrorBits) \subseteq Int
  BY <1>4 DEF enumBitmap4Reader, enumBitmap22Reader, decodeBitmap
<1>17. \A v \in Int : GridInOut(v) \in Int
  BY DEF GridInOut
<1>18. Ppv(data) \in Int /\ HouseConsumption(data) \in Int
  <2>1. PvSum(data) \in Int
    <3>1. /\ uint32Reader(data, 5) \in Int /\ uint32Reader(data, 9) \in Int
          /\ uint32Reader(data, 13) \in Int /\ uint32Reader(data, 17) \in Int
      BY <1>11
    <3>2. QED
      BY <3>1 DEF PvSum
  <2>2. HouseConsumption(data) \in Int
    <3>1. int32Reader(data, 82) \in Int /\ int16Reader(data, 40) \in Int
      BY <1>10, <1>11
    <3>2. QED
      BY <2>1, <3>1 DEF HouseConsumption
  <2>3. PvSum(data) % 2^(2 * W) \in Int
    <3>1. \A v \in Int, m \in Int : m > 0 => v % m \in Int
      OBVIOUS
    <3>2. QED
      BY <1>6, <2>1, <3>1
  <2>4. QED
    BY <2>2, <2>3 DEF Ppv
<1> DEFINE r == Registers[s].reader
<1> HIDE DEF at, r
<1>19. Calculator(s, data) =
         CASE r = "uint16" -> Num(uint16Reader(data, at))
           [] r = "int16" -> Num(int16Reader(data, at))
           [] r = "uint32" -> Num(uint32Reader(data, at))
           [] r = "int32" -> Num(int32Reader(data, at))
           [] r = "energy8" -> Num(energy8Reader(data, at))
           [] r = "temp" -> Num(tempReader(data, at))
           [] r = "highByte" -> Num(highByteReader(data, at))
           [] r = "lowByte" -> Num(lowByteReader(data, at))
           [] r = "cellVoltage" -> Num(cellVoltageReader(data, at))
           [] r = "enumH" -> Text(enumHReader(data, at, PvModes))
           [] r = "enumL" -> Text(enumLReader(data, at, PvModes))
           [] r = "workMode" -> Text(enum2Reader(data, at, WorkModes))
           [] r = "bitmap4" -> Text(enumBitmap4Reader(data, at, ErrorBits))
           [] r = "bitmap22" -> Text(enumBitmap22Reader(data, at, 6, ErrorBits))
           [] r = "gridInOut" -> Num(GridInOut(int16Reader(data, at)))
           [] r = "ppv" -> Num(Ppv(data))
           [] r = "house" -> Num(HouseConsumption(data))
  BY DEF Calculator, r, at
<1>20. r \in Readers
  BY <1>1 DEF r
<1>21. QED
  BY <1>1, <1>2, <1>3, <1>4, <1>10, <1>11, <1>12, <1>13, <1>14, <1>15, <1>16, <1>17, <1>18, <1>19,
     <1>20 DEF Readers

\* Its registers are numbers.
LEMMA RealIs ==
  ASSUME NEW d \in Devices, NEW s \in Names
  PROVE  Real(d, s) \in Reading
<1> DEFINE b == Registers[s].block
           data == BlockOf(d, b, d.served[b])
<1>1. b \in Blocks /\ DOMAIN d.words = Blocks
  BY Tables, DeviceAssumption DEF Count, Blocks
<1>2. d.served[b] \in Nat
  BY <1>1, Served DEF Blocks
<1>3. \A i \in DOMAIN d.words[b] : d.words[b][i] \in Nat
  <2>1. \A i \in DOMAIN d.words[b] : d.words[b][i] \in Word
    BY <1>1, DeviceAssumption
  <2>2. Word \subseteq Nat
    BY DEF Word
  <2>3. QED
    BY <2>1, <2>2
<1>4. data \in Seq(Nat)
  <2> DEFINE n == d.served[b]
             w == d.words[b]
  <2> HIDE DEF n, w, b
  <2>1. [i \in 1..n |-> IF i - 1 \in DOMAIN w THEN w[i - 1] ELSE 0] \in Seq(Nat)
    BY <1>2, <1>3 DEF n, w
  <2>2. QED
    BY <2>1 DEF BlockOf, n, w
<1>5. QED
  BY <1>4, Decoded DEF Real

-----------------------------------------------------------------------------
(* Gathering the blocks.                                                   *)

\* One more block, of all the registers that the device serves of it.
LEMMA Gather ==
  ASSUME NEW d, NEW r, NEW B, NEW fails \in BOOLEAN, Gathered(d, r, B, fails),
         NEW b \in Blocks, NEW n, n = d.served[b], d.served[b] > 0, NEW C, C = B \cup {b}
  PROVE  Gathered(d, Over([s \in SensorsOf(b) |-> Calculator(s, BlockOf(d, b, n))], r), C, fails)
<1> DEFINE new == [s \in SensorsOf(b) |-> Calculator(s, BlockOf(d, b, n))]
           q == Over(new, r)
<1>1. DOMAIN new = SensorsOf(b) /\ \A s \in SensorsOf(b) : new[s] = Real(d, s)
  BY DEF SensorsOf, Real
<1> HIDE DEF new
<1>2. /\ DOMAIN q = SensorsOf(b) \cup DOMAIN r
      /\ \A s \in SensorsOf(b) : q[s] = Real(d, s)
      /\ \A s \in DOMAIN r : s \notin SensorsOf(b) => q[s] = r[s]
  BY <1>1 DEF Over
<1> HIDE DEF q
<1>3. \A s \in SensorsOf(b) : s \in Names /\ Registers[s].block = b
  BY DEF SensorsOf
<1>4. \A s \in DOMAIN q :
        s \in Names /\ Registers[s].block \in C /\ d.served[Registers[s].block] > 0 /\ q[s] = Real(d, s)
  BY <1>2, <1>3 DEF Gathered
<1>5. \A a \in Blocks : SensorsOf(a) \subseteq DOMAIN q \/ SensorsOf(a) \cap DOMAIN q = {}
  <2> SUFFICES ASSUME NEW a \in Blocks, a # b
               PROVE  SensorsOf(a) \subseteq DOMAIN q \/ SensorsOf(a) \cap DOMAIN q = {}
    BY <1>2
  <2>1. SensorsOf(a) \cap SensorsOf(b) = {}
    BY DEF SensorsOf
  <2>2. SensorsOf(a) \subseteq DOMAIN r \/ SensorsOf(a) \cap DOMAIN r = {}
    BY DEF Gathered
  <2>3. QED
    BY <1>2, <2>1, <2>2
<1>6. "main" \in C => SensorsOf("main") \subseteq DOMAIN q
  BY <1>2 DEF Gathered
<1>7. ~fails => \A a \in C : d.served[a] > 0 => SensorsOf(a) \subseteq DOMAIN q
  BY <1>2 DEF Gathered
<1>8. QED
  BY <1>4, <1>5, <1>6, <1>7 DEF Gathered, q, new

\* A block that is left out, as the device has none of it or a read failed.
LEMMA LeaveOut ==
  ASSUME NEW d, NEW r, NEW B, NEW fails \in BOOLEAN, NEW more \in BOOLEAN,
         Gathered(d, r, B, fails), NEW b \in Blocks, b # "main",
         fails => more, more \/ d.served[b] = 0, NEW C, C = B \cup {b}
  PROVE  Gathered(d, r, C, more)
BY DEF Gathered

-----------------------------------------------------------------------------
(* GetSensors.                                                             *)

\* On to the next block, or back.
LEMMA Went ==
  ASSUME ReadingInv, op = "GetSensors", UNCHANGED <<deviceVars, single>>,
         NEW next, NEW r, NEW f \in BOOLEAN, Proceed(next, r, f),
         next # "done" => /\ next \in DOMAIN Quantity /\ Refused(device, next)
                          /\ Gathered(device, r, Before(next), f),
         next = "done" => Gathered(device, r, Blocks, f)
  PROVE  ReadingInv'
<1>1. device' = device /\ single' = single /\ device \in Devices
  BY DEF deviceVars, ReadingInv
<1>2. Answered(device, single) /\ Records
  BY DEF ReadingInv
<1>3. CASE next = "done"
  <2>1. /\ op' = "none" /\ failed' = FALSE
        /\ bulk' = [readings |-> r, error |-> FALSE, failed |-> f]
    BY <1>3 DEF Proceed, Returns
  <2>2. Records'
    BY <1>1, <1>2, <2>1 DEF Records
  <2>3. bulk'.readings = r /\ bulk'.error = FALSE /\ bulk'.failed = f
    BY <2>1
  <2>4. QED
    BY <1>1, <1>2, <1>3, <2>1, <2>2, <2>3 DEF ReadingInv
<1>4. CASE next # "done"
  <2>1. op' = op /\ step' = next /\ readings' = r /\ failed' = f /\ bulk' = bulk
    BY <1>4 DEF Proceed
  <2>2. Records'
    BY <1>1, <1>2, <2>1 DEF Records
  <2>3. /\ bulk.error => bulk.failed
        /\ ~bulk.error => Gathered(device, bulk.readings, Blocks, bulk.failed)
    BY DEF ReadingInv
  <2>4. QED
    BY <1>1, <1>2, <1>4, <2>1, <2>2, <2>3 DEF ReadingInv
<1>5. QED
  BY <1>3, <1>4

\* Back with an error.
LEMMA WentBack ==
  ASSUME ReadingInv, op = "GetSensors", UNCHANGED <<deviceVars, single>>, ReturnsError
  PROVE  ReadingInv'
<1>1. /\ device' = device /\ single' = single /\ device \in Devices
      /\ op' = "none" /\ failed' = FALSE /\ bulk' = NoBulk
  BY DEF deviceVars, ReadingInv, ReturnsError, Returns
<1>2. Answered(device, single) /\ Records
  BY DEF ReadingInv
<1>3. /\ bulk'.error = TRUE /\ bulk'.failed = TRUE
      /\ bulk' = [readings |-> bulk'.readings, error |-> TRUE, failed |-> TRUE]
  BY <1>1 DEF NoBulk
<1>4. Records'
  BY <1>1, <1>2, <1>3 DEF Records
<1>5. QED
  BY <1>1, <1>2, <1>3, <1>4 DEF ReadingInv

\* A block is decoded.
LEMMA DecodeStep ==
  ASSUME ReadingInv, op = "GetSensors", UNCHANGED <<deviceVars, single>>,
         NEW b \in Blocks, NEW n \in Nat, n > 0, NEW next, Decode(b, n, next),
         n <= device.served[b] => device.served[b] = n, device.served[b] \in Nat,
         next # "done" => /\ next \in DOMAIN Quantity /\ Refused(device, next)
                          /\ Before(next) = Before(step) \cup {b},
         next = "done" => Blocks = Before(step) \cup {b}
  PROVE  ReadingInv'
<1> DEFINE new == Over([s \in SensorsOf(b) |-> Calculator(s, Block(b, n))], readings)
           C == Before(step) \cup {b}
<1>1. n = device.served[b]
  BY DEF Decode, IllegalDataAddress
<1>2. Block(b, n) = BlockOf(device, b, n)
  BY DEF Block, BlockOf
<1>3. failed \in BOOLEAN /\ Gathered(device, readings, Before(step), failed)
  BY DEF ReadingInv, Records
<1>4. Gathered(device, new, C, failed)
  <2>1. device.served[b] > 0
    BY <1>1
  <2>2. QED
    BY <1>1, <1>2, <1>3, <2>1, Gather
<1>5. CASE ReturnsError
  BY <1>5, WentBack
<1>6. CASE Proceed(next, new, failed)
  <2>1. /\ next # "done" => Gathered(device, new, Before(next), failed)
        /\ next = "done" => Gathered(device, new, Blocks, failed)
    BY <1>4
  <2> HIDE DEF new
  <2>2. QED
    BY <1>3, <1>6, <2>1, Went
<1>7. ReturnsError \/ Proceed(next, new, failed)
  BY DEF Decode
<1>8. QED
  BY <1>5, <1>6, <1>7

\* A block is left out.
LEMMA LeaveStep ==
  ASSUME ReadingInv, op = "GetSensors", UNCHANGED <<deviceVars, single>>,
         NEW b \in Blocks, b # "main", NEW next, NEW more \in BOOLEAN,
         Proceed(next, readings, more), failed => more, more \/ device.served[b] = 0,
         next # "done" => /\ next \in DOMAIN Quantity /\ Refused(device, next)
                          /\ Before(next) = Before(step) \cup {b},
         next = "done" => Blocks = Before(step) \cup {b}
  PROVE  ReadingInv'
<1>1. failed \in BOOLEAN /\ Gathered(device, readings, Before(step), failed)
  BY DEF ReadingInv, Records
<1>2. Gathered(device, readings, Before(step) \cup {b}, more)
  BY <1>1, LeaveOut
<1>3. /\ next # "done" => Gathered(device, readings, Before(next), more)
      /\ next = "done" => Gathered(device, readings, Blocks, more)
  BY <1>2
<1>4. QED
  BY <1>3, Went

\* The order of the blocks.
LEMMA Order ==
  /\ Before("main") = {} /\ Before("battery") = {"main"}
  /\ Before("meter") = {"main", "battery"} /\ Before("meter58") = {"main", "battery"}
  /\ Before("meter45") = {"main", "battery"} /\ Before("mppt") = {"main", "battery", "meter"}
BY DEF Before

\* GetSensors begins with the main block, which every device has.
LEMMA ReadMainStep == ASSUME ReadingInv, ReadMain PROVE ReadingInv'
<1>1. op = "GetSensors" /\ step = "main" /\ UNCHANGED <<deviceVars, single>>
  BY DEF ReadMain
<1>2. CASE ReturnsError
  BY <1>1, <1>2, WentBack
<1>3. CASE Decode("main", Quantity.main, "battery")
  <2>1. Decode("main", 125, "battery") /\ device \in Devices
    BY <1>3, Lengths DEF ReadingInv
  <2>2. device.served["main"] = 125
    BY <2>1, Served
  <2>3. "battery" \in DOMAIN Quantity /\ Refused(device, "battery")
        /\ Before("battery") = Before(step) \cup {"main"} /\ "main" \in Blocks
    BY <1>1, Lengths, Order DEF Refused, Blocks
  <2>4. QED
    BY <1>1, <2>1, <2>2, <2>3, DecodeStep
<1>4. QED
  BY <1>2, <1>3 DEF ReadMain

\* Then the battery block.
LEMMA ReadBatteryStep == ASSUME ReadingInv, ReadBattery PROVE ReadingInv'
<1>1. /\ op = "GetSensors" /\ step = "battery" /\ UNCHANGED <<deviceVars, single>>
      /\ device \in Devices /\ failed \in BOOLEAN
  BY DEF ReadBattery, ReadingInv, Records
<1>2. device.served["battery"] \in {0, 24}
  BY <1>1, Served
<1>3. "meter" \in DOMAIN Quantity /\ Refused(device, "meter")
      /\ Before("meter") = Before(step) \cup {"battery"} /\ "battery" \in Blocks
  BY <1>1, Lengths, Order DEF Refused, Blocks
<1>4. CASE Decode("battery", Quantity.battery, "meter")
  <2>1. Decode("battery", 24, "meter")
    BY <1>4, Lengths
  <2>2. QED
    BY <1>1, <1>2, <1>3, <2>1, DecodeStep
<1>5. CASE IllegalDataAddress("battery", Quantity.battery) /\ Proceed("meter", readings, failed)
  <2>1. device.served["battery"] = 0
    BY <1>2, <1>5, Lengths DEF IllegalDataAddress
  <2>2. QED
    BY <1>1, <1>3, <1>5, <2>1, LeaveStep
<1>6. CASE Proceed("meter", readings, TRUE)
  BY <1>1, <1>3, <1>6, LeaveStep
<1>7. QED
  BY <1>4, <1>5, <1>6 DEF ReadBattery

\* Then the meter block: its fallbacks end at the length that the device serves.
LEMMA ReadMeterStep == ASSUME ReadingInv, ReadMeter PROVE ReadingInv'
<1>1. /\ op = "GetSensors" /\ step \in {"meter", "meter58", "meter45"}
      /\ UNCHANGED <<deviceVars, single>>
      /\ device \in Devices /\ failed \in BOOLEAN
      /\ Refused(device, step) /\ Gathered(device, readings, Before(step), failed)
  BY DEF ReadMeter, ReadingInv, Records
<1>2. device.served["meter"] \in {0, 45, 58, 125}
  BY <1>1, Served
<1>3. /\ "mppt" \in DOMAIN Quantity /\ Refused(device, "mppt")
      /\ Before("mppt") = Before(step) \cup {"meter"} /\ "meter" \in Blocks
  <2>1. Before(step) = {"main", "battery"}
    BY <1>1, Order
  <2>2. QED
    BY <2>1, Lengths, Order DEF Refused, Blocks
<1>4. PICK n \in {125, 58, 45} :
        /\ n = Quantity[step] /\ (n <= device.served["meter"] => device.served["meter"] = n)
        /\ step = "meter" => n = 125
        /\ step = "meter58" => n = 58
        /\ step = "meter45" => n = 45
  <2>1. /\ step = "meter58" => device.served["meter"] < 125
        /\ step = "meter45" => device.served["meter"] < 58
    BY <1>1 DEF Refused
  <2>2. CASE step = "meter"
    BY <1>2, <2>2, Lengths
  <2>3. CASE step = "meter58"
    BY <1>2, <2>1, <2>3, Lengths
  <2>4. CASE step = "meter45"
    BY <1>2, <2>1, <2>4, Lengths
  <2>5. QED
    BY <1>1, <2>2, <2>3, <2>4
<1>5. CASE Decode("meter", n, "mppt")
  BY <1>1, <1>2, <1>3, <1>4, <1>5, DecodeStep
<1>6. CASE /\ n > device.served["meter"]
           /\ Proceed(IF Smaller(step) = "none" THEN "mppt" ELSE Smaller(step), readings, failed)
  <2>1. CASE step = "meter45"
    <3>1. Smaller(step) = "none"
      BY <2>1 DEF Smaller
    <3>2. device.served["meter"] = 0
      BY <1>2, <1>4, <1>6, <2>1
    <3>3. QED
      BY <1>1, <1>3, <1>6, <3>1, <3>2, LeaveStep
  <2>2. CASE step = "meter" \/ step = "meter58"
    <3>1. PICK next \in {"meter58", "meter45"} :
            /\ Smaller(step) = next
            /\ step = "meter" => next = "meter58"
            /\ step = "meter58" => next = "meter45"
      BY <2>2 DEF Smaller
    <3>2. next \in DOMAIN Quantity /\ next # "done" /\ next # "none" /\ Before(next) = Before(step)
      BY <2>2, <3>1, Lengths, Order
    <3>3. Refused(device, next)
      BY <1>2, <1>4, <1>6, <2>2, <3>1 DEF Refused
    <3>4. Proceed(next, readings, failed)
      BY <1>6, <3>1, <3>2
    <3>5. Gathered(device, readings, Before(next), failed)
      BY <1>1, <3>2
    <3>6. QED
      BY <1>1, <3>2, <3>3, <3>4, <3>5, Went
  <2>3. QED
    BY <1>1, <2>1, <2>2
<1>7. CASE Proceed("mppt", readings, TRUE)
  BY <1>1, <1>3, <1>7, LeaveStep
<1>8. QED
  BY <1>4, <1>5, <1>6, <1>7 DEF ReadMeter, IllegalDataAddress

\* The last block.
LEMMA ReadMPPTStep == ASSUME ReadingInv, ReadMPPT PROVE ReadingInv'
<1>1. /\ op = "GetSensors" /\ step = "mppt" /\ UNCHANGED <<deviceVars, single>>
      /\ device \in Devices /\ failed \in BOOLEAN
  BY DEF ReadMPPT, ReadingInv, Records
<1>2. device.served["mppt"] \in {0, 61}
  BY <1>1, Served
<1>3. Blocks = Before(step) \cup {"mppt"} /\ "mppt" \in Blocks
  BY <1>1, Order DEF Blocks
<1>4. CASE Decode("mppt", Quantity.mppt, "done")
  <2>1. Decode("mppt", 61, "done")
    BY <1>4, Lengths
  <2>2. QED
    BY <1>1, <1>2, <1>3, <2>1, DecodeStep
<1>5. CASE IllegalDataAddress("mppt", Quantity.mppt) /\ Proceed("done", readings, failed)
  <2>1. device.served["mppt"] = 0
    BY <1>2, <1>5, Lengths DEF IllegalDataAddress
  <2>2. QED
    BY <1>1, <1>3, <1>5, <2>1, LeaveStep
<1>6. CASE Proceed("done", readings, TRUE)
  BY <1>1, <1>3, <1>6, LeaveStep
<1>7. QED
  BY <1>4, <1>5, <1>6 DEF ReadMPPT

-----------------------------------------------------------------------------
(* The other operations.                                                   *)

\* A record of an answer, changed.
LEMMA Changed ==
  ASSUME NEW x, x = [name |-> x.name, value |-> x.value, error |-> x.error, failed |-> x.failed],
         NEW v
  PROVE  /\ [x EXCEPT !.value = v]
              = [name |-> x.name, value |-> v, error |-> x.error, failed |-> x.failed]
         /\ [x EXCEPT !.error = v]
              = [name |-> x.name, value |-> x.value, error |-> v, failed |-> x.failed]
OBVIOUS

\* ReadSensor: its fallbacks lead to the same registers.
LEMMA ReadSensorStep == ASSUME ReadingInv, ReadSensor PROVE ReadingInv'
<1>1. /\ op = "ReadSensor" /\ UNCHANGED <<deviceVars, bulk>> /\ device \in Devices
      /\ Asked(device, step, single) /\ Records
      /\ bulk.error => bulk.failed
      /\ ~bulk.error => Gathered(device, bulk.readings, Blocks, bulk.failed)
  BY DEF ReadSensor, ReadingInv
<1>2. device' = device /\ bulk' = bulk
  BY <1>1 DEF deviceVars
<1>3. /\ step \in DOMAIN Quantity /\ Refused(device, step)
      /\ single.name \in Names /\ Registers[single.name].block = BlockAt[step]
      /\ single.error = FALSE /\ single.failed = FALSE
  BY <1>1 DEF Asked, Records
<1>4. PICK b \in Blocks, n \in {125, 24, 61, 58, 45} :
        /\ b = BlockAt[step] /\ n = Quantity[step]
        /\ device.served[b] \in Nat
        /\ n <= device.served[b] => device.served[b] = n
        /\ step = "meter" => b = "meter" /\ n = 125
        /\ step = "meter58" => b = "meter" /\ n = 58
        /\ step \notin {"meter", "meter58"} /\ n > device.served[b] => device.served[b] = 0
  <2>1. /\ device.served.main = 125 /\ device.served.battery \in {0, 24}
        /\ device.served.meter \in {0, 45, 58, 125} /\ device.served.mppt \in {0, 61}
    BY <1>1, Served
  <2>2. /\ step = "meter58" => device.served["meter"] < 125
        /\ step = "meter45" => device.served["meter"] < 58
    BY <1>3 DEF Refused
  <2>3. CASE step \in {"main", "battery", "mppt"}
    BY <2>1, <2>3, Lengths DEF Blocks
  <2>4. CASE step \in {"meter", "meter58", "meter45"}
    BY <2>1, <2>2, <2>4, Lengths DEF Blocks
  <2>5. QED
    BY <1>3, <2>3, <2>4, Lengths
<1>5. single = [name |-> single.name, value |-> single.value, error |-> single.error,
                failed |-> single.failed]
  BY <1>1 DEF Records
<1>6. ASSUME Returns, NEW x, single' = x, NEW v, NEW e \in BOOLEAN, NEW f \in BOOLEAN,
             x = [name |-> single.name, value |-> v, error |-> e, failed |-> f],
             Answered(device, x)
      PROVE  ReadingInv'
  <2>1. op' = "none" /\ failed' = FALSE
    BY <1>6 DEF Returns
  <2>2. x.name = single.name /\ x.value = v /\ x.error = e /\ x.failed = f
    BY <1>6
  <2>3. Records'
    BY <1>1, <1>2, <1>6, <2>1, <2>2 DEF Records
  <2>4. QED
    BY <1>1, <1>2, <1>6, <2>1, <2>3 DEF ReadingInv
<1>7. CASE ReadSensorOk
  <2> DEFINE v == Calculator(single.name, BlockOf(device, b, n))
             x == [name |-> single.name, value |-> v, error |-> single.error, failed |-> single.failed]
  <2>1. /\ n <= device.served[b] /\ Returns
        /\ single' = [single EXCEPT !.value = Calculator(single.name, Block(b, n))]
    BY <1>4, <1>7 DEF ReadSensorOk, IllegalDataAddress
  <2>2. Block(b, n) = BlockOf(device, b, n)
    BY DEF Block, BlockOf
  <2>3. single' = [single EXCEPT !.value = v]
    BY <2>1, <2>2
  <2>4. v = Real(device, single.name) /\ v \in Reading
    <3>1. v = Real(device, single.name)
      BY <1>3, <1>4, <2>1 DEF Real
    <3>2. QED
      BY <1>1, <1>3, <3>1, RealIs
  <2>5. device.served[Registers[single.name].block] > 0
    BY <1>3, <1>4, <2>1
  <2> HIDE DEF v
  <2>6. single' = x
    BY <1>5, <2>3, Changed
  <2>7. Answered(device, x)
    BY <1>3, <2>4, <2>5 DEF Answered
  <2>8. QED
    BY <1>3, <1>6, <2>1, <2>6, <2>7
<1>8. CASE ReadSensorFallback
  <2>1. /\ n > device.served[b] /\ ReadSensorSmaller(step) # "none"
        /\ step' = ReadSensorSmaller(step) /\ UNCHANGED <<op, failed, readings, single>>
    BY <1>4, <1>8 DEF ReadSensorFallback, IllegalDataAddress
  <2>2. \/ step = "meter" /\ step' = "meter58"
        \/ step = "meter58" /\ step' = "meter45"
    BY <2>1 DEF ReadSensorSmaller
  <2>3. /\ step' \in DOMAIN Quantity /\ Registers[single.name].block = BlockAt[step']
    BY <1>3, <2>2, Lengths
  <2>4. Refused(device, step')
    <3>1. CASE step = "meter"
      BY <1>4, <2>1, <2>2, <3>1 DEF Refused
    <3>2. CASE step = "meter58"
      BY <1>4, <2>1, <2>2, <3>2 DEF Refused
    <3>3. QED
      BY <2>2, <3>1, <3>2
  <2>5. PICK st \in DOMAIN Quantity : st = step'
    BY <2>3
  <2>6. Asked(device, st, single)
    BY <1>1, <2>3, <2>4, <2>5 DEF Asked
  <2>7. Records'
    BY <1>1, <1>2, <2>1 DEF Records
  <2>8. QED
    BY <1>1, <1>2, <2>1, <2>5, <2>6, <2>7 DEF ReadingInv
<1>9. CASE ReadSensorAbsent
  <2> DEFINE x == [name |-> single.name, value |-> single.value, error |-> TRUE, failed |-> single.failed]
  <2>1. /\ n > device.served[b] /\ ReadSensorSmaller(step) = "none" /\ Returns
        /\ single' = [single EXCEPT !.error = TRUE]
    BY <1>4, <1>9 DEF ReadSensorAbsent, IllegalDataAddress
  <2>2. step \notin {"meter", "meter58"}
    BY <2>1 DEF ReadSensorSmaller
  <2>3. device.served[Registers[single.name].block] = 0
    BY <1>3, <1>4, <2>1, <2>2
  <2>4. single' = x
    BY <1>5, <2>1, Changed
  <2>5. Answered(device, x)
    BY <1>3, <2>3 DEF Answered
  <2>6. QED
    BY <1>3, <1>6, <2>1, <2>4, <2>5
<1>10. CASE ReadSensorFails
  <2> DEFINE x == [name |-> single.name, value |-> single.value, error |-> TRUE, failed |-> TRUE]
  <2>1. Returns /\ single' = [single EXCEPT !.error = TRUE, !.failed = TRUE]
    BY <1>10 DEF ReadSensorFails
  <2>2. single' = x
    BY <1>5, <2>1
  <2>3. Answered(device, x)
    BY DEF Answered
  <2>4. QED
    BY <1>6, <2>1, <2>2, <2>3
<1>11. QED
  BY <1>7, <1>8, <1>9, <1>10 DEF ReadSensor

\* A call of GetSensors.
LEMMA CallGetSensorsStep == ASSUME ReadingInv, CallGetSensors PROVE ReadingInv'
<1>1. /\ op' = "GetSensors" /\ step' = "main" /\ failed' = FALSE /\ readings' = NoReadings
      /\ device' = device /\ device \in Devices /\ bulk' = NoBulk /\ single' = NoSingle
  BY DEF CallGetSensors, Call, deviceVars, ReadingInv
<1>2. /\ NoBulk.error = TRUE /\ NoBulk.failed = TRUE
      /\ NoBulk = [readings |-> NoBulk.readings, error |-> TRUE, failed |-> TRUE]
      /\ NoSingle.error = TRUE /\ NoSingle.failed = TRUE
      /\ NoSingle = [name |-> NoSingle.name, value |-> NoSingle.value, error |-> TRUE, failed |-> TRUE]
  BY DEF NoBulk, NoSingle
<1>3. Gathered(device, NoReadings, Before("main"), FALSE)
  <2>1. DOMAIN NoReadings = {}
    BY DEF NoReadings
  <2>2. QED
    BY <2>1, Order DEF Gathered
<1>4. "main" \in DOMAIN Quantity /\ Refused(device, "main")
  BY Lengths DEF Refused
<1>5. Answered(device, NoSingle)
  BY <1>2 DEF Answered
<1>6. Records'
  BY <1>1, <1>2 DEF Records
<1>7. QED
  BY <1>1, <1>2, <1>3, <1>4, <1>5, <1>6 DEF ReadingInv

\* A call of ReadSensor.
LEMMA CallReadSensorStep == ASSUME ReadingInv, NEW s, CallReadSensor(s) PROVE ReadingInv'
<1>1. /\ device' = device /\ device \in Devices /\ bulk' = bulk /\ op = "none" /\ Records
      /\ bulk.error => bulk.failed
      /\ ~bulk.error => Gathered(device, bulk.readings, Blocks, bulk.failed)
  BY DEF CallReadSensor, Call, Idle, deviceVars, ReadingInv
<1>2. CASE s \in Names
  <2> DEFINE x == [name |-> s, value |-> NoValue, error |-> FALSE, failed |-> FALSE]
  <2>1. op' = "ReadSensor" /\ step' = Registers[s].block /\ failed' = FALSE /\ single' = x
    BY <1>2 DEF CallReadSensor, Call
  <2>2. PICK b \in Blocks : b = Registers[s].block
    BY <1>2, Tables
  <2>3. b \in DOMAIN Quantity /\ BlockAt[b] = b /\ Refused(device, b)
    BY Lengths DEF Blocks, Refused
  <2>4. Asked(device, b, x)
    BY <1>2, <2>2, <2>3 DEF Asked
  <2>5. Records'
    BY <1>1, <2>1 DEF Records
  <2>6. QED
    BY <1>1, <2>1, <2>2, <2>4, <2>5 DEF ReadingInv
<1>3. CASE s \notin Names
  <2> DEFINE x == [name |-> s, value |-> NoValue, error |-> TRUE, failed |-> FALSE]
  <2>1. op' = op /\ failed' = failed /\ single' = x
    BY <1>3 DEF CallReadSensor
  <2>2. Answered(device, x)
    BY <1>3 DEF Answered
  <2>3. Records'
    BY <1>1, <2>1 DEF Records
  <2>4. QED
    BY <1>1, <2>1, <2>2, <2>3 DEF ReadingInv
<1>4. QED
  BY <1>2, <1>3

\* Nothing of it changes.
LEMMA ReadingSame ==
  ASSUME ReadingInv, UNCHANGED <<device, op, step, failed, readings, bulk, single>>
  PROVE  ReadingInv'
<1>1. Records'
  BY DEF ReadingInv, Records
<1>2. QED
  BY <1>1 DEF ReadingInv

\* GetInfo touches nothing that the others have read.
LEMMA GetInfoStep == ASSUME ReadingInv, CallGetInfo \/ GetInfo PROVE ReadingInv'
<1>1. /\ device' = device /\ bulk' = bulk /\ single' = single /\ failed' = FALSE
      /\ op # "ReadSensor" /\ op' \notin {"GetSensors", "ReadSensor"}
  BY DEF CallGetInfo, GetInfo, Call, Idle, Returns, deviceVars, answerVars
<1>2. Records'
  BY <1>1 DEF ReadingInv, Records
<1>3. QED
  BY <1>1, <1>2 DEF ReadingInv

\* What every step does to the readings.
LEMMA ReadingNext == ASSUME ReadingInv, [Next]_vars PROVE ReadingInv'
<1>1. CASE Discover \/ Connect \/ Flags \/ ReadReturned \/ ReadDone \/ SelectTimer \/ SelectDone
           \/ Return \/ Signal \/ UNCHANGED vars
  <2>1. UNCHANGED <<device, op, step, failed, readings, bulk, single>>
    BY <1>1 DEF Discover, Connect, Flags, ReadReturned, ReadDone, SelectTimer, SelectDone, Return,
                Signal, Cancel, vars, inverterVars, deviceVars, answerVars
  <2>2. QED
    BY <2>1, ReadingSame
<1>2. CASE Info
  BY <1>2, GetInfoStep DEF Info
<1>3. CASE ReadNext
  <2>1. CallReadSensor(Head(todo))
    BY <1>3 DEF ReadNext
  <2>2. PICK s : s = Head(todo)
    OBVIOUS
  <2>3. QED
    BY <2>1, <2>2, CallReadSensorStep
<1>4. CASE CallStep
  BY <1>4, GetInfoStep, ReadMainStep, ReadBatteryStep, ReadMeterStep, ReadMPPTStep, ReadSensorStep
     DEF CallStep, Transaction
<1>5. CASE LibraryCall
  BY <1>5, CallGetSensorsStep, CallReadSensorStep DEF LibraryCall
<1>6. QED
  BY <1>1, <1>2, <1>3, <1>4, <1>5 DEF Next, Main

-----------------------------------------------------------------------------
(* The command line tool.                                                  *)

\* One sensor more is printed.
LEMMA PrintOne ==
  ASSUME Shared(printed, todo), todo # <<>>, NEW v \in Reading,
         names \in Seq(Names \cup {Unknown})
  PROVE  Shared(Append(printed, [name |-> Head(todo), value |-> v]), Tail(todo))
<1> DEFINE N == Names \cup {Unknown}
           P == [name: N, value: Reading]
           new == [name |-> Head(todo), value |-> v]
           q == Append(printed, new)
<1>1. /\ todo \in Seq(N) /\ printed \in Seq(P) /\ Len(printed) + Len(todo) = Len(names)
      /\ \A i \in 1..Len(printed) : printed[i].name = names[i]
      /\ \A i \in 1..Len(todo) : todo[i] = names[Len(printed) + i]
  BY DEF Shared
<1> HIDE DEF N
<1>2. /\ Len(todo) \in Nat /\ Len(todo) > 0 /\ Head(todo) = todo[1] /\ Head(todo) \in N
      /\ Tail(todo) \in Seq(N) /\ Len(Tail(todo)) = Len(todo) - 1
      /\ \A i \in 1..(Len(todo) - 1) : Tail(todo)[i] = todo[i + 1]
  BY <1>1
<1>3. new \in P /\ new.name = todo[1]
  BY <1>2
<1> HIDE DEF P, new
<1>4. /\ q \in Seq(P) /\ Len(q) = Len(printed) + 1 /\ Len(printed) \in Nat
      /\ q[Len(printed) + 1] = new /\ \A i \in 1..Len(printed) : q[i] = printed[i]
  BY <1>1, <1>3
<1> HIDE DEF q
<1>5. Len(q) + Len(Tail(todo)) = Len(names)
  BY <1>1, <1>2, <1>4
<1>6. ASSUME NEW i \in 1..Len(q) PROVE q[i].name = names[i]
  <2>1. CASE i = Len(printed) + 1
    BY <1>1, <1>2, <1>3, <1>4, <2>1
  <2>2. CASE i \in 1..Len(printed)
    BY <1>1, <1>4, <2>2
  <2>3. QED
    BY <1>4, <2>1, <2>2
<1>7. ASSUME NEW i \in 1..Len(Tail(todo)) PROVE Tail(todo)[i] = names[Len(q) + i]
  <2>1. i \in 1..(Len(todo) - 1) /\ i + 1 \in 1..Len(todo) /\ Len(printed) + (i + 1) = Len(q) + i
    BY <1>2, <1>4
  <2>2. Tail(todo)[i] = todo[i + 1] /\ todo[i + 1] = names[Len(printed) + (i + 1)]
    BY <1>1, <1>2, <2>1
  <2>3. QED
    BY <2>1, <2>2
<1>8. QED
  BY <1>2, <1>4, <1>5, <1>6, <1>7 DEF Shared, q, new, P, N

\* Every step of main, with what the library has answered.
LEMMA ToolNext == ASSUME ReadingInv, ToolInv, [Next]_vars PROVE ToolInv'
<1>1. CASE CallStep \/ Signal \/ LibraryCall \/ UNCHANGED vars
  <2>1. UNCHANGED <<mode, names, pc, status, open, printed, todo>>
    BY <1>1 DEF CallStep, Signal, LibraryCall, vars, toolVars
  <2>2. QED
    BY <2>1 DEF ToolInv, Shared
<1>2. CASE Discover
  BY <1>2 DEF Discover, Exit, ToolInv, Shared
<1>3. CASE Connect
  BY <1>3 DEF Connect, Exit, ToolInv, Shared
<1>4. CASE Info
  BY <1>4 DEF Info, ToolInv, Shared
<1>5. CASE Flags
  <2>1. /\ pc = "flags" /\ UNCHANGED <<mode, names, printed, open, status>> /\ todo' = names
        /\ pc' = CASE mode = "poll" -> "select" [] mode = "none" -> "return" [] OTHER -> "reading"
    BY <1>5 DEF Flags
  <2>2. mode = "read" => Shared(<<>>, names)
    BY DEF ToolInv, Shared, Modes
  <2>3. QED
    BY <2>1, <2>2 DEF ToolInv, Shared, Modes
<1>6. CASE ReadNext
  BY <1>6 DEF ReadNext, ToolInv, Shared
<1>7. CASE ReadReturned
  <2>1. pc = "wait" /\ op = "none" /\ UNCHANGED <<mode, names, open>> /\ (ReadError \/ ReadPrinted)
    BY <1>7 DEF ReadReturned, Idle
  <2>2. CASE ReadError
    BY <2>1, <2>2 DEF ReadError, Exit, ToolInv, Shared, Modes
  <2>3. CASE ReadPrinted
    <3>1. /\ pc' = "reading" /\ todo' = Tail(todo) /\ UNCHANGED status /\ ~single.error
          /\ printed' = Append(printed, [name |-> Head(todo), value |-> single.value])
      BY <2>3 DEF ReadPrinted
    <3>2. PICK v \in Reading : v = single.value
      BY <2>1, <3>1 DEF ReadingInv, Answered
    <3>3. mode = "read" => Shared(printed', todo')
      BY <2>1, <3>1, <3>2, PrintOne DEF ToolInv
    <3>4. QED
      BY <2>1, <3>1, <3>3 DEF ToolInv, Shared
  <2>4. QED
    BY <2>1, <2>2, <2>3
<1>8. CASE ReadDone
  BY <1>8 DEF ReadDone, Exit, ToolInv, Shared
<1>9. CASE SelectTimer
  BY <1>9 DEF SelectTimer, ToolInv, Shared
<1>10. CASE SelectDone
  BY <1>10 DEF SelectDone, ToolInv, Shared
<1>11. CASE Return
  BY <1>11 DEF Return, Exit, ToolInv, Shared
<1>12. QED
  BY <1>1, <1>2, <1>3, <1>4, <1>5, <1>6, <1>7, <1>8, <1>9, <1>10, <1>11 DEF Next, Main

\* Main prints what ReadSensor has answered, and nothing else changes what is
\* printed or whose answer it waits for.
LEMMA PrintedNext == ASSUME ReadingInv, ToolInv, PrintedInv, [Next]_vars PROVE PrintedInv'
<1>1. CASE ReadReturned
  <2>1. /\ pc = "wait" /\ op = "none" /\ pc' # "wait" /\ mode' = mode /\ device' = device
        /\ ReadError \/ ReadPrinted
    BY <1>1 DEF ReadReturned, Idle, ReadError, ReadPrinted, Exit, inverterVars, deviceVars
  <2>2. CASE ReadError
    BY <2>1, <2>2 DEF ReadError, PrintedInv
  <2>3. CASE ReadPrinted /\ mode = "read"
    <3> DEFINE new == [name |-> Head(todo), value |-> single.value]
               P == [name: Names \cup {Unknown}, value: Reading]
    <3>1. ~single.error /\ printed' = Append(printed, new)
      BY <2>3 DEF ReadPrinted
    <3>2. /\ single.name \in Names /\ device.served[Registers[single.name].block] > 0
          /\ single.value = Real(device, single.name) /\ single.value \in Reading
      BY <2>1, <3>1 DEF ReadingInv, Answered
    <3>3. new.name = single.name /\ new.value = single.value /\ new \in P
      BY <2>1, <3>2 DEF PrintedInv
    <3>4. printed \in Seq(P)
      BY <2>1, <2>3 DEF ToolInv, Shared
    <3> HIDE DEF new, P
    <3>5. ASSUME NEW i \in 1..Len(printed')
          PROVE  /\ printed'[i].name \in Names
                 /\ device.served[Registers[printed'[i].name].block] > 0
                 /\ printed'[i].value = Real(device, printed'[i].name)
      <4>1. (i \in 1..Len(printed) /\ printed'[i] = printed[i]) \/ printed'[i] = new
        BY <3>1, <3>3, <3>4
      <4>2. CASE printed'[i] = new
        BY <3>2, <3>3, <4>2
      <4>3. CASE i \in 1..Len(printed) /\ printed'[i] = printed[i]
        <5>1. /\ printed[i].name \in Names
              /\ device.served[Registers[printed[i].name].block] > 0
              /\ printed[i].value = Real(device, printed[i].name)
          BY <2>3, <4>3, Zenon DEF PrintedInv
        <5>2. QED
          BY <4>3, <5>1, Zenon
      <4>4. QED
        BY <4>1, <4>2, <4>3
    <3>6. QED
      BY <2>1, <3>5, Zenon DEF PrintedInv
  <2>4. QED
    BY <2>1, <2>2, <2>3, Zenon DEF PrintedInv
<1>2. CASE ReadNext
  <2>1. single'.name = Head(todo)
    BY <1>2 DEF ReadNext, CallReadSensor
  <2>2. UNCHANGED <<mode, printed, todo, device>>
    BY <1>2 DEF ReadNext, CallReadSensor, Call, deviceVars
  <2>3. QED
    BY <2>1, <2>2, Zenon DEF PrintedInv
<1>3. CASE CallStep
  <2>1. single'.name = single.name
    BY <1>3 DEF CallStep, Transaction, GetInfo, ReadMain, ReadBattery, ReadMeter, ReadMPPT,
       ReadSensor, ReadSensorOk, ReadSensorFallback, ReadSensorAbsent, ReadSensorFails,
       ReadingInv, Records
  <2>2. UNCHANGED <<mode, printed, todo, pc, device>>
    BY <1>3 DEF CallStep, Transaction, GetInfo, ReadMain, ReadBattery, ReadMeter, ReadMPPT,
       ReadSensor, deviceVars, toolVars
  <2>3. QED
    BY <2>1, <2>2, Zenon DEF PrintedInv
<1>4. CASE Signal \/ UNCHANGED vars
  <2>1. UNCHANGED <<mode, printed, todo, pc, device, single>>
    BY <1>4 DEF Signal, Cancel, vars, toolVars, inverterVars, deviceVars, answerVars
  <2>2. QED
    BY <2>1, Zenon DEF PrintedInv
<1>5. CASE LibraryCall
  <2>1. UNCHANGED <<mode, printed, device>> /\ pc' # "wait"
    BY <1>5 DEF LibraryCall, CallGetSensors, CallReadSensor, Call, toolVars, deviceVars
  <2>2. QED
    BY <2>1, Zenon DEF PrintedInv
<1>6. CASE SelectTimer
  <2>1. printed' = <<>> /\ pc' # "wait"
    BY <1>6 DEF SelectTimer
  <2>2. QED
    BY <2>1 DEF PrintedInv
<1>7. CASE Discover \/ Connect \/ Info \/ Flags \/ ReadDone \/ SelectDone \/ Return
  <2>1. UNCHANGED <<mode, printed, device>> /\ pc' # "wait"
    BY <1>7 DEF Discover, DiscoverOk, DiscoverFails, Connect, Info, CallGetInfo, Call, Flags,
       ReadDone, SelectDone, Return, Exit, inverterVars, deviceVars
  <2>2. QED
    BY <2>1, Zenon DEF PrintedInv
<1>8. QED
  BY <1>1, <1>2, <1>3, <1>4, <1>5, <1>6, <1>7 DEF Next, Main

-----------------------------------------------------------------------------
(* The theorems.                                                           *)

\* At the start nothing has been read or printed.
LEMMA InitInv == Init => IInv
<1> SUFFICES ASSUME Init PROVE IInv
  OBVIOUS
<1>1. ReadingInv
  <2>1. /\ device \in Devices /\ op = "none" /\ failed = FALSE /\ bulk = NoBulk /\ single = NoSingle
    BY DEF Init, InverterInit
  <2>2. /\ NoBulk.error = TRUE /\ NoBulk.failed = TRUE
        /\ NoBulk = [readings |-> NoBulk.readings, error |-> TRUE, failed |-> TRUE]
        /\ NoSingle.error = TRUE /\ NoSingle.failed = TRUE
        /\ NoSingle = [name |-> NoSingle.name, value |-> NoSingle.value, error |-> TRUE, failed |-> TRUE]
    BY DEF NoBulk, NoSingle
  <2>3. Records
    BY <2>1, <2>2 DEF Records
  <2>4. Answered(device, NoSingle)
    BY <2>2 DEF Answered
  <2>5. QED
    BY <2>1, <2>2, <2>3, <2>4 DEF ReadingInv
<1>2. ToolInv
  <2>1. mode \in {"read", "poll"} => names \in Seq(Names \cup {Unknown})
    BY RequestedAssumption DEF Init, NamesOf
  <2>2. QED
    BY <2>1 DEF Init, ToolInv, Shared
<1>3. PrintedInv
  BY DEF Init, PrintedInv
<1>4. QED
  BY <1>1, <1>2, <1>3 DEF IInv

\* The invariant of library and tool.
LEMMA Invariance == FairSpec => []IInv
<1>1. IInv /\ [Next]_vars => IInv'
  BY ReadingNext, ToolNext, PrintedNext DEF IInv
<1>2. QED
  BY <1>1, InitInv, PTL DEF FairSpec

\* SingleAgreesWithBulk, for every device: the fallbacks of ReadSensor and of
\* GetSensors lead to the same registers, and what one cannot read the other
\* leaves out.
THEOREM OneSensorAsAmongAll == FairSpec => []SingleAgreesWithBulk
<1>1. IInv => SingleAgreesWithBulk
  <2> SUFFICES ASSUME IInv, ~bulk.failed, ~single.failed, op # "ReadSensor", single.name \in Names
               PROVE  IF single.name \in DOMAIN bulk.readings
                      THEN ~single.error /\ single.value = bulk.readings[single.name]
                      ELSE single.error
    BY DEF SingleAgreesWithBulk
  <2>1. Gathered(device, bulk.readings, Blocks, bulk.failed) /\ Answered(device, single)
    BY DEF IInv, ReadingInv
  <2>2. PICK b \in Blocks : b = Registers[single.name].block
    BY Tables
  <2>3. single.name \in SensorsOf(b)
    BY <2>2 DEF SensorsOf
  <2>4. CASE device.served[b] > 0
    <3>1. ~single.error /\ single.value = Real(device, single.name)
      BY <2>1, <2>2, <2>4 DEF Answered
    <3>2. single.name \in DOMAIN bulk.readings
      BY <2>1, <2>3, <2>4 DEF Gathered
    <3>3. bulk.readings[single.name] = Real(device, single.name)
      BY <2>1, <3>2 DEF Gathered
    <3>4. QED
      BY <3>1, <3>2, <3>3
  <2>5. CASE ~(device.served[b] > 0)
    <3>1. single.error
      BY <2>1, <2>2, <2>5 DEF Answered
    <3>2. single.name \notin DOMAIN bulk.readings
      BY <2>1, <2>2, <2>5 DEF Gathered
    <3>3. QED
      BY <3>1, <3>2
  <2>6. QED
    BY <2>4, <2>5
<1>2. QED
  BY <1>1, Invariance, PTL

\* NoBlockLost, for every device: GetSensors returns whole blocks, the main one
\* always, and each that the device serves unless a transaction failed.
THEOREM BlocksWhole == FairSpec => []NoBlockLost
<1>1. IInv => NoBlockLost
  <2> SUFFICES ASSUME IInv, ~bulk.error
               PROVE  /\ \A b \in DOMAIN Count :
                           SensorsOf(b) \subseteq DOMAIN bulk.readings
                             \/ SensorsOf(b) \cap DOMAIN bulk.readings = {}
                      /\ SensorsOf("main") \subseteq DOMAIN bulk.readings
                      /\ ~bulk.failed => \A b \in DOMAIN Count :
                           device.served[b] > 0 => SensorsOf(b) \subseteq DOMAIN bulk.readings
    BY DEF NoBlockLost
  <2>1. DOMAIN Count = Blocks /\ "main" \in Blocks
    BY DEF Count, Blocks
  <2>2. Gathered(device, bulk.readings, Blocks, bulk.failed)
    BY DEF IInv, ReadingInv
  <2>3. QED
    BY <2>1, <2>2 DEF Gathered
<1>2. QED
  BY <1>1, Invariance, PTL

\* StatusTruthful: exit status 0 of -readsensor means that each sensor asked for
\* was printed, in order and with the value that the registers of its block have,
\* whatever the names and the device.
THEOREM ZeroMeansAllPrinted == FairSpec => []StatusTruthful
<1>1. IInv => StatusTruthful
  <2> SUFFICES ASSUME IInv, mode = "read", status = "0" PROVE
         /\ Len(printed) = Len(names)
         /\ \A i \in DOMAIN names :
              /\ printed[i].name = names[i] /\ names[i] \in Names
              /\ LET b == Registers[names[i]].block IN
                   /\ device.served[b] > 0
                   /\ printed[i].value = Calculator(names[i], Block(b, device.served[b]))
    BY DEF StatusTruthful
  <2>1. Shared(printed, <<>>) /\ names \in Seq(Names \cup {Unknown})
    BY DEF IInv, ToolInv
  <2>2. Len(printed) = Len(names) /\ Len(printed) \in Nat
    BY <2>1 DEF Shared
  <2>3. DOMAIN names = 1..Len(printed)
    BY <2>1, <2>2
  <2>4. \A i \in 1..Len(printed) : printed[i].name = names[i]
    BY <2>1 DEF Shared
  <2>5. \A i \in 1..Len(printed) :
          /\ printed[i].name \in Names /\ device.served[Registers[printed[i].name].block] > 0
          /\ printed[i].value = Real(device, printed[i].name)
    BY Zenon DEF IInv, PrintedInv
  <2>6. \A s : Real(device, s) =
          Calculator(s, Block(Registers[s].block, device.served[Registers[s].block]))
    BY Zenon DEF Real, Block, BlockOf
  <2>7. QED
    BY <2>2, <2>3, <2>4, <2>5, <2>6, Zenon
<1>2. QED
  BY <1>1, Invariance, PTL

\* PollCloses: however polling ends, the connection is closed.
THEOREM PollingCloses == FairSpec => []PollCloses
<1>1. IInv => PollCloses
  BY DEF IInv, ToolInv, PollCloses
<1>2. QED
  BY <1>1, Invariance, PTL

-----------------------------------------------------------------------------
(* The sensors that are computed of others.                                *)

\* Powers multiply as their exponents add: a subset of 1..(a + b) is a subset
\* of 1..a and one of the rest.
LEMMA PowerSum == ASSUME NEW a \in Nat, NEW b \in Nat PROVE 2^(a + b) = 2^a * 2^b
<1> DEFINE A == 1..a
           B == (a + 1)..(a + b)
           L == SUBSET A
           R == SUBSET B
           P == L \X R
           S == SUBSET (1..(a + b))
           f == [p \in P |-> p[1] \cup p[2]]
<1>1. /\ IsFiniteSet(A) /\ Cardinality(A) = a
      /\ IsFiniteSet(B) /\ Cardinality(B) = b
      /\ IsFiniteSet(1..(a + b)) /\ Cardinality(1..(a + b)) = a + b
  <2>1. IsFiniteSet(A) /\ Cardinality(A) = a
    BY FS_Interval
  <2>2. IsFiniteSet(B) /\ Cardinality(B) = b
    <3>1. IsFiniteSet(B) /\ Cardinality(B) = IF a + 1 > a + b THEN 0 ELSE (a + b) - (a + 1) + 1
      BY FS_Interval
    <3>2. QED
      BY <3>1
  <2>3. IsFiniteSet(1..(a + b)) /\ Cardinality(1..(a + b)) = a + b
    <3>1. PICK n \in Nat : n = a + b
      OBVIOUS
    <3>2. IsFiniteSet(1..n) /\ Cardinality(1..n) = n
      BY FS_Interval
    <3>3. QED
      BY <3>1, <3>2
  <2>4. QED
    BY <2>1, <2>2, <2>3
<1>2. /\ IsFiniteSet(L) /\ Cardinality(L) = 2^a
      /\ IsFiniteSet(R) /\ Cardinality(R) = 2^b
      /\ Cardinality(S) = 2^(a + b)
  BY <1>1, FS_SUBSET
<1>3. IsFiniteSet(P) /\ Cardinality(P) = 2^a * 2^b
  <2> HIDE DEF L, R
  <2>1. IsFiniteSet(P) /\ Cardinality(P) = Cardinality(L) * Cardinality(R)
    BY <1>2, FS_Product
  <2>2. QED
    BY <1>2, <2>1, Zenon
<1>4. A \cup B = 1..(a + b) /\ A \cap B = {}
  OBVIOUS
<1>5. f \in Bijection(P, S)
  <2> HIDE DEF A, B
  <2>1. \A p \in P : p[1] \in L /\ p[2] \in R /\ p = <<p[1], p[2]>>
    <3> HIDE DEF L, R
    <3>1. QED
      OBVIOUS
  <2>2. \A X \in L, Y \in R : /\ X \cup Y \in S
                              /\ (X \cup Y) \cap A = X /\ (X \cup Y) \cap B = Y
    BY <1>4
  <2>3. \A Z \in S : Z \cap A \in L /\ Z \cap B \in R /\ (Z \cap A) \cup (Z \cap B) = Z
    BY <1>4
  <2>4. \A X \in L, Y \in R : <<X, Y>> \in P
    <3> HIDE DEF L, R
    <3>1. QED
      OBVIOUS
  <2> HIDE DEF L, R, P, S
  <2>5. f \in [P -> S]
    BY <2>1, <2>2
  <2>6. ASSUME NEW p \in P, NEW q \in P, f[p] = f[q] PROVE p = q
    <3>1. p[1] \cup p[2] = q[1] \cup q[2]
      BY <2>6
    <3>2. p[1] = q[1] /\ p[2] = q[2]
      <4>1. /\ (p[1] \cup p[2]) \cap A = p[1] /\ (q[1] \cup q[2]) \cap A = q[1]
            /\ (p[1] \cup p[2]) \cap B = p[2] /\ (q[1] \cup q[2]) \cap B = q[2]
        BY <2>1, <2>2
      <4>2. QED
        BY <3>1, <4>1, Zenon
    <3>3. QED
      BY <2>1, <3>2
  <2>7. ASSUME NEW Z \in S PROVE \E p \in P : f[p] = Z
    <3>1. PICK p \in P : p = <<Z \cap A, Z \cap B>>
      BY <2>3, <2>4
    <3>2. f[p] = Z
      BY <2>3, <3>1
    <3>3. QED
      BY <3>2
  <2> HIDE DEF f
  <2>8. f \in Injection(P, S)
    BY <2>5, <2>6 DEF Injection, IsInjective
  <2>9. f \in Surjection(P, S)
    BY <2>5, <2>7 DEF Surjection
  <2>10. QED
    BY <2>8, <2>9 DEF Bijection
<1>6. Cardinality(P) = Cardinality(S)
  <2> HIDE DEF P, S, f
  <2>1. ExistsBijection(P, S)
    BY <1>5 DEF ExistsBijection
  <2>2. QED
    BY <1>3, <2>1, FS_Bijection
<1>7. QED
  BY <1>2, <1>3, <1>6, Zenon

\* The first powers.
LEMMA PowerOne == 2^1 = 2
<1>1. SUBSET {1} = {{}, {1}} /\ {} # {1}
  OBVIOUS
<1>2. IsFiniteSet({1}) /\ Cardinality({1}) = 1
  BY FS_Singleton
<1>3. Cardinality(SUBSET {1}) = 2^1
  BY <1>2, FS_SUBSET
<1>4. Cardinality({{}, {1}}) = 2
  <2>1. IsFiniteSet({{}}) /\ Cardinality({{}}) = 1
    BY FS_Singleton
  <2>2. {1} \notin {{}} /\ {{}} \cup {{1}} = {{}, {1}}
    OBVIOUS
  <2>3. Cardinality({{}} \cup {{1}}) = Cardinality({{}}) + 1
    BY <2>1, <2>2, FS_AddElement
  <2>4. Cardinality({{}, {1}}) = 1 + 1
    BY <2>1, <2>2, <2>3, Zenon
  <2>5. QED
    BY <2>4
<1>5. QED
  BY <1>1, <1>3, <1>4

\* A multiple of the divisor adds to the quotient.
LEMMA Quotient ==
  ASSUME NEW c \in Nat, NEW l \in Nat, NEW p \in Nat, p > 0
  PROVE  (c * p + l) \div p = c + l \div p
<1> DEFINE q == l \div p
           r == l % p
<1>1. q \in Nat /\ r \in Nat /\ r < p /\ l = p * q + r
  OBVIOUS
<1> HIDE DEF q, r
<1>2. c * p + l = p * (c + q) + r
  BY <1>1
<1>3. \A n, u, v \in Nat : n = p * u + v /\ v < p => n \div p = u
  OBVIOUS
<1>4. QED
  BY <1>1, <1>2, <1>3 DEF q

\* The bits of two registers are the bits of one and of the other.
LEMMA Bits ==
  ASSUME NEW h \in Word, NEW l \in Word, NEW k \in Nat
  PROVE  /\ k < W => ((h * 2^W + l) \div 2^k) % 2 = (l \div 2^k) % 2
         /\ k >= W => (h * 2^W + l) \div 2^k = h \div 2^(k - W)
<1>1. W \in Nat /\ 2^W \in Nat /\ 2^W > 0 /\ 2^k \in Nat /\ 2^k > 0
  BY WidthAssumption, Power
<1>2. h \in Nat /\ l \in Nat /\ l < 2^W
  BY <1>1 DEF Word
<1>3. CASE k < W
  <2>1. PICK j \in Nat : W = k + (1 + j)
    <3>1. W - k - 1 \in Nat /\ W = k + (1 + (W - k - 1))
      BY <1>1, <1>3
    <3>2. QED
      BY <3>1
  <2>2. PICK m \in Nat : m = 2^j
    BY <2>1, Power
  <2>3. 2^W = 2^k * (2 * m)
    <3>1. 2^(k + (1 + j)) = 2^k * 2^(1 + j) /\ 2^(1 + j) = 2^1 * 2^j
      <4>1. PICK o \in Nat : o = 1
        OBVIOUS
      <4>2. 2^(o + j) = 2^o * 2^j /\ 2^(k + (o + j)) = 2^k * 2^(o + j)
        <5>1. o + j \in Nat
          OBVIOUS
        <5>2. QED
          BY <5>1, PowerSum
      <4>3. QED
        BY <4>1, <4>2, Zenon
    <3>2. QED
      BY <2>1, <2>2, <3>1, PowerOne
  <2>4. PICK p \in Nat : p = 2^k
    BY <1>1
  <2>5. h * 2^W + l = (h * (2 * m)) * p + l
    <3>1. \A x, y, z \in Nat : x * (y * z) = (x * z) * y
      OBVIOUS
    <3>2. QED
      BY <1>2, <2>2, <2>3, <2>4, <3>1
  <2>6. h * (2 * m) \in Nat /\ h * (2 * m) = 2 * (h * m) /\ h * m \in Nat
    BY <1>2, <2>2
  <2>7. (h * 2^W + l) \div p = h * (2 * m) + l \div p
    BY <1>1, <1>2, <2>4, <2>5, <2>6, Quotient
  <2>8. l \div p \in Nat
    BY <1>1, <1>2, <2>4
  <2>9. \A x, y \in Nat : (2 * x + y) % 2 = y % 2
    OBVIOUS
  <2>10. ((h * 2^W + l) \div p) % 2 = (l \div p) % 2
    <3> DEFINE x == h * m
               y == l \div p
    <3>1. x \in Nat /\ y \in Nat /\ (h * 2^W + l) \div p = 2 * x + y
      BY <2>6, <2>7, <2>8
    <3> HIDE DEF x, y
    <3>2. QED
      BY <2>9, <3>1 DEF y
  <2>11. QED
    BY <1>1, <1>3, <2>4, <2>10
<1>4. CASE k >= W
  <2>1. PICK j \in Nat : k = W + j
    <3>1. k - W \in Nat /\ k = W + (k - W)
      BY <1>1, <1>4
    <3>2. QED
      BY <3>1
  <2>2. PICK m \in Nat : m = 2^j /\ m > 0
    BY <2>1, Power
  <2>3. PICK w \in Nat : w = 2^W /\ w > 0
    BY <1>1
  <2>4. 2^k = w * m
    BY <1>1, <2>1, <2>2, <2>3, PowerSum
  <2>5. k - W = j
    BY <1>1, <2>1
  <2> DEFINE q == h \div m
             r == h % m
  <2>6. q \in Nat /\ r \in Nat /\ r + 1 <= m /\ h = m * q + r
    BY <1>2, <2>2
  <2> HIDE DEF q, r
  <2>7. h * w + l = (w * m) * q + (r * w + l)
    BY <1>2, <2>3, <2>6
  <2>8. r * w + l < w * m
    <3>1. (r + 1) * w <= m * w
      BY <2>2, <2>3, <2>6
    <3>2. r * w + l < (r + 1) * w
      BY <1>2, <2>3, <2>6
    <3>3. QED
      BY <1>2, <2>2, <2>3, <2>6, <3>1, <3>2
  <2>9. w * m \in Nat /\ w * m > 0 /\ r * w + l \in Nat
    BY <1>2, <2>2, <2>3, <2>6
  <2>10. \A d, u, v \in Nat : d > 0 /\ v < d => (d * u + v) \div d = u
    OBVIOUS
  <2>11. ((w * m) * q + (r * w + l)) \div (w * m) = q
    BY <2>6, <2>8, <2>9, <2>10
  <2>12. QED
    BY <1>4, <2>2, <2>3, <2>4, <2>5, <2>7, <2>11, <1>1 DEF q
<1>5. QED
  BY <1>3, <1>4, <1>1

\* The rows of the sensors that DerivedAgree relates.
LEMMA Rows ==
  /\ Registers["ppv1"] = Sensor("main", "uint32", 5) /\ Registers["ppv2"] = Sensor("main", "uint32", 9)
  /\ Registers["ppv3"] = Sensor("main", "uint32", 13) /\ Registers["ppv4"] = Sensor("main", "uint32", 17)
  /\ Registers["ppv"] = Sensor("main", "ppv", 5)
  /\ Registers["house_consumption"] = Sensor("main", "house", 5)
  /\ Registers["pbattery1"] = Sensor("main", "int32", 82)
  /\ Registers["active_power"] = Sensor("main", "int16", 40)
  /\ Registers["grid_in_out"] = Sensor("main", "gridInOut", 40)
  /\ Registers["pv1_mode"] = Sensor("main", "lowByte", 20)
  /\ Registers["pv2_mode"] = Sensor("main", "highByte", 20)
  /\ Registers["pv1_mode_label"] = Sensor("main", "enumL", 20)
  /\ Registers["pv2_mode_label"] = Sensor("main", "enumH", 20)
  /\ Registers["battery_error_l"] = Sensor("battery", "uint16", 6)
  /\ Registers["battery_error_h"] = Sensor("battery", "uint16", 12)
  /\ Registers["battery_error"] = Sensor("battery", "bitmap22", 12)
<1> DEFINE mains == {"ppv1", "ppv2", "ppv3", "ppv4", "ppv", "house_consumption", "pbattery1",
                     "active_power", "grid_in_out", "pv1_mode", "pv2_mode", "pv1_mode_label",
                     "pv2_mode_label"}
           bats == {"battery_error_l", "battery_error_h", "battery_error"}
<1>1. \A f, g : \A x \in DOMAIN f : Over(f, g)[x] = f[x] /\ x \in DOMAIN Over(f, g)
  BY DEF Over
<1>2. \A f, g : \A x \in DOMAIN g : x \notin DOMAIN f => Over(f, g)[x] = g[x]
  BY DEF Over
<1>3. mains \subseteq DOMAIN registry /\ bats \subseteq DOMAIN batteryRegistry
      /\ bats \cap DOMAIN registry = {}
  BY DEF registry, batteryRegistry
<1>4. \A x \in mains : Registers[x] = registry[x]
  BY <1>1, <1>3 DEF Registers
<1>5. \A x \in bats : Registers[x] = batteryRegistry[x]
  BY <1>1, <1>2, <1>3 DEF Registers
<1>6. QED
  BY <1>4, <1>5 DEF registry, batteryRegistry

\* The registers of a whole block are words.
LEMMA BlockIs ==
  ASSUME NEW d \in Devices, NEW b \in Blocks, NEW n \in Nat
  PROVE  Len(BlockOf(d, b, n)) = n /\ \A i \in 1..n : BlockOf(d, b, n)[i] \in Word
<1>1. DOMAIN d.words = Blocks
  BY DeviceAssumption DEF Count, Blocks
<1>2. \A i \in DOMAIN d.words[b] : d.words[b][i] \in Word
  BY <1>1, DeviceAssumption
<1>3. 0 \in Word
  <2>1. 2^W \in Nat /\ 2^W > 0
    BY WidthAssumption, Power
  <2>2. QED
    BY <2>1 DEF Word
<1> DEFINE w == d.words[b]
<1> HIDE DEF w
<1>4. BlockOf(d, b, n) = [i \in 1..n |-> IF i - 1 \in DOMAIN w THEN w[i - 1] ELSE 0]
  BY DEF BlockOf, w
<1>5. \A i \in DOMAIN w : w[i] \in Word
  BY <1>2 DEF w
<1>6. QED
  BY <1>3, <1>4, <1>5

\* What has a number is one.
LEMMA NumIs == ASSUME NEW n, Num(n) \in Reading PROVE n \in Int /\ Num(n).num = n
<1>1. "num" \in DOMAIN Num(n) /\ Num(n).num = n
  BY DEF Num
<1>2. CASE Num(n) \in [num: Int]
  BY <1>1, <1>2
<1>3. CASE Num(n) \in [text: SUBSET Int]
  <2>1. DOMAIN Num(n) = {"num"} /\ DOMAIN Num(n) = {"text"}
    BY <1>3 DEF Num
  <2>2. QED
    BY <2>1
<1>4. QED
  BY <1>1, <1>2, <1>3 DEF Reading

\* Computed sensors of the main block.
LEMMA MainDerived ==
  ASSUME NEW d \in Devices
  PROVE  LET N(s) == Real(d, s).num
         IN /\ N("house_consumption") =
                 N("ppv1") + N("ppv2") + N("ppv3") + N("ppv4") + N("pbattery1") - N("active_power")
            /\ N("ppv") = (N("ppv1") + N("ppv2") + N("ppv3") + N("ppv4")) % 2^(2 * W)
            /\ (N("grid_in_out") = 1) <=> (N("active_power") >= 90)
            /\ (N("grid_in_out") = 2) <=> (N("active_power") < -90)
            /\ Real(d, "pv1_mode_label").text = {N("pv1_mode")} \cap PvModes
            /\ Real(d, "pv2_mode_label").text = {N("pv2_mode")} \cap PvModes
<1>1. PICK data : data = BlockOf(d, "main", 125)
  OBVIOUS
<1>2. d.served["main"] = 125 /\ Len(data) = 125
  <2>1. PICK b \in Blocks : b = "main"
    BY DEF Blocks
  <2>2. PICK n \in Nat : n = 125
    OBVIOUS
  <2>3. Len(BlockOf(d, b, n)) = n
    BY BlockIs
  <2>4. QED
    BY <1>1, <2>1, <2>2, <2>3, Served
<1>3. \A s : Registers[s].block = "main" => Real(d, s) = Calculator(s, data)
  BY <1>1, <1>2 DEF Real
<1>4. /\ Real(d, "ppv1") = Num(uint32Reader(data, 5)) /\ Real(d, "ppv2") = Num(uint32Reader(data, 9))
      /\ Real(d, "ppv3") = Num(uint32Reader(data, 13)) /\ Real(d, "ppv4") = Num(uint32Reader(data, 17))
  BY <1>3, Rows DEF Sensor, Calculator
<1>5. /\ Real(d, "pbattery1") = Num(int32Reader(data, 82))
      /\ Real(d, "active_power") = Num(int16Reader(data, 40))
      /\ Real(d, "grid_in_out") = Num(GridInOut(int16Reader(data, 40)))
  BY <1>3, Rows DEF Sensor, Calculator
<1>6. Real(d, "ppv") = Num(Ppv(data)) /\ Real(d, "house_consumption") = Num(HouseConsumption(data))
  BY <1>3, Rows DEF Sensor, Calculator
<1>7. /\ Real(d, "pv1_mode") = Num(lowByteReader(data, 20))
      /\ Real(d, "pv2_mode") = Num(highByteReader(data, 20))
      /\ Real(d, "pv1_mode_label") = Text(enumLReader(data, 20, PvModes))
      /\ Real(d, "pv2_mode_label") = Text(enumHReader(data, 20, PvModes))
  BY <1>3, Rows DEF Sensor, Calculator
<1>8. {"ppv1", "ppv2", "ppv3", "ppv4", "pbattery1", "active_power"} \subseteq Names
  BY DEF Names, Registers, Over, registry
<1>9. /\ uint32Reader(data, 5) \in Int /\ uint32Reader(data, 9) \in Int
      /\ uint32Reader(data, 13) \in Int /\ uint32Reader(data, 17) \in Int
      /\ int32Reader(data, 82) \in Int /\ int16Reader(data, 40) \in Int
  BY <1>4, <1>5, <1>8, RealIs, NumIs
<1>10. \A n : Num(n).num = n
  BY DEF Num
<1>11. \A t : Text(t).text = t
  BY DEF Text
<1>12. PvSum(data) = uint32Reader(data, 5) + uint32Reader(data, 9) + uint32Reader(data, 13)
                       + uint32Reader(data, 17)
  BY DEF PvSum
<1>13. HouseConsumption(data) = PvSum(data) + int32Reader(data, 82) - int16Reader(data, 40)
  BY DEF HouseConsumption
<1>14. /\ enumLReader(data, 20, PvModes) = {lowByteReader(data, 20)} \cap PvModes
       /\ enumHReader(data, 20, PvModes) = {highByteReader(data, 20)} \cap PvModes
  BY <1>2 DEF enumLReader, enumHReader, Has
<1>15. \A v \in Int : (GridInOut(v) = 1 <=> v >= 90) /\ (GridInOut(v) = 2 <=> v < -90)
  BY DEF GridInOut
<1>16. QED
  BY <1>4, <1>5, <1>6, <1>7, <1>9, <1>10, <1>11, <1>12, <1>13, <1>14, <1>15 DEF Ppv

\* The bitmap of the battery.
LEMMA BatteryDerived ==
  ASSUME NEW d \in Devices, d.served["battery"] > 0, NEW k \in ErrorBits
  PROVE  LET N(s) == Real(d, s).num
             Bit(n, j) == (n \div 2^j) % 2 = 1
         IN /\ k < W /\ N("battery_error_l") # 0 =>
                 (k \in Real(d, "battery_error").text <=> Bit(N("battery_error_l"), k))
            /\ k >= W /\ N("battery_error_h") # 0 =>
                 (k \in Real(d, "battery_error").text <=> Bit(N("battery_error_h"), k - W))
<1>1. PICK data : data = BlockOf(d, "battery", 24)
  OBVIOUS
<1>2. d.served["battery"] = 24
  BY Served
<1>3. Len(data) = 24 /\ data[13] \in Word /\ data[7] \in Word
  <2>1. PICK b \in Blocks : b = "battery"
    BY DEF Blocks
  <2>2. PICK n \in Nat : n = 24
    OBVIOUS
  <2>3. Len(BlockOf(d, b, n)) = n /\ \A i \in 1..n : BlockOf(d, b, n)[i] \in Word
    BY BlockIs
  <2>4. Len(data) = 24 /\ \A i \in 1..24 : data[i] \in Word
    BY <1>1, <2>1, <2>2, <2>3
  <2>5. QED
    BY <2>4
<1>4. \A s : Registers[s].block = "battery" => Real(d, s) = Calculator(s, data)
  BY <1>1, <1>2 DEF Real
<1>5. /\ Real(d, "battery_error_l") = Num(uint16Reader(data, 6))
      /\ Real(d, "battery_error_h") = Num(uint16Reader(data, 12))
      /\ Real(d, "battery_error") = Text(enumBitmap22Reader(data, 12, 6, ErrorBits))
  <2>1. \A i : Sensor("battery", "uint16", i).block = "battery"
               /\ Sensor("battery", "uint16", i).reader = "uint16"
               /\ Sensor("battery", "uint16", i).at = i
    BY DEF Sensor
  <2>2. \A i : Sensor("battery", "bitmap22", i).block = "battery"
               /\ Sensor("battery", "bitmap22", i).reader = "bitmap22"
               /\ Sensor("battery", "bitmap22", i).at = i
    BY DEF Sensor
  <2>3. \A s : Registers[s].reader = "uint16"
                 => Calculator(s, data) = Num(uint16Reader(data, Registers[s].at))
    BY DEF Calculator
  <2>4. \A s : Registers[s].reader = "bitmap22"
                 => Calculator(s, data)
                      = Text(enumBitmap22Reader(data, Registers[s].at, 6, ErrorBits))
    BY DEF Calculator
  <2>5. QED
    BY <1>4, <2>1, <2>2, <2>3, <2>4, Rows
<1>6. /\ uint16Reader(data, 6) # 0 => uint16Reader(data, 6) = data[7]
      /\ uint16Reader(data, 12) # 0 => uint16Reader(data, 12) = data[13]
  BY <1>3 DEF uint16Reader
<1>7. enumBitmap22Reader(data, 12, 6, ErrorBits) = decodeBitmap(data[13] * 2^W + data[7], ErrorBits)
  BY <1>3 DEF enumBitmap22Reader, Has
<1>8. k \in decodeBitmap(data[13] * 2^W + data[7], ErrorBits)
        <=> ((data[13] * 2^W + data[7]) \div 2^k) % 2 = 1
  BY DEF decodeBitmap
<1>9. k \in Nat
  BY LabelsAssumption
<1>10. /\ k < W => ((data[13] * 2^W + data[7]) \div 2^k) % 2 = (data[7] \div 2^k) % 2
       /\ k >= W => (data[13] * 2^W + data[7]) \div 2^k = data[13] \div 2^(k - W)
  BY <1>3, <1>9, Bits
<1>11. \A n : Num(n).num = n
  BY DEF Num
<1>12. \A t : Text(t).text = t
  BY DEF Text
<1> DEFINE v == data[13] * 2^W + data[7]
           e == Real(d, "battery_error").text
<1>13. k \in e <=> (v \div 2^k) % 2 = 1
  BY <1>5, <1>7, <1>8, <1>12
<1>14. ASSUME k < W, Real(d, "battery_error_l").num # 0
       PROVE  k \in e <=> (Real(d, "battery_error_l").num \div 2^k) % 2 = 1
  <2>1. Real(d, "battery_error_l").num = data[7]
    BY <1>5, <1>6, <1>11, <1>14
  <2>2. QED
    BY <1>10, <1>13, <1>14, <2>1
<1>15. ASSUME k >= W, Real(d, "battery_error_h").num # 0
       PROVE  k \in e <=> (Real(d, "battery_error_h").num \div 2^(k - W)) % 2 = 1
  <2>1. Real(d, "battery_error_h").num = data[13]
    BY <1>5, <1>6, <1>11, <1>15
  <2>2. QED
    BY <1>10, <1>13, <1>15, <2>1
<1>16. QED
  BY <1>14, <1>15

\* With an error GetSensors returns nothing.
NothingOnError == bulk.error => bulk.readings = NoReadings

\* DerivedAgree, for registers of any even width and any device: the sums, the
\* directions, the labels and the bitmap of two registers.
THEOREM ComputedSensorsAgree == FairSpec => []DerivedAgree
<1>1. Init => NothingOnError
  BY DEF Init, InverterInit, NoBulk, NothingOnError
<1>2. NothingOnError /\ [Next]_vars => NothingOnError'
  <2> SUFFICES ASSUME NothingOnError, [Next]_vars PROVE NothingOnError'
    OBVIOUS
  <2>1. CASE bulk' = bulk
    BY <2>1 DEF NothingOnError
  <2>2. CASE bulk' = NoBulk
    BY <2>2 DEF NothingOnError, NoBulk
  <2>3. ASSUME NEW b, NEW n, NEW st, NEW r, NEW f,
               Decode(b, n, st) \/ Proceed(st, r, f) \/ ReturnsError
        PROVE  NothingOnError'
    <3>1. CASE ReturnsError
      BY <2>2, <3>1 DEF ReturnsError
    <3>2. ASSUME NEW q, NEW g, Proceed(st, q, g) PROVE NothingOnError'
      <4>1. CASE bulk' = [readings |-> q, error |-> FALSE, failed |-> g]
        BY <4>1 DEF NothingOnError
      <4>2. QED
        BY <2>1, <3>2, <4>1 DEF Proceed
    <3>3. QED
      BY <2>3, <3>1, <3>2 DEF Decode
  <2>4. CASE Discover \/ Connect \/ Flags \/ ReadReturned \/ ReadDone \/ SelectTimer \/ SelectDone
             \/ Return \/ Signal \/ UNCHANGED vars \/ Info \/ ReadNext
    <3>1. bulk' = bulk
      BY <2>4 DEF Discover, Connect, Flags, ReadReturned, ReadDone, SelectTimer, SelectDone, Return,
                  Signal, Cancel, vars, inverterVars, deviceVars, answerVars, Info, CallGetInfo,
                  ReadNext, CallReadSensor
    <3>2. QED
      BY <2>1, <3>1
  <2>5. CASE CallStep
    <3>1. CASE GetInfo \/ ReadSensor
      BY <2>1, <3>1 DEF GetInfo, ReadSensor
    <3>2. CASE ReadMain \/ ReadBattery \/ ReadMeter \/ ReadMPPT
      BY <2>3, <3>2 DEF ReadMain, ReadBattery, ReadMeter, ReadMPPT
    <3>3. QED
      BY <2>5, <3>1, <3>2 DEF CallStep, Transaction
  <2>6. CASE LibraryCall
    <3>1. bulk' = bulk \/ bulk' = NoBulk
      BY <2>6 DEF LibraryCall, CallGetSensors, CallReadSensor
    <3>2. QED
      BY <2>1, <2>2, <3>1
  <2>7. QED
    BY <2>4, <2>5, <2>6 DEF Next, Main
<1>3. IInv /\ NothingOnError => DerivedAgree
  <2> SUFFICES ASSUME IInv, NothingOnError PROVE DerivedAgree
    OBVIOUS
  <2> DEFINE v == bulk.readings
  <2>1. device \in Devices
    BY DEF IInv, ReadingInv
  <2>2. \A s \in DOMAIN v : v[s] = Real(device, s) /\ device.served[Registers[s].block] > 0
    <3>1. CASE bulk.error
      BY <3>1 DEF NothingOnError, NoReadings
    <3>2. CASE ~bulk.error
      BY <3>2 DEF IInv, ReadingInv, Gathered
    <3>3. QED
      BY <3>1, <3>2
  <2> HIDE DEF v
  <2>3. {"ppv1", "ppv2", "ppv3", "ppv4", "ppv", "house_consumption", "pbattery1", "active_power",
         "grid_in_out", "pv1_mode", "pv2_mode", "pv1_mode_label", "pv2_mode_label"}
          \subseteq SensorsOf("main")
    <3>1. {"ppv1", "ppv2", "ppv3", "ppv4", "ppv", "house_consumption", "pbattery1", "active_power",
           "grid_in_out", "pv1_mode", "pv2_mode", "pv1_mode_label", "pv2_mode_label"} \subseteq Names
      BY DEF Names, Registers, Over, registry
    <3>2. QED
      BY <3>1, Rows DEF SensorsOf, Sensor
  <2>4. {"battery_error_l", "battery_error_h", "battery_error"} \subseteq SensorsOf("battery")
    <3>1. {"battery_error_l", "battery_error_h", "battery_error"} \subseteq Names
      BY DEF Names, Registers, Over, batteryRegistry
    <3>2. QED
      BY <3>1, Rows DEF SensorsOf, Sensor
  <2>5. ASSUME SensorsOf("main") \subseteq DOMAIN v
        PROVE  /\ v["ppv1"] = Real(device, "ppv1") /\ v["ppv2"] = Real(device, "ppv2")
               /\ v["ppv3"] = Real(device, "ppv3") /\ v["ppv4"] = Real(device, "ppv4")
               /\ v["ppv"] = Real(device, "ppv")
               /\ v["house_consumption"] = Real(device, "house_consumption")
               /\ v["pbattery1"] = Real(device, "pbattery1")
               /\ v["active_power"] = Real(device, "active_power")
               /\ v["grid_in_out"] = Real(device, "grid_in_out")
               /\ v["pv1_mode"] = Real(device, "pv1_mode") /\ v["pv2_mode"] = Real(device, "pv2_mode")
               /\ v["pv1_mode_label"] = Real(device, "pv1_mode_label")
               /\ v["pv2_mode_label"] = Real(device, "pv2_mode_label")
    BY <2>2, <2>3, <2>5
  <2>6. ASSUME SensorsOf("battery") \subseteq DOMAIN v
        PROVE  /\ device.served["battery"] > 0
               /\ v["battery_error_l"] = Real(device, "battery_error_l")
               /\ v["battery_error_h"] = Real(device, "battery_error_h")
               /\ v["battery_error"] = Real(device, "battery_error")
    <3>1. "battery_error" \in DOMAIN v /\ Registers["battery_error"].block = "battery"
      BY <2>4, <2>6, Rows DEF Sensor
    <3>2. QED
      BY <2>2, <2>4, <2>6, <3>1
  <2>7. QED
    BY <2>1, <2>5, <2>6, MainDerived, BatteryDerived DEF DerivedAgree, v
<1>4. QED
  BY Invariance, <1>1, <1>2, <1>3, PTL DEF FairSpec
=============================================================================
