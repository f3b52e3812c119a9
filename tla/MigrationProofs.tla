-------------------------- MODULE MigrationProofs ---------------------------
(***************************************************************************)
(* Proofs about Migration: for any number of starts, kills and failing     *)
(* statements.                                                             *)
(***************************************************************************)
EXTENDS Migration, WellFoundedInduction, TLAPS

-----------------------------------------------------------------------------
(* The program.                                                            *)

Below(j) == IF j <= 7 THEN Always ELSE IF j <= 14 THEN 2 ELSE IF j <= 17 THEN 3 ELSE 4

\* The places of the statements that make a part, drop one, or raise the
\* version.
Makes == (1..7) \cup (10..13) \cup {15, 16, 18}
Drops == {8, 9}
Raises == {14, 17, 19}

PartAt(j) ==
    CASE j = 1 -> "identity" [] j = 2 -> "samples" [] j = 3 -> "nameIndex"
      [] j = 4 -> "rated_power" [] j = 5 -> "firmware" [] j = 6 -> "dsp_version"
      [] j = 7 -> "arm_version" [] j = 8 -> "cursor" [] j = 9 -> "events"
      [] j = 10 -> "cursor" [] j = 11 -> "cursorRow" [] j = 12 -> "events"
      [] j = 13 -> "eventsIndex" [] j = 15 -> "hourly" [] j = 16 -> "daily"
      [] j = 18 -> "timeIndex"

Statements ==
    {Base[i] : i \in 1..3} \cup {Alter[i] : i \in 1..4} \cup {DropVoltage[i] : i \in 1..2}
        \cup {CreateVoltage[i] : i \in 1..4} \cup {Statement("v2", 2, "version", 2)}
        \cup {Aggregates[i] : i \in 1..3} \cup {TimeIndex[i] : i \in 1..2}

\* c is a and b in a row, which are m and n long.
InARow(c, a, b, m, n) ==
    /\ c \in Seq(Statements) /\ Len(c) = m + n
    /\ \A i \in 1..m : c[i] = a[i]
    /\ \A i \in 1..n : c[i + m] = b[i]

\* What \o makes of two sequences.
LEMMA Joined ==
  \A a, b \in Seq(Statements) : InARow(a \o b, a, b, Len(a), Len(b))
BY DEF InARow

\* A sequence of two statements.
LEMMA Long2 ==
  ASSUME NEW a \in Statements, NEW b \in Statements
  PROVE  <<a, b>> \in Seq(Statements) /\ Len(<<a, b>>) = 2
OBVIOUS

\* A sequence of three statements.
LEMMA Long3 ==
  ASSUME NEW a \in Statements, NEW b \in Statements, NEW c \in Statements
  PROVE  <<a, b, c>> \in Seq(Statements) /\ Len(<<a, b, c>>) = 3
OBVIOUS

\* A sequence of four statements.
LEMMA Long4 ==
  ASSUME NEW a \in Statements, NEW b \in Statements, NEW c \in Statements, NEW d \in Statements
  PROVE  <<a, b, c, d>> \in Seq(Statements) /\ Len(<<a, b, c, d>>) = 4
OBVIOUS

\* The sequences of statements and their lengths.
LEMMA PiecesAre ==
  /\ Base \in Seq(Statements) /\ Len(Base) = 3
  /\ Alter \in Seq(Statements) /\ Len(Alter) = 4
  /\ DropVoltage \in Seq(Statements) /\ Len(DropVoltage) = 2
  /\ CreateVoltage \in Seq(Statements) /\ Len(CreateVoltage) = 4
  /\ Aggregates \in Seq(Statements) /\ Len(Aggregates) = 3
  /\ TimeIndex \in Seq(Statements) /\ Len(TimeIndex) = 2
<1>1. Base \in Seq(Statements) /\ Len(Base) = 3
  <2>1. Base = <<Base[1], Base[2], Base[3]>>
    BY DEF Base
  <2>2. Base[1] \in Statements /\ Base[2] \in Statements /\ Base[3] \in Statements
    BY DEF Statements
  <2>3. QED
    BY <2>1, <2>2, Long3
<1>2. Alter \in Seq(Statements) /\ Len(Alter) = 4
  <2> DEFINE a == Alter[1]
             b == Alter[2]
             c == Alter[3]
             d == Alter[4]
  <2>1. Alter = <<a, b, c, d>>
    BY DEF Alter
  <2>2. a \in Statements /\ b \in Statements /\ c \in Statements /\ d \in Statements
    BY DEF Statements
  <2> HIDE DEF a, b, c, d
  <2>3. QED
    BY <2>1, <2>2, Long4
<1>3. DropVoltage \in Seq(Statements) /\ Len(DropVoltage) = 2
  <2>1. DropVoltage = <<DropVoltage[1], DropVoltage[2]>>
    BY DEF DropVoltage
  <2>2. DropVoltage[1] \in Statements /\ DropVoltage[2] \in Statements
    BY DEF Statements
  <2>3. QED
    BY <2>1, <2>2, Long2
<1>4. CreateVoltage \in Seq(Statements) /\ Len(CreateVoltage) = 4
  <2> DEFINE a == CreateVoltage[1]
             b == CreateVoltage[2]
             c == CreateVoltage[3]
             d == CreateVoltage[4]
  <2>1. CreateVoltage = <<a, b, c, d>>
    BY DEF CreateVoltage
  <2>2. a \in Statements /\ b \in Statements /\ c \in Statements /\ d \in Statements
    BY DEF Statements
  <2> HIDE DEF a, b, c, d
  <2>3. QED
    BY <2>1, <2>2, Long4
<1>5. Aggregates \in Seq(Statements) /\ Len(Aggregates) = 3
  <2>1. Aggregates = <<Aggregates[1], Aggregates[2], Aggregates[3]>>
    BY DEF Aggregates
  <2>2. Aggregates[1] \in Statements /\ Aggregates[2] \in Statements /\ Aggregates[3] \in Statements
    BY DEF Statements
  <2>3. QED
    BY <2>1, <2>2, Long3
<1>6. TimeIndex \in Seq(Statements) /\ Len(TimeIndex) = 2
  <2>1. TimeIndex = <<TimeIndex[1], TimeIndex[2]>>
    BY DEF TimeIndex
  <2>2. TimeIndex[1] \in Statements /\ TimeIndex[2] \in Statements
    BY DEF Statements
  <2>3. QED
    BY <2>1, <2>2, Long2
<1>7. QED
  BY <1>1, <1>2, <1>3, <1>4, <1>5, <1>6

\* migrate is these in a row.
LEMMA ProgramIs ==
  /\ Program \in Seq(Statements) /\ Len(Program) = 19
  /\ \A i \in 1..3 : Program[i] = Base[i]
  /\ \A i \in 1..4 : Program[i + 3] = Alter[i]
  /\ \A i \in 1..2 : Program[i + 7] = DropVoltage[i]
  /\ \A i \in 1..4 : Program[i + 9] = CreateVoltage[i]
  /\ Program[14] = Statement("v2", 2, "version", 2)
  /\ \A i \in 1..3 : Program[i + 14] = Aggregates[i]
  /\ \A i \in 1..2 : Program[i + 17] = TimeIndex[i]
<1> DEFINE v == <<Statement("v2", 2, "version", 2)>>
           DC == DropVoltage \o CreateVoltage
           BA == Base \o Alter
           BAV == BA \o Voltage
           BAVA == BAV \o Aggregates
<1>1. v \in Seq(Statements) /\ Len(v) = 1 /\ v[1] = Statement("v2", 2, "version", 2)
  BY DEF Statements
<1> HIDE DEF v
<1>2. DC \in Seq(Statements) /\ Len(DC) = 6
      /\ (\A i \in 1..2 : DC[i] = DropVoltage[i]) /\ (\A i \in 1..4 : DC[i + 2] = CreateVoltage[i])
  <2>1. InARow(DropVoltage \o CreateVoltage, DropVoltage, CreateVoltage, 2, 4)
    BY PiecesAre, Joined, Zenon
  <2>2. 2 + 4 = 6
    OBVIOUS
  <2>3. QED
    BY <2>1, <2>2, Zenon DEF InARow
<1> HIDE DEF DC
<1>3. Voltage = DC \o v
  BY DEF Voltage, DC, v
<1>4. Voltage \in Seq(Statements) /\ Len(Voltage) = 7
      /\ (\A i \in 1..6 : Voltage[i] = DC[i]) /\ Voltage[7] = v[1]
  <2>1. InARow(DC \o v, DC, v, 6, 1)
    BY <1>1, <1>2, Joined, Zenon
  <2>2. 6 + 1 = 7 /\ 1 + 6 = 7 /\ 1 \in 1..1
    OBVIOUS
  <2>3. Voltage[1 + 6] = v[1]
    BY <1>3, <2>1, <2>2, Zenon DEF InARow
  <2>4. QED
    BY <1>3, <2>1, <2>2, <2>3, Zenon DEF InARow
<1>5. BA \in Seq(Statements) /\ Len(BA) = 7
      /\ (\A i \in 1..3 : BA[i] = Base[i]) /\ (\A i \in 1..4 : BA[i + 3] = Alter[i])
  <2>1. InARow(Base \o Alter, Base, Alter, 3, 4)
    BY PiecesAre, Joined, Zenon
  <2>2. 3 + 4 = 7
    OBVIOUS
  <2>3. QED
    BY <2>1, <2>2, Zenon DEF InARow
<1> HIDE DEF BA
<1>6. BAV \in Seq(Statements) /\ Len(BAV) = 14
      /\ (\A i \in 1..7 : BAV[i] = BA[i]) /\ (\A i \in 1..7 : BAV[i + 7] = Voltage[i])
  <2>1. InARow(BA \o Voltage, BA, Voltage, 7, 7)
    BY <1>4, <1>5, Joined, Zenon
  <2>2. 7 + 7 = 14
    OBVIOUS
  <2>3. QED
    BY <2>1, <2>2, Zenon DEF InARow
<1> HIDE DEF BAV
<1>7. BAVA \in Seq(Statements) /\ Len(BAVA) = 17
      /\ (\A i \in 1..14 : BAVA[i] = BAV[i]) /\ (\A i \in 1..3 : BAVA[i + 14] = Aggregates[i])
  <2>1. InARow(BAV \o Aggregates, BAV, Aggregates, 14, 3)
    BY <1>6, PiecesAre, Joined, Zenon
  <2>2. 14 + 3 = 17
    OBVIOUS
  <2>3. QED
    BY <2>1, <2>2, Zenon DEF InARow
<1> HIDE DEF BAVA
<1>8. Program = BAVA \o TimeIndex
  BY DEF Program, BA, BAV, BAVA
<1>9. Program \in Seq(Statements) /\ Len(Program) = 19
      /\ (\A i \in 1..17 : Program[i] = BAVA[i]) /\ (\A i \in 1..2 : Program[i + 17] = TimeIndex[i])
  <2>1. InARow(BAVA \o TimeIndex, BAVA, TimeIndex, 17, 2)
    BY <1>7, PiecesAre, Joined, Zenon
  <2>2. 17 + 2 = 19
    OBVIOUS
  <2>3. QED
    BY <1>8, <2>1, <2>2, Zenon DEF InARow
<1>10. ASSUME NEW i \in 1..14 PROVE Program[i] = BAV[i]
  <2>1. i \in 1..17
    OBVIOUS
  <2>2. QED
    BY <1>7, <1>9, <2>1, Zenon
<1>11. ASSUME NEW i \in 1..3 PROVE Program[i + 14] = Aggregates[i]
  <2>1. i + 14 \in 1..17
    OBVIOUS
  <2>2. QED
    BY <1>7, <1>9, <2>1, Zenon
<1>12. \A i \in 1..7 : Program[i] = BA[i]
  BY <1>6, <1>10
<1>13. \A i \in 1..7 : Program[i + 7] = Voltage[i]
  BY <1>6, <1>10
<1>14. (\A i \in 1..3 : Program[i] = Base[i]) /\ (\A i \in 1..4 : Program[i + 3] = Alter[i])
  BY <1>5, <1>12
<1>15. \A i \in 1..6 : Program[i + 7] = DC[i]
  BY <1>4, <1>13
<1>16. Program[14] = v[1]
  <2>1. Program[7 + 7] = Voltage[7]
    BY <1>13
  <2>2. QED
    BY <1>4, <2>1
<1>17. \A i \in 1..2 : Program[i + 7] = DropVoltage[i]
  BY <1>2, <1>15
<1>18. \A i \in 1..4 : Program[i + 9] = CreateVoltage[i]
  <2>1. \A i \in 1..4 : Program[(i + 2) + 7] = DC[i + 2] /\ (i + 2) + 7 = i + 9
    BY <1>15
  <2>2. QED
    BY <1>2, <2>1
<1>19. QED
  BY <1>1, <1>9, <1>11, <1>14, <1>16, <1>17, <1>18

\* What every statement does to which part, and below which version.
LEMMA StatementsAre ==
  /\ Opened = 20
  /\ \A j \in 1..19 : Program[j].below = Below(j)
  /\ \A j \in Makes : Program[j].op \in {"create", "insert"} /\ Program[j].part = PartAt(j)
  /\ \A j \in Drops : Program[j].op = "drop" /\ Program[j].part = PartAt(j)
  /\ Program[14].op = "version" /\ Program[14].part = 2
  /\ Program[17].op = "version" /\ Program[17].part = 3
  /\ Program[19].op = "version" /\ Program[19].part = 4
  /\ \A j \in 1..19 : Program[j].exec = "base" <=> j \in 1..3
<1> DEFINE S(j, below, op, part) ==
             /\ Program[j].below = below /\ Program[j].op = op /\ Program[j].part = part
             /\ Program[j].exec = "base" <=> j \in 1..3
<1>1. /\ S(1, 5, "create", "identity") /\ S(2, 5, "create", "samples")
      /\ S(3, 5, "create", "nameIndex")
  <2>1. Program[1] = Base[1] /\ Program[2] = Base[2] /\ Program[3] = Base[3]
    BY ProgramIs
  <2>2. QED
    BY <2>1 DEF Base, Statement, Always
<1>2. /\ S(4, 5, "create", "rated_power") /\ S(5, 5, "create", "firmware")
      /\ S(6, 5, "create", "dsp_version") /\ S(7, 5, "create", "arm_version")
  <2>1. /\ Program[1 + 3] = Alter[1] /\ Program[2 + 3] = Alter[2]
        /\ Program[3 + 3] = Alter[3] /\ Program[4 + 3] = Alter[4]
    BY ProgramIs
  <2>2. QED
    BY <2>1 DEF Alter, Statement, Always
<1>3. S(8, 2, "drop", "cursor") /\ S(9, 2, "drop", "events")
  <2>1. Program[1 + 7] = DropVoltage[1] /\ Program[2 + 7] = DropVoltage[2]
    BY ProgramIs
  <2>2. QED
    BY <2>1 DEF DropVoltage, Statement
<1>4. /\ S(10, 2, "create", "cursor") /\ S(11, 2, "insert", "cursorRow")
      /\ S(12, 2, "create", "events") /\ S(13, 2, "create", "eventsIndex")
  <2>1. /\ Program[1 + 9] = CreateVoltage[1] /\ Program[2 + 9] = CreateVoltage[2]
        /\ Program[3 + 9] = CreateVoltage[3] /\ Program[4 + 9] = CreateVoltage[4]
    BY ProgramIs
  <2>2. QED
    BY <2>1 DEF CreateVoltage, Statement
<1>5. S(14, 2, "version", 2)
  BY ProgramIs DEF Statement
<1>6. /\ S(15, 3, "create", "hourly") /\ S(16, 3, "create", "daily") /\ S(17, 3, "version", 3)
  <2>1. /\ Program[1 + 14] = Aggregates[1] /\ Program[2 + 14] = Aggregates[2]
        /\ Program[3 + 14] = Aggregates[3]
    BY ProgramIs
  <2>2. QED
    BY <2>1 DEF Aggregates, Statement
<1>7. S(18, 4, "create", "timeIndex") /\ S(19, 4, "version", 4)
  <2>1. Program[1 + 17] = TimeIndex[1] /\ Program[2 + 17] = TimeIndex[2]
    BY ProgramIs
  <2>2. QED
    BY <2>1 DEF TimeIndex, Statement
<1>8. Opened = 20
  BY ProgramIs DEF Opened
<1> HIDE DEF S
<1>9. ASSUME NEW j \in 1..19
      PROVE  Program[j].below = Below(j) /\ (Program[j].exec = "base" <=> j \in 1..3)
  <2>1. CASE j \in 1..7
    BY <1>1, <1>2, <2>1 DEF S, Below, Always
  <2>2. CASE j \in 8..14
    BY <1>3, <1>4, <1>5, <2>2 DEF S, Below, Always
  <2>3. CASE j \in 15..19
    BY <1>6, <1>7, <2>3 DEF S, Below, Always
  <2>4. QED
    BY <2>1, <2>2, <2>3
<1>10. ASSUME NEW j \in Makes
       PROVE  Program[j].op \in {"create", "insert"} /\ Program[j].part = PartAt(j)
  <2>1. CASE j \in 1..7
    BY <1>1, <1>2, <2>1 DEF S, PartAt
  <2>2. CASE j \in 10..13
    BY <1>4, <2>2 DEF S, PartAt
  <2>3. CASE j \in {15, 16, 18}
    BY <1>6, <1>7, <2>3 DEF S, PartAt
  <2>4. QED
    BY <2>1, <2>2, <2>3 DEF Makes
<1>11. \A j \in Drops : Program[j].op = "drop" /\ Program[j].part = PartAt(j)
  BY <1>3 DEF S, PartAt, Drops
<1>12. QED
  BY <1>5, <1>6, <1>7, <1>8, <1>9, <1>10, <1>11 DEF S

-----------------------------------------------------------------------------
(* The inductive invariant.                                                *)

Versions == {0, 2, 3, 4}

\* What holds whatever fails: the types, which parts may have an old form, and
\* that what the first Exec has to make is there behind it.
StorageInv ==
    /\ version \in Versions /\ schemaVersion \in Versions
    /\ pc \in 0..20 /\ cursor \in Nat
    /\ schema \in [Parts -> {"none", "old", "new"}]
    /\ \A p \in Parts : schema[p] = "old" => p \in {"cursor", "cursorRow", "events"}
    /\ \A j \in 1..3 : j < pc => schema[PartAt(j)] = "new"

\* The version is that of the database when migrate began, or what it has been
\* raised to behind that.
Raised ==
    IF pc <= 14 THEN schemaVersion
    ELSE IF pc <= 17 THEN (IF schemaVersion < 2 THEN 2 ELSE schemaVersion)
    ELSE IF pc <= 19 THEN (IF schemaVersion < 3 THEN 3 ELSE schemaVersion)
    ELSE 4

\* What holds as long as no statement has failed: an old form only in a
\* database without a version; the promise of the version; migrate does only
\* what its version asks for; every part up to it is there; the old tables
\* are gone once they have been dropped; and without a version no cursor.
VersionInv ==
    /\ \A p \in Parts : schema[p] = "old" => version = 0
    /\ \A p \in PartsOf(version) : schema[p] = "new"
    /\ pc # Down => version = Raised
    /\ \A j \in 1..19 : pc = j => schemaVersion < Below(j)
    /\ \A j \in Makes : j < pc => schema[PartAt(j)] = "new"
    /\ pc >= 9 => schema["cursor"] # "old" /\ schema["cursorRow"] # "old"
    /\ pc >= 10 => schema["events"] # "old"
    /\ version = 0 => cursor = 0

IInv == StorageInv /\ (~failed => VersionInv)

-----------------------------------------------------------------------------
(* Lemmas about the places and the parts.                                  *)

\* A set of natural numbers has a least one, and Min is it.
LEMMA MinIs ==
  ASSUME NEW T \in SUBSET Nat, T # {}
  PROVE  Min(T) \in T /\ \A y \in T : Min(T) <= y
<1>1. IsWellFoundedOn(OpToRel(<, Nat), Nat)
  BY NatLessThanWellFounded
<1>2. PICK x \in T : \A y \in T : ~(<<y, x>> \in OpToRel(<, Nat))
  BY <1>1, WFMin
<1>3. ASSUME NEW y \in T PROVE x <= y
  <2>1. y < x => <<y, x>> \in OpToRel(<, Nat)
    BY DEF OpToRel
  <2>2. ~(y < x)
    BY <1>2, <2>1, Zenon
  <2>3. QED
    BY <2>2
<1>4. QED
  BY <1>3 DEF Min

\* migrate goes on with a later statement that the version asks for, and if no
\* Exec has to be abandoned it passes over those only that the version does
\* not ask for.
LEMMA FollowingIs ==
  ASSUME schemaVersion \in Versions, NEW i \in 1..19, NEW a \in BOOLEAN
  PROVE  /\ Following(i, a) \in (i + 1)..20
         /\ \A j \in 1..19 : Following(i, a) = j => schemaVersion < Below(j)
         /\ ~a => \A j \in (i + 1)..19 : j < Following(i, a) => Below(j) <= schemaVersion
<1> DEFINE T == {Opened} \cup {j \in (i + 1)..Len(Program) :
                   /\ schemaVersion < Program[j].below
                   /\ a => Program[j].exec # Program[i].exec}
<1>1. Len(Program) = 19 /\ Opened = 20 /\ \A j \in 1..19 : Program[j].below = Below(j)
  BY ProgramIs, StatementsAre
<1>2. T \in SUBSET Nat /\ T # {} /\ T \subseteq (i + 1)..20
  BY <1>1
<1>3. \A j \in T : j # 20 => schemaVersion < Below(j)
  BY <1>1
<1>4. ~a => \A j \in (i + 1)..19 : schemaVersion < Below(j) => j \in T
  BY <1>1
<1>5. Following(i, a) = Min(T)
  BY DEF Following
<1> HIDE DEF T
<1>6. Min(T) \in T /\ \A y \in T : Min(T) <= y
  BY <1>2, MinIs
<1>7. \A j \in 1..19 : Below(j) \in Nat
  BY DEF Below, Always
<1> DEFINE m == Min(T)
<1>8. m \in (i + 1)..20
  BY <1>2, <1>6
<1> HIDE DEF m
<1>9. ASSUME ~a, NEW j \in (i + 1)..19, j < m PROVE Below(j) <= schemaVersion
  <2>1. j \notin T
    BY <1>6, <1>8, <1>9 DEF m
  <2>2. ~(schemaVersion < Below(j))
    BY <1>4, <1>9, <2>1, Zenon
  <2>3. QED
    BY <1>7, <2>2 DEF Versions
<1>10. \A j \in 1..19 : m = j => schemaVersion < Below(j)
  BY <1>3, <1>6 DEF m
<1>11. QED
  BY <1>5, <1>8, <1>9, <1>10, Zenon DEF m

\* The part that a statement makes, and what becomes part of the promise of a
\* version.
LEMMA PartsAre ==
  /\ \A j \in Makes : PartAt(j) \in Parts
  /\ \A j \in 1..9 : PartAt(j) \in Parts
  /\ \A j \in 1..7 : PartAt(j) \notin {"cursor", "cursorRow", "events", "eventsIndex"}
  /\ \A j \in Makes, v \in Versions : Below(j) <= v => PartAt(j) \in PartsOf(v)
  /\ \A v \in Versions : PartsOf(v) \subseteq Parts
  /\ \A p \in VoltageParts : \E j \in Makes : j < 14 /\ PartAt(j) = p
  /\ \A p \in AggregateParts : \E j \in Makes : j < 17 /\ PartAt(j) = p
  /\ \A p \in Parts : \E j \in Makes : PartAt(j) = p
  /\ PartsOf(0) = {}
<1>1. /\ \A j \in Makes : PartAt(j) \in Parts
      /\ \A j \in 1..9 : PartAt(j) \in Parts
  BY DEF Makes, PartAt, Parts, Columns, BaseParts, VoltageParts, AggregateParts
<1>2. \A j \in 1..7 : PartAt(j) \notin {"cursor", "cursorRow", "events", "eventsIndex"}
  BY DEF PartAt
<1>3. \A j \in Makes, v \in Versions : Below(j) <= v => PartAt(j) \in PartsOf(v)
  BY DEF Makes, Versions, Below, Always, PartAt, PartsOf, VoltageParts, AggregateParts
<1>4. \A v \in Versions : PartsOf(v) \subseteq Parts
  BY DEF PartsOf, Parts
<1>5. /\ PartAt(10) = "cursor" /\ PartAt(11) = "cursorRow" /\ PartAt(12) = "events"
      /\ PartAt(13) = "eventsIndex" /\ PartAt(15) = "hourly" /\ PartAt(16) = "daily"
      /\ PartAt(1) = "identity" /\ PartAt(2) = "samples" /\ PartAt(3) = "nameIndex"
      /\ PartAt(4) = "rated_power" /\ PartAt(5) = "firmware" /\ PartAt(6) = "dsp_version"
      /\ PartAt(7) = "arm_version" /\ PartAt(18) = "timeIndex"
  BY DEF PartAt
<1>6. {1, 2, 3, 4, 5, 6, 7, 10, 11, 12, 13, 15, 16, 18} \subseteq Makes
  BY DEF Makes
<1>7. \A p \in VoltageParts : \E j \in Makes : j < 14 /\ PartAt(j) = p
  <2> TAKE p \in VoltageParts
  <2>1. p = PartAt(10) \/ p = PartAt(11) \/ p = PartAt(12) \/ p = PartAt(13)
    BY <1>5 DEF VoltageParts
  <2>2. QED
    BY <1>6, <2>1
<1>8. \A p \in AggregateParts : \E j \in Makes : j < 17 /\ PartAt(j) = p
  <2> TAKE p \in AggregateParts
  <2>1. p = PartAt(15) \/ p = PartAt(16)
    BY <1>5 DEF AggregateParts
  <2>2. QED
    BY <1>6, <2>1
<1>9. \A p \in Parts : \E j \in Makes : PartAt(j) = p
  <2> TAKE p \in Parts
  <2>1. CASE p \in VoltageParts \cup AggregateParts
    BY <1>7, <1>8, <2>1
  <2>2. CASE p \in BaseParts \cup {"timeIndex"}
    <3>1. p = PartAt(1) \/ p = PartAt(2) \/ p = PartAt(3) \/ p = PartAt(18)
      BY <1>5, <2>2 DEF BaseParts
    <3>2. QED
      BY <1>6, <3>1
  <2>3. CASE p \in Columns
    <3>1. p = PartAt(4) \/ p = PartAt(5) \/ p = PartAt(6) \/ p = PartAt(7)
      BY <1>5, <2>3 DEF Columns
    <3>2. QED
      BY <1>6, <3>1
  <2>4. QED
    BY <2>1, <2>2, <2>3 DEF Parts
<1>10. PartsOf(0) = {}
  BY DEF PartsOf
<1>11. QED
  BY <1>1, <1>2, <1>3, <1>4, <1>7, <1>8, <1>9, <1>10

-----------------------------------------------------------------------------
(* The invariant is inductive.                                             *)

\* It holds of a new file and of a database of every earlier release.
LEMMA InitInv == Init => IInv
<1> SUFFICES ASSUME Init PROVE IInv
  OBVIOUS
<1>1. PICK columns \in SUBSET Columns, old \in {{}, {"cursor", "cursorRow", "events"}},
           empty \in BOOLEAN :
        /\ old # {} => version = 0
        /\ schema = [p \in Parts |->
               IF p \in old THEN "old"
               ELSE IF p \in columns \cup PartsOf(version)
                        \cup (IF empty THEN {} ELSE BaseParts)
                    THEN "new" ELSE "none"]
  BY DEF Init
<1>2. /\ version \in Versions /\ schemaVersion = 0 /\ pc = 0
      /\ cursor \in IF version = 0 THEN {0} ELSE 0..MaxSaves
  BY DEF Init, Versions, Down
<1>3. cursor \in Nat /\ (version = 0 => cursor = 0)
  BY <1>2, MaxSavesAssumption
<1>4. schema \in [Parts -> {"none", "old", "new"}]
  BY <1>1
<1>5. \A p \in Parts : schema[p] = "old" => p \in old
  BY <1>1
<1>6. \A p \in Parts : schema[p] = "old" => version = 0 /\ p \in {"cursor", "cursorRow", "events"}
  BY <1>1, <1>5
<1>7. \A p \in PartsOf(version) : schema[p] = "new"
  <2>1. CASE version = 0
    BY <2>1, PartsAre
  <2>2. CASE version # 0
    <3>1. PartsOf(version) \subseteq Parts /\ old = {}
      BY <1>1, <1>2, <2>2, PartsAre
    <3>2. QED
      BY <1>1, <3>1
  <2>3. QED
    BY <2>1, <2>2
<1>8. StorageInv
  BY <1>2, <1>3, <1>4, <1>6 DEF StorageInv, Versions
<1>9. VersionInv
  BY <1>2, <1>3, <1>6, <1>7 DEF VersionInv, Down, Makes
<1>10. QED
  BY <1>8, <1>9 DEF IInv

\* A step that leaves the database as it is, down or on to another statement,
\* keeps what holds whatever fails.
LEMMA StorageKept ==
  ASSUME StorageInv, version' = version, schema' = schema, cursor' = cursor,
         schemaVersion' \in Versions, pc' \in 0..20,
         pc' <= 1 \/ pc >= 4 \/ pc' = pc
  PROVE  StorageInv'
<1>1. \A j \in 1..3 : j < pc' => schema[PartAt(j)] = "new"
  BY DEF StorageInv
<1>2. QED
  BY <1>1 DEF StorageInv

\* A statement that makes a part.
LEMMA MakesInv ==
  ASSUME IInv, Execute, pc \in Makes
  PROVE  IInv' /\ cursor' = cursor
<1> DEFINE p == PartAt(pc)
           n == Following(pc, FALSE)
<1>1. /\ version \in Versions /\ schemaVersion \in Versions /\ cursor \in Nat
      /\ schema \in [Parts -> {"none", "old", "new"}]
      /\ pc \in 1..19 /\ p \in Parts /\ schemaVersion < 5
  BY PartsAre DEF IInv, StorageInv, Makes, Versions
<1>2. Program[pc].op \in {"create", "insert"} /\ Program[pc].part = p
  BY StatementsAre
<1>3. /\ version' = version /\ cursor' = cursor /\ schemaVersion' = schemaVersion
      /\ schema' = Made(Program[pc]) /\ pc' = n /\ failed' = failed
  BY <1>2 DEF Execute
<1>4. /\ n \in (pc + 1)..20
      /\ \A j \in 1..19 : n = j => schemaVersion < Below(j)
      /\ \A j \in (pc + 1)..19 : j < n => Below(j) <= schemaVersion
  <2>1. pc \in 1..19
    BY <1>1
  <2>2. QED
    BY <1>1, <2>1, FollowingIs
<1> HIDE DEF n
<1>5. /\ schema' \in [Parts -> {"none", "old", "new"}]
      /\ \A q \in Parts : /\ schema[q] = "new" => schema'[q] = "new"
                          /\ schema'[q] = "old" => schema[q] = "old"
      /\ schema[p] # "old" => schema'[p] = "new"
  BY <1>1, <1>2, <1>3 DEF Made, Parts, Columns, BaseParts
<1>6. StorageInv'
  <2>1. ASSUME NEW j \in 1..3, j < n PROVE schema'[PartAt(j)] = "new"
    <3>1. CASE j < pc
      BY <1>5, <3>1, PartsAre DEF IInv, StorageInv
    <3>2. CASE j = pc
      <4>1. p \notin {"cursor", "cursorRow", "events"}
        BY <3>2, PartsAre
      <4>2. QED
        BY <1>1, <1>5, <3>2, <4>1 DEF IInv, StorageInv
    <3>3. CASE j > pc
      BY <1>1, <1>4, <2>1, <3>3 DEF Below, Always, Versions
    <3>4. QED
      BY <1>1, <3>1, <3>2, <3>3
  <2>2. \A q \in Parts : schema'[q] = "old" => q \in {"cursor", "cursorRow", "events"}
    BY <1>5 DEF IInv, StorageInv
  <2>3. QED
    BY <1>1, <1>3, <1>4, <1>5, <2>1, <2>2 DEF StorageInv
<1>7. ASSUME ~failed PROVE VersionInv'
  <2>1. VersionInv
    BY <1>7 DEF IInv
  <2>2. \A q \in Parts : schema'[q] = "old" => version' = 0
    BY <1>3, <1>5, <2>1 DEF VersionInv
  <2>3. \A q \in PartsOf(version') : schema'[q] = "new"
    BY <1>1, <1>3, <1>5, <2>1, PartsAre DEF VersionInv
  <2>4. version' = Raised'
    <3>1. version = Raised
      BY <1>1, <2>1 DEF VersionInv, Down
    <3>2. /\ pc < 14 /\ n > 14 => schemaVersion >= 2
          /\ pc < 17 /\ n > 17 => schemaVersion >= 3
          /\ pc < 19 /\ n > 19 => schemaVersion >= 4
      <4>1. Below(14) = 2 /\ Below(17) = 3 /\ Below(19) = 4
        BY DEF Below
      <4>2. QED
        BY <1>1, <1>4, <4>1 DEF Versions
    <3>3. pc # 14 /\ pc # 17 /\ pc # 19
      BY DEF Makes
    <3>4. QED
      BY <1>1, <1>3, <1>4, <3>1, <3>2, <3>3 DEF Raised, Versions
  <2>5. \A j \in 1..19 : pc' = j => schemaVersion' < Below(j)
    BY <1>3, <1>4
  <2>6. schema[p] # "old"
    <3>1. p \in {"cursor", "cursorRow", "events"} => pc >= 10
      BY <1>1, PartsAre DEF Makes
    <3>2. QED
      BY <1>1, <2>1, <3>1 DEF VersionInv, IInv, StorageInv
  <2>7. version >= schemaVersion
    BY <1>1, <2>1 DEF VersionInv, Raised, Down, Versions
  <2>8. ASSUME NEW j \in Makes, j < n PROVE schema'[PartAt(j)] = "new"
    <3>1. CASE j < pc
      BY <1>5, <2>1, <3>1, PartsAre DEF VersionInv
    <3>2. CASE j = pc
      BY <1>5, <2>6, <3>2
    <3>3. CASE j > pc
      <4>1. j \in (pc + 1)..19 /\ Below(j) <= schemaVersion
        BY <1>1, <1>4, <2>8, <3>3 DEF Makes
      <4>2. Below(j) <= version
        BY <1>1, <2>7, <4>1 DEF Versions, Below, Always
      <4>3. PartAt(j) \in PartsOf(version)
        BY <1>1, <4>2, PartsAre
      <4>4. QED
        BY <1>3, <2>3, <4>3
    <3>4. QED
      BY <1>1, <3>1, <3>2, <3>3 DEF Makes
  <2>9. pc' >= 9 => schema'["cursor"] # "old" /\ schema'["cursorRow"] # "old"
    <3>1. CASE pc >= 9
      BY <1>5, <2>1, <3>1 DEF VersionInv, Parts, VoltageParts
    <3>2. CASE pc < 9 /\ n >= 9
      <4>1. Below(8) <= schemaVersion
        BY <1>1, <1>4, <3>2 DEF Makes
      <4>2. version # 0
        BY <1>1, <2>7, <4>1 DEF Below, Versions
      <4>3. QED
        BY <1>3, <2>2, <4>2 DEF Parts, VoltageParts
    <3>3. QED
      BY <1>1, <1>3, <1>4, <3>1, <3>2
  <2>10. pc' >= 10 => schema'["events"] # "old"
    <3>1. CASE pc >= 10
      BY <1>5, <2>1, <3>1 DEF VersionInv, Parts, VoltageParts
    <3>2. CASE pc < 10 /\ n >= 10
      <4>1. Below(9) <= schemaVersion
        BY <1>1, <1>4, <3>2 DEF Makes
      <4>2. version # 0
        BY <1>1, <2>7, <4>1 DEF Below, Versions
      <4>3. QED
        BY <1>3, <2>2, <4>2 DEF Parts, VoltageParts
    <3>3. QED
      BY <1>1, <1>3, <1>4, <3>1, <3>2
  <2>11. version' = 0 => cursor' = 0
    BY <1>3, <2>1 DEF VersionInv
  <2>12. QED
    BY <1>3, <2>2, <2>3, <2>4, <2>5, <2>8, <2>9, <2>10, <2>11 DEF VersionInv
<1>8. QED
  BY <1>3, <1>6, <1>7 DEF IInv

\* A statement that drops a table of the first voltage analysis: the database
\* has no version, and if nothing has failed there is no cursor to lose.
LEMMA DropsInv ==
  ASSUME IInv, Execute, pc \in Drops
  PROVE  IInv' /\ (~failed => cursor' = cursor)
<1> DEFINE p == PartAt(pc)
           n == Following(pc, FALSE)
<1>1. /\ version \in Versions /\ schemaVersion \in Versions /\ cursor \in Nat
      /\ schema \in [Parts -> {"none", "old", "new"}]
      /\ pc \in 8..9 /\ p = IF pc = 8 THEN "cursor" ELSE "events"
  BY DEF IInv, StorageInv, Drops, PartAt
<1>2. Program[pc].op = "drop" /\ Program[pc].part = p
  BY StatementsAre
<1>3. /\ version' = version /\ schemaVersion' = schemaVersion
      /\ cursor' = (IF p = "cursor" THEN 0 ELSE cursor)
      /\ schema' = Dropped(Program[pc]) /\ pc' = n /\ failed' = failed
  BY <1>2 DEF Execute
<1>4. /\ n \in (pc + 1)..20
      /\ \A j \in 1..19 : n = j => schemaVersion < Below(j)
      /\ \A j \in (pc + 1)..19 : j < n => Below(j) <= schemaVersion
  <2>1. pc \in 1..19
    BY <1>1
  <2>2. QED
    BY <1>1, <2>1, FollowingIs
<1> HIDE DEF n
<1>5. /\ schema' \in [Parts -> {"none", "old", "new"}]
      /\ \A q \in Parts : schema'[q] = "old" => schema[q] = "old"
      /\ \A q \in Parts : q \notin {"cursor", "cursorRow", "events", "eventsIndex"} =>
           schema'[q] = schema[q]
      /\ p = "cursor" => schema'["cursor"] = "none" /\ schema'["cursorRow"] = "none"
      /\ p = "events" => schema'["events"] = "none"
  BY <1>1, <1>2, <1>3 DEF Dropped, Parts, VoltageParts
<1>6. StorageInv'
  <2>1. \A j \in 1..3 : schema'[PartAt(j)] = "new"
    BY <1>1, <1>5, PartsAre DEF IInv, StorageInv
  <2>2. \A q \in Parts : schema'[q] = "old" => q \in {"cursor", "cursorRow", "events"}
    BY <1>5 DEF IInv, StorageInv
  <2>3. QED
    BY <1>1, <1>3, <1>4, <1>5, <2>1, <2>2 DEF StorageInv
<1>7. ASSUME ~failed PROVE VersionInv' /\ cursor' = cursor
  <2>1. VersionInv
    BY <1>7 DEF IInv
  <2>2. schemaVersion = 0 /\ version = 0 /\ cursor = 0
    <3>1. schemaVersion < 2
      BY <1>1, <2>1 DEF VersionInv, Below
    <3>2. QED
      BY <1>1, <2>1, <3>1 DEF VersionInv, Versions, Raised, Down
  <2>3. n = pc + 1
    <3>1. \A j \in (pc + 1)..19 : j < n => Below(j) <= 0
      BY <1>4, <2>2
    <3>2. Below(pc + 1) = 2
      BY <1>1 DEF Below
    <3>3. QED
      BY <1>1, <1>4, <3>1, <3>2
  <2>4. ASSUME NEW j \in Makes, j < n PROVE schema'[PartAt(j)] = "new"
    <3>1. j \in 1..7
      BY <1>1, <2>3, <2>4 DEF Makes
    <3>2. QED
      BY <1>1, <1>5, <2>1, <2>4, <3>1, PartsAre DEF VersionInv
  <2>5. n >= 9 => schema'["cursor"] # "old" /\ schema'["cursorRow"] # "old"
    BY <1>1, <1>5, <2>1 DEF VersionInv, Parts, VoltageParts
  <2>6. n >= 10 => schema'["events"] # "old"
    BY <1>1, <1>5, <2>3 DEF VersionInv, Parts, VoltageParts
  <2>7. PartsOf(version') = {} /\ version' = Raised'
    BY <1>1, <1>3, <2>2, <2>3, PartsAre DEF Raised
  <2>8. cursor' = 0
    BY <1>3, <2>2
  <2>9. QED
    BY <1>3, <1>4, <2>2, <2>4, <2>5, <2>6, <2>7, <2>8 DEF VersionInv
<1>8. QED
  BY <1>3, <1>6, <1>7 DEF IInv

\* A statement that raises the version.
LEMMA RaisesInv ==
  ASSUME IInv, Execute, pc \in Raises
  PROVE  IInv' /\ cursor' = cursor
<1> DEFINE n == Following(pc, FALSE)
           v == IF pc = 14 THEN 2 ELSE IF pc = 17 THEN 3 ELSE 4
<1>1. /\ version \in Versions /\ schemaVersion \in Versions /\ cursor \in Nat
      /\ pc \in {14, 17, 19} /\ v \in Versions
  BY DEF IInv, StorageInv, Raises, Versions
<1>2. Program[pc].op = "version" /\ Program[pc].part = v
  BY <1>1, StatementsAre
<1>3. /\ version' = v /\ schemaVersion' = schemaVersion /\ cursor' = cursor
      /\ schema' = schema /\ pc' = n /\ failed' = failed
  BY <1>2 DEF Execute
<1>4. /\ n \in (pc + 1)..20
      /\ \A j \in 1..19 : n = j => schemaVersion < Below(j)
      /\ \A j \in (pc + 1)..19 : j < n => Below(j) <= schemaVersion
  <2>1. pc \in 1..19
    BY <1>1
  <2>2. QED
    BY <1>1, <2>1, FollowingIs
<1> HIDE DEF n
<1>5. StorageInv'
  BY <1>1, <1>3, <1>4 DEF IInv, StorageInv
<1>6. ASSUME ~failed PROVE VersionInv'
  <2>1. VersionInv
    BY <1>6 DEF IInv
  <2>2. schemaVersion < v /\ \A j \in (pc + 1)..19 : j < n => Below(j) < v
    <3>1. schemaVersion < Below(pc) /\ Below(pc) = v
      BY <1>1, <2>1 DEF VersionInv, Below
    <3>2. QED
      BY <1>1, <1>4, <3>1 DEF Below, Versions, Always
  <2>3. n = pc + 1
    <3>1. pc # 19 => Below(pc + 1) > v
      BY <1>1 DEF Below
    <3>2. pc + 1 < n => pc + 1 \in (pc + 1)..19
      BY <1>1, <1>4
    <3>3. ~(pc + 1 < n)
      BY <1>1, <2>2, <3>1, <3>2 DEF Below
    <3>4. QED
      BY <1>1, <1>4, <3>3
  <2>4. \A j \in Makes : j < pc => schema[PartAt(j)] = "new"
    BY <2>1 DEF VersionInv
  <2>5. \A q \in PartsOf(v) : schema[q] = "new"
    <3>1. \A q \in VoltageParts : schema[q] = "new"
      BY <1>1, <2>4, PartsAre DEF Makes
    <3>2. v >= 3 => \A q \in AggregateParts : schema[q] = "new"
      BY <1>1, <2>4, PartsAre DEF Makes
    <3>3. v >= 4 => schema["timeIndex"] = "new"
      <4>1. 18 \in Makes /\ PartAt(18) = "timeIndex"
        BY DEF Makes, PartAt
      <4>2. QED
        BY <1>1, <2>4, <4>1
    <3>4. QED
      BY <3>1, <3>2, <3>3 DEF PartsOf
  <2>6. \A q \in Parts : schema[q] # "old"
    <3>1. "cursor" \in VoltageParts /\ "cursorRow" \in VoltageParts /\ "events" \in VoltageParts
      BY DEF VoltageParts
    <3>2. \A q \in VoltageParts : schema[q] = "new"
      BY <2>5, <1>1 DEF PartsOf
    <3>3. QED
      BY <3>1, <3>2 DEF IInv, StorageInv
  <2>7. v = Raised'
    BY <1>1, <1>3, <2>2, <2>3 DEF Raised, Versions
  <2>8. \A j \in Makes : j < n => schema[PartAt(j)] = "new"
    BY <1>1, <2>3, <2>4 DEF Makes
  <2>9. {"cursor", "cursorRow", "events"} \subseteq Parts
    BY DEF Parts, VoltageParts
  <2>10. QED
    BY <1>1, <1>3, <1>4, <2>5, <2>6, <2>7, <2>8, <2>9 DEF VersionInv
<1>7. QED
  BY <1>3, <1>5, <1>6 DEF IInv

\* A step of any kind.
LEMMA NextInv == IInv /\ [Next]_vars => IInv' /\ (~failed' => cursor' >= cursor)
<1> SUFFICES ASSUME IInv, [Next]_vars PROVE IInv' /\ (~failed' => cursor' >= cursor)
  OBVIOUS
<1>1. /\ version \in Versions /\ schemaVersion \in Versions /\ cursor \in Nat /\ pc \in 0..20
  BY DEF IInv, StorageInv
<1>2. Opened = 20 /\ Len(Program) = 19
  BY StatementsAre, ProgramIs
<1>3. CASE Open
  <2>1. /\ version' = version /\ schema' = schema /\ cursor' = cursor /\ pc = 0 /\ pc' = 1
        /\ schemaVersion' \in Versions
        /\ ~failed' => ~failed /\ schemaVersion' = version
    BY <1>1, <1>3 DEF Open, Down, Versions
  <2>2. StorageInv'
    BY <2>1, StorageKept DEF IInv
  <2>3. ASSUME ~failed' PROVE VersionInv'
    <3>1. VersionInv
      BY <2>1, <2>3 DEF IInv
    <3>2. Raised' = version /\ Below(1) = 5
      BY <2>1, <2>3 DEF Raised, Below, Always
    <3>3. QED
      BY <1>1, <2>1, <2>3, <3>1, <3>2 DEF VersionInv, Versions, Makes
  <2>4. QED
    BY <1>1, <2>1, <2>2, <2>3 DEF IInv
<1>4. CASE Execute
  <2>1. pc \in Makes \cup Drops \cup Raises
    BY <1>2, <1>4 DEF Execute, Makes, Drops, Raises
  <2>2. failed' = failed
    BY <1>4 DEF Execute
  <2>3. QED
    BY <1>1, <1>4, <2>1, <2>2, MakesInv, DropsInv, RaisesInv
<1>5. CASE ExecuteFails
  <2>1. /\ version' = version /\ schema' = schema /\ cursor' = cursor /\ failed'
        /\ schemaVersion' = schemaVersion
    BY <1>5 DEF ExecuteFails
  <2>2. pc \in 1..19 /\ pc' = IF Program[pc].exec = "base" THEN 0 ELSE Following(pc, TRUE)
    BY <1>2, <1>5 DEF ExecuteFails, Down
  <2>3. StorageInv'
    <3>1. pc' \in 0..20 /\ (pc' <= 1 \/ pc >= 4)
      <4>1. CASE pc \in 1..3
        <5>1. Program[pc].exec = "base"
          BY <2>2, <4>1, StatementsAre
        <5>2. pc' = 0
          BY <2>2, <5>1
        <5>3. QED
          BY <5>2
      <4>2. CASE pc \in 4..19
        <5>1. Program[pc].exec # "base"
          BY <2>2, <4>2, StatementsAre
        <5>2. pc' = Following(pc, TRUE)
          BY <2>2, <5>1
        <5>3. Following(pc, TRUE) \in (pc + 1)..20
          BY <1>1, <2>2, FollowingIs
        <5>4. pc' \in (pc + 1)..20
          BY <5>2, <5>3, Zenon
        <5>5. QED
          BY <4>2, <5>4
      <4>3. pc \in 1..3 \/ pc \in 4..19
        <5>1. pc \in 1..19
          BY <2>2
        <5>2. QED
          BY <5>1
      <4>4. QED
        BY <4>1, <4>2, <4>3
    <3>2. QED
      BY <1>1, <2>1, <3>1, StorageKept DEF IInv
  <2>4. QED
    BY <2>1, <2>3 DEF IInv
<1>6. CASE SaveVoltageAnalysisCursor
  <2>1. /\ version' = version /\ schema' = schema /\ schemaVersion' = schemaVersion
        /\ pc' = pc /\ pc = 20 /\ failed' = failed /\ cursor' = cursor + 1
    BY <1>2, <1>6 DEF SaveVoltageAnalysisCursor
  <2>2. StorageInv'
    BY <1>1, <2>1 DEF IInv, StorageInv
  <2>3. ASSUME ~failed PROVE VersionInv'
    <3>1. VersionInv /\ version = 4
      BY <2>1, <2>3 DEF IInv, VersionInv, Raised, Down
    <3>2. Raised' = Raised
      BY <2>1 DEF Raised
    <3>3. QED
      BY <2>1, <3>1, <3>2 DEF VersionInv
  <2>4. QED
    BY <1>1, <2>1, <2>2, <2>3 DEF IInv
<1>7. CASE Stop
  <2>1. /\ version' = version /\ schema' = schema /\ cursor' = cursor /\ failed' = failed
        /\ schemaVersion' = 0 /\ pc' = 0
    BY <1>7 DEF Stop, Down
  <2>2. StorageInv'
    BY <2>1, StorageKept DEF IInv, Versions
  <2>3. ASSUME ~failed PROVE VersionInv'
    BY <2>1, <2>3 DEF IInv, VersionInv, Down, Makes
  <2>4. QED
    BY <1>1, <2>1, <2>2, <2>3 DEF IInv
<1>8. CASE UNCHANGED vars
  <2>1. IInv'
    BY <1>8 DEF vars, IInv, StorageInv, VersionInv, Raised
  <2>2. QED
    BY <1>1, <1>8, <2>1 DEF vars
<1>9. QED
  BY <1>3, <1>4, <1>5, <1>6, <1>7, <1>8 DEF Next

-----------------------------------------------------------------------------
(* The theorems.                                                           *)

\* IInv holds in every state.
LEMMA Invariance == Spec => []IInv
BY InitInv, NextInv, PTL DEF Spec

\* Open runs the first seven statements at every start, so what one of them makes
\* is there behind it unless one has failed since the start.
RepairInv == ~failing => \A j \in 1..7 : j < pc => schema[PartAt(j)] = "new"

\* Every step keeps that: a start begins with nothing, no statement of the first
\* seven is passed over, and no statement takes their parts away.
LEMMA RepairStep ==
  ASSUME StorageInv, RepairInv, [Next]_vars
  PROVE  RepairInv'
<1>1. /\ schemaVersion \in Versions /\ pc \in 0..20
      /\ schema \in [Parts -> {"none", "old", "new"}]
      /\ Opened = 20 /\ Len(Program) = 19
  BY StatementsAre, ProgramIs DEF StorageInv
<1>2. CASE Open
  BY <1>2 DEF Open, RepairInv
<1>3. CASE Execute
  <2> DEFINE n == Following(pc, FALSE)
  <2>1. /\ pc \in 1..19 /\ pc' = n /\ failing' = failing
        /\ schema' = CASE Program[pc].op \in {"create", "insert"} -> Made(Program[pc])
                       [] Program[pc].op = "drop" -> Dropped(Program[pc])
                       [] Program[pc].op = "version" -> schema
    BY <1>1, <1>3 DEF Execute
  <2>2. n \in (pc + 1)..20 /\ \A j \in (pc + 1)..19 : j < n => Below(j) <= schemaVersion
    BY <1>1, <2>1, FollowingIs
  <2> HIDE DEF n
  <2>3. ASSUME ~failing, NEW j \in 1..7, j < n PROVE schema'[PartAt(j)] = "new"
    <3>1. j <= pc
      BY <1>1, <2>1, <2>2, <2>3 DEF Below, Always, Versions
    <3>2. PartAt(j) \in Parts /\ PartAt(j) \notin {"cursor", "cursorRow", "events", "eventsIndex"}
      BY PartsAre
    <3>3. schema[PartAt(j)] # "old"
      BY <3>2 DEF StorageInv
    <3>4. CASE pc \in Makes
      <4>1. schema' = Made(Program[pc]) /\ Program[pc].part = PartAt(pc) /\ PartAt(pc) \in Parts
        BY <2>1, <3>4, StatementsAre, PartsAre
      <4>2. /\ schema[PartAt(j)] = "new" => schema'[PartAt(j)] = "new"
            /\ schema[PartAt(pc)] # "old" => schema'[PartAt(pc)] = "new"
        BY <1>1, <3>2, <4>1 DEF Made, Parts, Columns, BaseParts
      <4>3. j < pc => schema[PartAt(j)] = "new"
        BY <2>3 DEF RepairInv
      <4>4. j = pc \/ j < pc
        BY <2>1, <3>1
      <4>5. QED
        BY <3>3, <4>2, <4>3, <4>4
    <3>5. CASE pc \in Drops
      <4>1. schema' = Dropped(Program[pc]) /\ j < pc
        BY <2>1, <3>5, StatementsAre DEF Drops
      <4>2. schema'[PartAt(j)] = schema[PartAt(j)]
        BY <1>1, <3>2, <4>1 DEF Dropped
      <4>3. QED
        BY <2>3, <4>1, <4>2 DEF RepairInv
    <3>6. CASE pc \in Raises
      <4>1. schema' = schema /\ j < pc
        BY <2>1, <3>6, StatementsAre DEF Raises
      <4>2. QED
        BY <2>3, <4>1 DEF RepairInv
    <3>7. pc \in Makes \cup Drops \cup Raises
      BY <2>1 DEF Makes, Drops, Raises
    <3>8. QED
      BY <3>4, <3>5, <3>6, <3>7
  <2>4. QED
    BY <2>1, <2>3 DEF RepairInv
<1>4. CASE ExecuteFails
  BY <1>4 DEF ExecuteFails, RepairInv
<1>5. CASE SaveVoltageAnalysisCursor
  BY <1>5 DEF SaveVoltageAnalysisCursor, RepairInv
<1>6. CASE Stop
  BY <1>6 DEF Stop, Down, RepairInv
<1>7. CASE UNCHANGED vars
  BY <1>7 DEF vars, RepairInv
<1>8. QED
  BY <1>2, <1>3, <1>4, <1>5, <1>6, <1>7 DEF Next

\* A store that Open returns can keep samples whatever has failed, and also the
\* identity if nothing has failed since this start, even when a column of it
\* could not be added at earlier ones.
THEOREM OpenedCanStore == Spec => []StorageReady
<1>1. StorageInv /\ RepairInv => StorageReady
  <2> SUFFICES ASSUME StorageInv, RepairInv, pc = Opened PROVE
                 /\ \A p \in BaseParts : schema[p] = "new"
                 /\ ~failing => \A p \in Columns : schema[p] = "new"
    BY DEF StorageReady
  <2>1. \A j \in 1..3 : schema[PartAt(j)] = "new"
    BY StatementsAre DEF StorageInv
  <2>2. ~failing => \A j \in 1..7 : schema[PartAt(j)] = "new"
    BY StatementsAre DEF RepairInv
  <2>3. \A p \in BaseParts : p = PartAt(1) \/ p = PartAt(2) \/ p = PartAt(3)
    BY DEF PartAt, BaseParts
  <2>4. \A p \in Columns : p = PartAt(4) \/ p = PartAt(5) \/ p = PartAt(6) \/ p = PartAt(7)
    BY DEF PartAt, Columns
  <2>5. QED
    BY <2>1, <2>2, <2>3, <2>4
<1>2. Init => RepairInv
  BY DEF Init, Down, RepairInv
<1>3. IInv /\ RepairInv /\ [Next]_vars => RepairInv'
  BY RepairStep DEF IInv
<1>4. IInv => StorageInv
  BY DEF IInv
<1>5. QED
  BY <1>1, <1>2, <1>3, <1>4, Invariance, PTL DEF Spec

\* As long as no statement has failed, user_version promises no part that is
\* not there in its new form, at every moment a process may die; and behind
\* Open everything is there.
THEOREM VersionTruthful == Spec => []SchemaTruthful
<1>1. IInv => SchemaTruthful
  <2> SUFFICES ASSUME IInv, ~failed,
                      NEW p \in IF pc = Opened THEN Parts ELSE PartsOf(version)
               PROVE  schema[p] = "new"
    BY DEF SchemaTruthful
  <2>1. CASE pc # Opened
    BY <2>1 DEF IInv, VersionInv
  <2>2. CASE pc = Opened
    <3>1. pc = 20 /\ p \in Parts
      BY <2>2, StatementsAre
    <3>2. PICK j \in Makes : PartAt(j) = p
      BY <3>1, PartsAre
    <3>3. QED
      BY <3>1, <3>2 DEF IInv, VersionInv, Makes
  <2>3. QED
    BY <2>1, <2>2
<1>2. QED
  BY <1>1, Invariance, PTL

\* The cursor of the voltage analysis is never reset, however often the
\* database is opened, as long as no statement has failed: the statement that
\* would drop it is run below version 2 only, where there is none.
THEOREM CursorNeverReset == Spec => CursorKept
<1>1. IInv /\ [Next]_vars => [~failed' => cursor' >= cursor]_vars
  BY NextInv
<1>2. QED
  BY <1>1, Invariance, PTL DEF Spec, CursorKept
=============================================================================
