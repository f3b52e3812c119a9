----------------------------- MODULE Migration -----------------------------
(***************************************************************************)
(* Open and migrate of pkg/db/store.go: the statements that bring a        *)
(* database of any earlier release to schema version 4.                    *)
(*                                                                         *)
(* Each statement commits by itself and the process may die behind any of  *)
(* them.  An Exec of several statements stops at the first that fails.     *)
(***************************************************************************)
EXTENDS Integers, Sequences, FiniteSetsExt

CONSTANTS
    MaxSaves  \* bound: cursors saved by the voltage analysis

ASSUME MaxSavesAssumption == MaxSaves \in Nat

Columns == {"rated_power", "firmware", "dsp_version", "arm_version"}

\* Tables, indexes, the columns added to inverter_identity, and the one row
\* of voltage_analysis_cursor.
BaseParts == {"identity", "samples", "nameIndex"}
VoltageParts == {"cursor", "cursorRow", "events", "eventsIndex"}
AggregateParts == {"hourly", "daily"}
Parts == Columns \cup BaseParts \cup VoltageParts \cup AggregateParts \cup {"timeIndex"}

VARIABLES
    version,        \* PRAGMA user_version
    schema,         \* what the database has of a part: none, old or new form
    cursor,         \* last_processed_sample_id, 0 without a row
    schemaVersion,  \* what migrate has read
    pc,             \* place in Program; 0: no process, behind the end: open
    failed,         \* a statement has failed: disk full, locked, I/O (history)
    failing         \* one has failed since this start (history)

vars == <<version, schema, cursor, schemaVersion, pc, failed, failing>>

-----------------------------------------------------------------------------
(* The statements: the Exec they are in, below which version they are run, *)
(* what they do to which part.                                             *)

Statement(exec, below, op, part) ==
    [exec |-> exec, below |-> below, op |-> op, part |-> part]

Always == 5

Base == <<
    Statement("base", Always, "create", "identity"),
    Statement("base", Always, "create", "samples"),
    Statement("base", Always, "create", "nameIndex") >>

\* Mutant of Alter: the columns are added once, below a version.
AlterOnce == <<
    Statement("power", 4, "create", "rated_power"),
    Statement("firmware", 4, "create", "firmware"),
    Statement("dsp", 4, "create", "dsp_version"),
    Statement("arm", 4, "create", "arm_version") >>

Alter == <<
    Statement("power", Always, "create", "rated_power"),
    Statement("firmware", Always, "create", "firmware"),
    Statement("dsp", Always, "create", "dsp_version"),
    Statement("arm", Always, "create", "arm_version") >>

CreateVoltage == <<
    Statement("voltage", 2, "create", "cursor"),
    Statement("voltage", 2, "insert", "cursorRow"),
    Statement("voltage", 2, "create", "events"),
    Statement("voltage", 2, "create", "eventsIndex") >>

\* Mutant of DropVoltage: schemaVersion <= 2.
DropVoltageAgain == <<
    Statement("dropCursor", 3, "drop", "cursor"),
    Statement("dropEvents", 3, "drop", "events") >>

DropVoltage == <<
    Statement("dropCursor", 2, "drop", "cursor"),
    Statement("dropEvents", 2, "drop", "events") >>

\* Mutant of Voltage: the version is raised before the tables are made.
VoltageVersionFirst ==
    DropVoltage \o <<Statement("v2", 2, "version", 2)>> \o CreateVoltage

Voltage == DropVoltage \o CreateVoltage \o <<Statement("v2", 2, "version", 2)>>

Aggregates == <<
    Statement("aggregates", 3, "create", "hourly"),
    Statement("aggregates", 3, "create", "daily"),
    Statement("v3", 3, "version", 3) >>

TimeIndex == <<
    Statement("timeIndex", 4, "create", "timeIndex"),
    Statement("v4", 4, "version", 4) >>

Program == Base \o Alter \o Voltage \o Aggregates \o TimeIndex

Down == 0
Opened == Len(Program) + 1

TypeOK ==
    /\ version \in {0, 2, 3, 4}
    /\ schema \in [Parts -> {"none", "old", "new"}]
    /\ cursor \in 0..MaxSaves
    /\ schemaVersion \in {0, 2, 3, 4}
    /\ pc \in 0..Opened /\ failed \in BOOLEAN /\ failing \in BOOLEAN

-----------------------------------------------------------------------------

\* The parts a database of this version has.
PartsOf(v) ==
    (IF v >= 2 THEN VoltageParts ELSE {})
        \cup (IF v >= 3 THEN AggregateParts ELSE {})
        \cup (IF v >= 4 THEN {"timeIndex"} ELSE {})

\* A new file, or a database of an earlier release: without voltage analysis,
\* with its first form, or of version 2 to 4; some columns may be missing.
Init ==
    /\ version \in {0, 2, 3, 4}
    /\ \E columns \in SUBSET Columns, old \in {{}, {"cursor", "cursorRow", "events"}},
          empty \in BOOLEAN :
        /\ old # {} => version = 0
        /\ empty => version = 0 /\ old = {} /\ columns = {}
        /\ schema = [p \in Parts |->
               IF p \in old THEN "old"
               ELSE IF p \in columns \cup PartsOf(version)
                        \cup (IF empty THEN {} ELSE BaseParts)
                    THEN "new" ELSE "none"]
    /\ cursor \in IF version = 0 THEN {0} ELSE 0..MaxSaves
    /\ schemaVersion = 0 /\ pc = Down /\ failed = FALSE /\ failing = FALSE

\* The next statement behind place i, of another Exec if this one failed.
Following(i, abandoned) ==
    Min({Opened} \cup {j \in (i + 1)..Len(Program) :
            /\ schemaVersion < Program[j].below
            /\ abandoned => Program[j].exec # Program[i].exec})

\* Open, up to the version: an error of that read leaves it 0.
Open ==
    /\ pc = Down
    /\ \/ schemaVersion' = version /\ failing' = FALSE /\ UNCHANGED failed
       \/ schemaVersion' = 0 /\ failing' = TRUE /\ failed' = TRUE
    /\ pc' = 1
    /\ UNCHANGED <<version, schema, cursor>>

Made(s) ==
    IF schema[s.part] # "none" THEN schema
    ELSE IF s.part = "identity" THEN [schema EXCEPT !.identity = "new", !.rated_power = "new"]
    ELSE [schema EXCEPT ![s.part] = "new"]

\* A table goes with its rows and indexes.
Dropped(s) ==
    IF s.part = "cursor" THEN [schema EXCEPT !.cursor = "none", !.cursorRow = "none"]
    ELSE [schema EXCEPT !.events = "none", !.eventsIndex = "none"]

\* The row has columns that only the new table has.
CanRun(s) == s.op = "insert" => schema.cursor = "new"

\* A statement of migrate succeeds.  A column that is there already makes an
\* error that changes nothing.
Execute ==
    /\ pc \in 1..Len(Program)
    /\ LET s == Program[pc] IN
        /\ CanRun(s)
        /\ version' = IF s.op = "version" THEN s.part ELSE version
        /\ schema' = CASE s.op \in {"create", "insert"} -> Made(s)
                       [] s.op = "drop" -> Dropped(s)
                       [] s.op = "version" -> schema
        /\ cursor' = IF s.op = "drop" /\ s.part = "cursor" THEN 0 ELSE cursor
        /\ pc' = Following(pc, FALSE)
    /\ UNCHANGED <<schemaVersion, failed, failing>>

\* A statement fails: in the first Exec that ends Open, later it is ignored.
ExecuteFails ==
    /\ pc \in 1..Len(Program)
    /\ failed' = TRUE /\ failing' = TRUE
    /\ pc' = IF Program[pc].exec = "base" THEN Down ELSE Following(pc, TRUE)
    /\ UNCHANGED <<version, schema, cursor, schemaVersion>>

\* The voltage analysis of the running daemon saves its cursor.
SaveVoltageAnalysisCursor ==
    /\ pc = Opened
    /\ schema.cursor = "new" /\ schema.cursorRow = "new"
    /\ cursor < MaxSaves /\ cursor' = cursor + 1
    /\ UNCHANGED <<version, schema, schemaVersion, pc, failed, failing>>

\* The process ends or dies, wherever it is.
Stop ==
    /\ pc # Down /\ pc' = Down /\ schemaVersion' = 0
    /\ UNCHANGED <<version, schema, cursor, failed, failing>>

Next == Open \/ Execute \/ ExecuteFails \/ SaveVoltageAnalysisCursor \/ Stop

Spec == Init /\ [][Next]_vars

-----------------------------------------------------------------------------
(* Properties.                                                             *)

\* As long as no statement fails, user_version tells the truth at every moment,
\* also when the process has died between two statements: what it promises is
\* there in its new form.  And once Open has returned the store every table,
\* index and column is there, whatever earlier starts have left behind.
SchemaTruthful == ~failed =>
    \A p \in IF pc = Opened THEN Parts ELSE PartsOf(version) : schema[p] = "new"

\* Whatever has failed, at this start or before, a store that Open returns can
\* keep samples: the polling goes on even when later statements failed.  The
\* columns of the identity that ALTERs add, whose errors are dropped, may be
\* missing then, and Get- and SetInverterIdentity fail; but a start without a
\* failing statement makes up for what earlier starts could not add.
StorageReady == pc = Opened =>
    /\ \A p \in BaseParts : schema[p] = "new"
    /\ ~failing => \A p \in Columns : schema[p] = "new"

\* "migrate creates tables if they don't exist" (store.go:810): behind a start
\* without a failing statement all of them are there, whatever failed before.
TablesCreated == pc = Opened /\ ~failing => \A p \in Parts : schema[p] = "new"

\* What the voltage analysis has saved is never reset, however often the
\* database is opened and whenever the process dies ("cursor should not be reset
\* on reopen", store_test.go); without failing statements.
CursorKept == [][~failed' => cursor' >= cursor]_vars
=============================================================================
