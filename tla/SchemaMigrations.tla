---------------------------- MODULE SchemaMigrations ----------------------------
(***************************************************************************)
(* The schema of the database file.  Every operation of a store opens the  *)
(* file, and opening it creates the schema of an empty file, migrates an   *)
(* older one version by version, and refuses any other.  The App and the   *)
(* command line may open the same file; either may fail or be terminated   *)
(* between two statements.                                                 *)
(***************************************************************************)
EXTENDS Integers, Sequences, FiniteSets

CONSTANT Openers

VARIABLES
  version,       \* PRAGMA user_version
  objects,       \* tables, indexes and the column added by the first migration
  incompatible,  \* tables whose columns are not the expected ones
  step,          \* what each opener does next
  origin         \* history variable: the file before anybody opened it

database == <<version, objects, incompatible>>
vars == <<database, step, origin>>

SCHEMA_VERSION == 7

Column == "last_refresh_attempt_at"
Indexes == {"observations_product_sequence", "catalog_refresh_order"}

\* What the migration from version u to version u + 1 creates.
Migration ==
  << {Column, "catalog_refresh_order"}, {"notification_reservations"},
     {"daily_digest_reservations"}, {"operational_state"},
     {"daily_digest_baselines"}, {"weekly_operational_summaries"} >>

VersionOne == {"catalog_entries", "observations", "observations_product_sequence"}

ObjectsOf(v) == VersionOne \cup UNION {Migration[u] : u \in 1..(v - 1)}

Objects == ObjectsOf(SCHEMA_VERSION) \cup {"other"}
UserTables(set) == set \ (Indexes \cup {Column})

\* The statements of _create_schema; the last one sets the version.
Creation ==
  << {"catalog_entries", Column}, {"observations"},
     {"observations_product_sequence"}, {"catalog_refresh_order"},
     {"notification_reservations"}, {"daily_digest_reservations"},
     {"operational_state"}, {"daily_digest_baselines"},
     {"weekly_operational_summaries"} >>

SetVersion == Len(Creation) + 1

\* An opener is closed, has read version n, creates with statement n, validates
\* or migrates version n, or works with the open file.
Step ==
  [do : {"closed", "open"}, n : {0}] \cup [do : {"inspect"}, n : 0..8] \cup
  [do : {"create"}, n : 1..SetVersion] \cup
  [do : {"validate"}, n : 1..SCHEMA_VERSION] \cup [do : {"migrate"}, n : 1..6]

Doing(what, n) == [do |-> what, n |-> n]
Closed == Doing("closed", 0)

TypeOK ==
  /\ version \in 0..8
  /\ objects \subseteq Objects
  /\ incompatible \subseteq Objects
  /\ step \in [Openers -> Step]
  /\ origin \in {"empty", "ours", "foreign"}

\* An empty file, one that an earlier release wrote, or one that is not ours:
\* it has no version, a later version, or a table with other columns.
Init ==
  /\ step = [o \in Openers |-> Closed]
  /\ \/ version = 0 /\ objects = {} /\ incompatible = {} /\ origin = "empty"
     \/ /\ version \in 1..SCHEMA_VERSION /\ objects = ObjectsOf(version)
        /\ incompatible = {} /\ origin = "ours"
     \/ /\ version \in {0, 8} /\ objects = {"other"}
        /\ incompatible = {} /\ origin = "foreign"
     \/ /\ version \in 1..SCHEMA_VERSION /\ objects = ObjectsOf(version)
        /\ \E t \in UserTables(objects) : incompatible = {t}
        /\ origin = "foreign"

Goes(o, next) == step' = [step EXCEPT ![o] = next]

-------------------------------------------------------------------------------
\* Connect and read the version.
ReadVersion(o) ==
  /\ step[o] = Closed
  /\ Goes(o, Doing("inspect", version))
  /\ UNCHANGED <<database, origin>>

\* _initialize: how to proceed with the version that was read, after the tables
\* have been read as well; a file that cannot be ours is refused.
FirstStep(v) ==
  IF v = 0 THEN IF UserTables(objects) = {} THEN Doing("create", 1) ELSE Closed
  ELSE IF v <= SCHEMA_VERSION THEN Doing("validate", v)
  ELSE Closed

Inspect(o) ==
  /\ step[o].do = "inspect"
  /\ Goes(o, FirstStep(step[o].n))
  /\ UNCHANGED <<database, origin>>

\* A statement fails when what it creates exists.
Created(n) == Creation[n] \cap objects = {} /\ objects' = objects \cup Creation[n]

\* One statement of _create_schema.  None of them opens a transaction, so each
\* is durable at once.
Create(o) ==
  /\ step[o].do = "create"
  /\ LET n == step[o].n
     IN  \/ /\ n < SetVersion /\ Created(n)
            /\ Goes(o, Doing("create", n + 1)) /\ UNCHANGED version
         \/ /\ n = SetVersion
            /\ version' = SCHEMA_VERSION /\ Goes(o, Doing("validate", SCHEMA_VERSION))
            /\ UNCHANGED objects
  /\ UNCHANGED <<incompatible, origin>>

\* Mutation of Valid: columns are not compared.
ValidTables(v) == UserTables(ObjectsOf(v)) \subseteq objects

\* Mutation of Valid: every version is compared with the current columns.
ValidCurrentColumns(v) ==
  /\ UserTables(ObjectsOf(v)) \subseteq objects
  /\ Column \in objects
  /\ incompatible \cap ObjectsOf(v) = {}

\* _validate_schema_columns: the tables of the version with their columns.
Valid(v) ==
  /\ UserTables(ObjectsOf(v)) \subseteq objects
  /\ (Column \in objects) = (v >= 2)
  /\ incompatible \cap ObjectsOf(v) = {}

\* Mutation of Validate: a valid file of any version is opened as it is.
ValidateOpens(o) ==
  /\ step[o].do = "validate"
  /\ Goes(o, IF Valid(step[o].n) THEN Doing("open", 0) ELSE Closed)
  /\ UNCHANGED <<database, origin>>

Validate(o) ==
  /\ step[o].do = "validate"
  /\ LET v == step[o].n
     IN  Goes(o, IF ~Valid(v) THEN Closed
                 ELSE IF v = SCHEMA_VERSION THEN Doing("open", 0) ELSE Doing("migrate", v))
  /\ UNCHANGED <<database, origin>>

\* Every migrated version is validated except the last but one.
Migrated(v) == IF v = 6 THEN Doing("migrate", 6) ELSE Doing("validate", v)

\* Mutation of Migrate: the version is set outside the transaction.
MigrateInTwoSteps(o) ==
  /\ step[o].do = "migrate"
  /\ LET v == step[o].n
     IN  /\ version' = v + 1
         /\ \/ Migration[v] \cap objects = {} /\ objects' = objects \cup Migration[v]
            \/ UNCHANGED objects
         /\ Goes(o, Migrated(v + 1))
  /\ UNCHANGED <<incompatible, origin>>

\* One migration: BEGIN IMMEDIATE, the new objects, the new version, COMMIT.
Migrate(o) ==
  /\ step[o].do = "migrate"
  /\ LET v == step[o].n
     IN  /\ Migration[v] \cap objects = {}
         /\ objects' = objects \cup Migration[v] /\ version' = v + 1
         /\ Goes(o, Migrated(v + 1))
  /\ UNCHANGED <<incompatible, origin>>

\* The file is closed, an error ends the operation, a lock is not granted in
\* time, or the process is terminated; an open transaction is rolled back.
Close(o) ==
  /\ step[o] # Closed
  /\ Goes(o, Closed)
  /\ UNCHANGED <<database, origin>>

-------------------------------------------------------------------------------
Next ==
  \E o \in Openers :
    ReadVersion(o) \/ Inspect(o) \/ Create(o) \/ Validate(o) \/ Migrate(o) \/ Close(o)

Spec == Init /\ [][Next]_vars

\* Cycles open the file again and again, and what interrupts one of them does
\* not strike at the same statement for ever.
FairSpec ==
  /\ Spec
  /\ \A o \in Openers :
       /\ WF_vars(Close(o))
       /\ SF_vars(ReadVersion(o)) /\ SF_vars(Inspect(o))
       /\ SF_vars(Validate(o)) /\ SF_vars(Migrate(o))

-------------------------------------------------------------------------------
(* Properties.                                                             *)

\* A file with a version has exactly the schema of that version, whoever
\* migrated it and whatever was interrupted (_migrate_version_*).
SchemaOfVersion ==
  origin # "foreign" /\ version > 0 => objects = ObjectsOf(version)

\* Two openers that read the same old version do not undo each other's
\* migrations: the version never goes back, although each migration sets it
\* without looking (_migrate_version_*, PRAGMA user_version).
VersionNeverDecreases == [][version' >= version]_version

\* Whoever was let in works with a complete schema (open, _validate_schema).
OpenIsComplete ==
  \A o \in Openers : step[o].do = "open" =>
    UserTables(ObjectsOf(SCHEMA_VERSION)) \cup {Column} \subseteq objects

\* A file that is not ours is refused and not changed: it has no version but
\* tables, a later version, or tables with other columns (_initialize).
ForeignUntouched == [][origin = "foreign" => UNCHANGED database]_vars

\* A file of an earlier release reaches the current version in the end, however
\* often the migration was interrupted (_initialize).
EarlierReleaseMigrated == origin = "ours" ~> version = SCHEMA_VERSION

\* The schema is initialized transactionally (ADR-0017, STORY-016): when nobody
\* is creating it, it is there or nothing of it is.
InitializedTransactionally ==
  origin = "empty" /\ (\A o \in Openers : step[o].do # "create") =>
    objects = {} \/ version = SCHEMA_VERSION

===============================================================================
