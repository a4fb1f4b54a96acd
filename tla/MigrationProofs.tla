----------------------------- MODULE MigrationProofs ----------------------------
(***************************************************************************)
(* What the two migrations of stored state keep, wherever their processes  *)
(* stop.  In the first part the schema of a file of ours is the one of its *)
(* version, a file of somebody else is never written to, and the version   *)
(* never goes back, for any number of openers.  In the second part a state *)
(* that is moved to another installation replaces nothing, and whoever     *)
(* monitors or is marked after an import holds what was imported, for any  *)
(* number of installations, options, archives and cycles.                  *)
(***************************************************************************)
EXTENDS SchemaMigrations, MigrationArchive, TLAPS

-------------------------------------------------------------------------------
(* The schema of the database file.                                        *)

\* What the first n - 1 statements of _create_schema made.
Made(n) == UNION {Creation[k] : k \in 1..(n - 1)}

Creating(o) == step[o].do = "create" /\ step[o].n > 1

\* Only one opener gets beyond the first statement, and only in an empty file.
CreationBooks ==
  /\ \A o \in Openers : Creating(o) => version = 0 /\ objects = Made(step[o].n)
  /\ \A o, p \in Openers : Creating(o) /\ Creating(p) => o = p

\* A file of ours, and what its openers know of its version.
OursBooks ==
  /\ version <= SCHEMA_VERSION /\ incompatible = {}
  /\ version > 0 => objects = ObjectsOf(version)
  /\ version = 0 => \E n \in 1..SetVersion : objects = Made(n)
  /\ \A o \in Openers :
       /\ step[o].do \in {"inspect", "validate", "migrate"} => step[o].n <= version
       /\ step[o].do = "open" => version = SCHEMA_VERSION
  /\ CreationBooks

\* A file of somebody else is one that Init describes.
ForeignFile ==
  \/ version \in {0, 8} /\ objects = {"other"}
  \/ /\ version \in 1..SCHEMA_VERSION /\ objects = ObjectsOf(version)
     /\ \E t \in UserTables(objects) : incompatible = {t}

ForeignBooks ==
  /\ ForeignFile
  /\ \A o \in Openers :
       /\ step[o].do \notin {"create", "migrate", "open"}
       /\ step[o].do \in {"inspect", "validate"} => step[o].n = version

SchemaInv ==
  /\ TypeOK
  /\ origin # "foreign" => OursBooks
  /\ origin = "foreign" => ForeignBooks

-------------------------------------------------------------------------------
(* The lists of objects.                                                   *)

\* Every list of the module, statement by statement.
LEMMA MigrationTyped ==
  ASSUME NEW v \in 1..6
  PROVE  Migration[v] \subseteq Objects /\ Migration[v] # {}
<1>1. Migration[v] # {}
  <2>1. CASE v = 1 BY <2>1 DEF Migration
  <2>2. CASE v = 2 BY <2>2 DEF Migration
  <2>3. CASE v = 3 BY <2>3 DEF Migration
  <2>4. CASE v = 4 BY <2>4 DEF Migration
  <2>5. CASE v = 5 BY <2>5 DEF Migration
  <2>6. CASE v = 6 BY <2>6 DEF Migration
  <2> QED BY <2>1, <2>2, <2>3, <2>4, <2>5, <2>6
<1>2. Migration[v] \subseteq Objects BY DEF Objects, ObjectsOf, SCHEMA_VERSION
<1> QED BY <1>1, <1>2

LEMMA ObjectsGrow ==
  ASSUME NEW v \in 1..6
  PROVE  ObjectsOf(v + 1) = ObjectsOf(v) \cup Migration[v]
<1>1. 1..((v + 1) - 1) = (1..(v - 1)) \cup {v} OBVIOUS
<1> QED BY <1>1 DEF ObjectsOf

LEMMA EarlierMigrated ==
  ASSUME NEW v \in 1..6, NEW w \in 1..7, v < w
  PROVE  Migration[v] \cap ObjectsOf(w) # {}
<1>1. Migration[v] \subseteq ObjectsOf(w)
  <2>1. v \in 1..(w - 1) OBVIOUS
  <2> QED BY <2>1 DEF ObjectsOf
<1> QED BY <1>1, MigrationTyped

LEMMA ObjectsTyped ==
  ASSUME NEW v \in 1..7
  PROVE  ObjectsOf(v) \subseteq Objects /\ "catalog_entries" \in ObjectsOf(v)
<1>1. \A u \in 1..(v - 1) : u \in 1..6 OBVIOUS
<1>2. VersionOne \subseteq Objects BY DEF Objects, ObjectsOf
<1> QED BY <1>1, <1>2, MigrationTyped DEF ObjectsOf, VersionOne

LEMMA MadeGrows ==
  ASSUME NEW n \in 1..9
  PROVE  Made(n + 1) = Made(n) \cup Creation[n]
<1>1. 1..((n + 1) - 1) = (1..(n - 1)) \cup {n} OBVIOUS
<1> QED BY <1>1 DEF Made

LEMMA CreationLength == SetVersion = 10
BY DEF SetVersion, Creation

LEMMA FirstMade == Made(1) = {}
BY DEF Made

LEMMA MadeBegins ==
  ASSUME NEW n \in 2..10
  PROVE  "catalog_entries" \in Made(n)
<1>1. 1 \in 1..(n - 1) OBVIOUS
<1>2. "catalog_entries" \in Creation[1] BY DEF Creation
<1> QED BY <1>1, <1>2 DEF Made

\* The schema of a new file is the one a file of the first version migrates to.
LEMMA CreatedIsMigrated == Made(10) = ObjectsOf(7)
<1>1. Made(10) = Creation[1] \cup Creation[2] \cup Creation[3] \cup Creation[4]
                 \cup Creation[5] \cup Creation[6] \cup Creation[7] \cup Creation[8]
                 \cup Creation[9]
  <2>1. 1..(10 - 1) = {1, 2, 3, 4, 5, 6, 7, 8, 9} OBVIOUS
  <2> QED BY <2>1 DEF Made
<1>2. ObjectsOf(7) = VersionOne \cup Migration[1] \cup Migration[2] \cup Migration[3]
                     \cup Migration[4] \cup Migration[5] \cup Migration[6]
  <2>1. 1..(7 - 1) = {1, 2, 3, 4, 5, 6} OBVIOUS
  <2> QED BY <2>1 DEF ObjectsOf
<1>3. VersionOne \cup Migration[1] \cup Migration[2] \cup Migration[3]
        \cup Migration[4] \cup Migration[5] \cup Migration[6]
      = Creation[1] \cup Creation[2] \cup Creation[3] \cup Creation[4]
        \cup Creation[5] \cup Creation[6] \cup Creation[7] \cup Creation[8]
        \cup Creation[9]
  BY DEF VersionOne, Migration, Creation, Column
<1> QED BY <1>1, <1>2, <1>3

LEMMA MadeTyped ==
  ASSUME NEW n \in 1..9
  PROVE  Creation[n] \subseteq Objects
<1>1. Creation[n] \subseteq Made(10)
  <2>1. n \in 1..(10 - 1) OBVIOUS
  <2> QED BY <2>1 DEF Made
<1> QED BY <1>1, CreatedIsMigrated DEF Objects, SCHEMA_VERSION

-------------------------------------------------------------------------------
LEMMA SchemaInit == Init => SchemaInv
<1> SUFFICES ASSUME Init PROVE SchemaInv OBVIOUS
<1>1. step = [o \in Openers |-> Doing("closed", 0)] BY DEF Init, Closed
<1>2. \A o \in Openers : step[o].do = "closed" /\ step[o].n = 0 BY <1>1 DEF Doing
<1>3. step \in [Openers -> Step] BY <1>1 DEF Step, Doing
<1>4. CASE version = 0 /\ objects = {} /\ incompatible = {} /\ origin = "empty"
  <2>1. OursBooks
    BY <1>2, <1>4, CreationLength, FirstMade DEF OursBooks, CreationBooks, Creating, SCHEMA_VERSION
  <2> QED BY <1>3, <1>4, <2>1 DEF SchemaInv, TypeOK
<1>5. CASE /\ version \in 1..SCHEMA_VERSION /\ objects = ObjectsOf(version)
           /\ incompatible = {} /\ origin = "ours"
  <2>1. OursBooks
    BY <1>2, <1>5 DEF OursBooks, CreationBooks, Creating, SCHEMA_VERSION
  <2>2. objects \subseteq Objects BY <1>5, ObjectsTyped DEF SCHEMA_VERSION
  <2> QED BY <1>3, <1>5, <2>1, <2>2 DEF SchemaInv, TypeOK, SCHEMA_VERSION
<1>6. CASE version \in {0, 8} /\ objects = {"other"} /\ incompatible = {} /\ origin = "foreign"
  BY <1>2, <1>3, <1>6 DEF SchemaInv, TypeOK, ForeignBooks, ForeignFile, Objects
<1>7. CASE /\ version \in 1..SCHEMA_VERSION /\ objects = ObjectsOf(version)
           /\ \E t \in UserTables(objects) : incompatible = {t}
           /\ origin = "foreign"
  <2>1. objects \subseteq Objects BY <1>7, ObjectsTyped DEF SCHEMA_VERSION
  <2>2. incompatible \subseteq Objects BY <1>7, <2>1 DEF UserTables
  <2> QED BY <1>2, <1>3, <1>7, <2>1, <2>2
        DEF SchemaInv, TypeOK, ForeignBooks, ForeignFile, SCHEMA_VERSION
<1> QED BY <1>4, <1>5, <1>6, <1>7 DEF Init

\* A step that writes nothing to the file and takes one opener to a place where
\* it knows no more than is true.
LEMMA QuietStep ==
  ASSUME SchemaInv, NEW o \in Openers, NEW next \in Step, Goes(o, next),
         UNCHANGED <<database, origin>>,
         next.do = "create" => origin # "foreign" /\ next.n = 1,
         next.do \in {"inspect", "validate"} => next.n <= version
                                                /\ (origin = "foreign" => next.n = version),
         next.do = "migrate" => origin # "foreign" /\ next.n <= version,
         next.do = "open" => origin # "foreign" /\ version = SCHEMA_VERSION
  PROVE  SchemaInv'
<1>1. UNCHANGED <<version, objects, incompatible, origin>> BY DEF database
<1>2. step' = [step EXCEPT ![o] = next] /\ step \in [Openers -> Step]
  BY DEF Goes, SchemaInv, TypeOK
<1>3. step'[o] = next /\ \A p \in Openers \ {o} : step'[p] = step[p] BY <1>2
<1>4. TypeOK' BY <1>1, <1>2 DEF SchemaInv, TypeOK
<1>5. ASSUME origin # "foreign" PROVE OursBooks'
  <2>1. OursBooks BY <1>5 DEF SchemaInv
  <2>2. \A p \in Openers : Creating(p)' => Creating(p) /\ step'[p] = step[p]
    BY <1>3 DEF Creating
  <2>3. CreationBooks' BY <1>1, <2>1, <2>2 DEF OursBooks, CreationBooks
  <2>4. \A p \in Openers :
          /\ step'[p].do \in {"inspect", "validate", "migrate"} => step'[p].n <= version'
          /\ step'[p].do = "open" => version' = SCHEMA_VERSION
    BY <1>1, <1>3, <2>1 DEF OursBooks
  <2> QED BY <1>1, <2>1, <2>3, <2>4 DEF OursBooks
<1>6. ASSUME origin = "foreign" PROVE ForeignBooks'
  <2>1. ForeignBooks BY <1>6 DEF SchemaInv
  <2>2. ForeignFile' BY <1>1, <2>1 DEF ForeignBooks, ForeignFile
  <2>3. \A p \in Openers :
          /\ step'[p].do \notin {"create", "migrate", "open"}
          /\ step'[p].do \in {"inspect", "validate"} => step'[p].n = version'
    BY <1>1, <1>3, <1>6, <2>1 DEF ForeignBooks
  <2> QED BY <2>2, <2>3 DEF ForeignBooks
<1> QED BY <1>1, <1>4, <1>5, <1>6 DEF SchemaInv

LEMMA ClosedStep == Closed \in Step /\ Closed.do = "closed"
BY DEF Closed, Doing, Step

LEMMA SchemaStep == SchemaInv /\ [Next]_vars => SchemaInv'
<1> SUFFICES ASSUME SchemaInv, [Next]_vars PROVE SchemaInv' OBVIOUS
<1>1. CASE UNCHANGED vars
  BY <1>1 DEF vars, database, SchemaInv, TypeOK, OursBooks, CreationBooks, Creating,
              ForeignBooks, ForeignFile
<1>2. ASSUME NEW o \in Openers,
             ReadVersion(o) \/ Inspect(o) \/ Create(o) \/ Validate(o) \/ Migrate(o) \/ Close(o)
      PROVE  SchemaInv'
  <2> DEFINE n == step[o].n
  <2>0. step[o] \in Step /\ version \in 0..8 BY DEF SchemaInv, TypeOK
  <2>1. CASE ReadVersion(o)
    <3>1. Doing("inspect", version) \in Step BY <2>0 DEF Step, Doing
    <3>2. Doing("inspect", version).do = "inspect" /\ Doing("inspect", version).n = version
      BY DEF Doing
    <3> QED BY <2>0, <2>1, <3>1, <3>2, QuietStep DEF ReadVersion
  <2>2. CASE Inspect(o)
    <3>1. step[o].do = "inspect" /\ n \in 0..8 BY <2>0, <2>2 DEF Inspect, Step
    <3> HIDE DEF n
    <3>2. /\ origin = "foreign" => n = version
          /\ origin # "foreign" => n <= version
      BY <3>1 DEF SchemaInv, OursBooks, ForeignBooks, n
    <3>3. CASE FirstStep(n) = Closed
      BY <2>2, <3>3, ClosedStep, QuietStep DEF Inspect, n
    <3>4. CASE n = 0 /\ UserTables(objects) = {}
      <4>1. origin # "foreign"
        <5>1. ASSUME origin = "foreign" PROVE FALSE
          <6>1. objects = {"other"}
            BY <3>2, <3>4, <5>1 DEF SchemaInv, ForeignBooks, ForeignFile
          <6> QED BY <3>4, <6>1 DEF UserTables, Indexes, Column
        <5> QED BY <5>1
      <4>2. FirstStep(n) = Doing("create", 1) BY <3>4 DEF FirstStep
      <4>3. /\ Doing("create", 1) \in Step
            /\ Doing("create", 1).do = "create" /\ Doing("create", 1).n = 1
        BY CreationLength DEF Step, Doing
      <4> QED BY <2>2, <4>1, <4>2, <4>3, QuietStep DEF Inspect, n
    <3>5. CASE n \in 1..7
      <4>1. FirstStep(n) = Doing("validate", n) BY <3>5 DEF FirstStep, SCHEMA_VERSION
      <4>2. /\ Doing("validate", n) \in Step
            /\ Doing("validate", n).do = "validate" /\ Doing("validate", n).n = n
        BY <3>5 DEF Step, Doing, SCHEMA_VERSION
      <4>3. n <= version BY <2>0, <3>2, <3>5
      <4>4. step[o].n = n BY DEF n
      <4>5. Goes(o, Doing("validate", n)) /\ UNCHANGED <<database, origin>>
        BY <2>2, <4>1, <4>4 DEF Inspect
      <4> QED BY <3>2, <4>2, <4>3, <4>5, QuietStep
    <3> QED BY <3>1, <3>3, <3>4, <3>5 DEF FirstStep, SCHEMA_VERSION
  <2>3. CASE Create(o)
    <3>1. step[o].do = "create" /\ n \in 1..10
      BY <2>0, <2>3, CreationLength DEF Create, Step
    <3>2. origin # "foreign" /\ OursBooks
      BY <3>1 DEF SchemaInv, ForeignBooks
    <3>3. UNCHANGED <<incompatible, origin>> BY <2>3 DEF Create
    <3>4. step \in [Openers -> Step] BY DEF SchemaInv, TypeOK
    <3>5. ASSUME n < SetVersion, Created(n), Goes(o, Doing("create", n + 1)),
                 UNCHANGED version
          PROVE  SchemaInv'
      <4>1. n \in 1..9 BY <3>1, <3>5, CreationLength
      <4>2. version = 0 /\ objects = Made(n)
        <5>1. CASE n > 1 BY <3>1, <3>2, <5>1 DEF OursBooks, CreationBooks, Creating
        <5>2. CASE n = 1
          <6>1. "catalog_entries" \notin objects BY <3>5, <5>2 DEF Created, Creation
          <6>2. version = 0
            BY <2>0, <3>2, <6>1, ObjectsTyped DEF OursBooks, SCHEMA_VERSION
          <6>3. PICK m \in 1..10 : objects = Made(m)
            BY <3>2, <6>2, CreationLength DEF OursBooks
          <6>4. m = 1 BY <6>1, <6>3, MadeBegins
          <6> QED BY <5>2, <6>2, <6>3, <6>4
        <5> QED BY <4>1, <5>1, <5>2
      <4>3. objects' = Made(n + 1) BY <3>5, <4>1, <4>2, MadeGrows DEF Created
      <4>4. step'[o] = Doing("create", n + 1) /\ \A p \in Openers \ {o} : step'[p] = step[p]
        BY <3>4, <3>5 DEF Goes
      <4>5. \A p \in Openers \ {o} : ~Creating(p)
        <5>1. SUFFICES ASSUME NEW p \in Openers \ {o}, Creating(p) PROVE FALSE OBVIOUS
        <5>2. CASE n > 1 BY <3>1, <3>2, <5>1, <5>2 DEF OursBooks, CreationBooks, Creating
        <5>3. CASE n = 1
          <6>1. step[p].n \in 2..10
            BY <3>4, <5>1, CreationLength DEF Creating, Step
          <6>2. objects = Made(step[p].n)
            BY <3>2, <5>1 DEF OursBooks, CreationBooks
          <6> QED BY <4>2, <5>3, <6>1, <6>2, FirstMade, MadeBegins
        <5> QED BY <4>1, <5>2, <5>3
      <4>6. step'[o].do = "create" /\ step'[o].n = n + 1 BY <4>4 DEF Doing
      <4>7. CreationBooks'
        BY <3>5, <4>2, <4>3, <4>4, <4>5, <4>6 DEF CreationBooks, Creating
      <4>8. \E k \in 1..SetVersion : objects' = Made(k)
        <5>1. n + 1 \in 1..SetVersion BY <4>1, CreationLength
        <5> QED BY <4>3, <5>1
      <4>9. \A p \in Openers :
              /\ step'[p].do \in {"inspect", "validate", "migrate"} => step'[p].n <= version'
              /\ step'[p].do = "open" => version' = SCHEMA_VERSION
        BY <3>2, <3>5, <4>4, <4>6 DEF OursBooks
      <4>10. OursBooks'
        BY <3>2, <3>3, <3>5, <4>2, <4>7, <4>8, <4>9 DEF OursBooks
      <4>11. TypeOK'
        <5>1. Doing("create", n + 1) \in Step BY <4>1, CreationLength DEF Step, Doing
        <5>2. step' \in [Openers -> Step] BY <3>4, <3>5, <5>1 DEF Goes
        <5>3. objects' \subseteq Objects
          BY <3>5, <4>1, MadeTyped DEF Created, SchemaInv, TypeOK
        <5> QED BY <3>3, <3>5, <5>2, <5>3 DEF SchemaInv, TypeOK
      <4> QED BY <3>2, <3>3, <4>10, <4>11 DEF SchemaInv
    <3>6. ASSUME n = SetVersion, version' = SCHEMA_VERSION,
                 Goes(o, Doing("validate", SCHEMA_VERSION)), UNCHANGED objects
          PROVE  SchemaInv'
      <4>1. version = 0 /\ objects = ObjectsOf(7)
        BY <3>1, <3>2, <3>6, CreationLength, CreatedIsMigrated
        DEF OursBooks, CreationBooks, Creating
      <4>2. step'[o] = Doing("validate", 7) /\ \A p \in Openers \ {o} : step'[p] = step[p]
        BY <3>4, <3>6 DEF Goes, SCHEMA_VERSION
      <4>3. step'[o].do = "validate" /\ step'[o].n = 7 BY <4>2 DEF Doing
      <4>4. \A p \in Openers : ~Creating(p)'
        BY <3>1, <3>2, <3>6, <4>2, <4>3, CreationLength
        DEF OursBooks, CreationBooks, Creating
      <4>5. \A p \in Openers :
              /\ step'[p].do \in {"inspect", "validate", "migrate"} => step'[p].n <= version'
              /\ step'[p].do = "open" => version' = SCHEMA_VERSION
        <5>1. SUFFICES ASSUME NEW p \in Openers \ {o},
                              step[p].do \in {"inspect", "validate", "migrate"}
                       PROVE  step[p].n <= 7
          BY <3>6, <4>2, <4>3 DEF SCHEMA_VERSION
        <5>2. step[p] \in Step BY <3>4
        <5>3. step[p].n <= version /\ step[p].n \in 0..8
          BY <3>2, <5>1, <5>2 DEF OursBooks, Step, SCHEMA_VERSION
        <5> QED BY <4>1, <5>3
      <4>6. OursBooks'
        BY <3>2, <3>3, <3>6, <4>1, <4>4, <4>5
        DEF OursBooks, CreationBooks, SCHEMA_VERSION
      <4>7. TypeOK'
        <5>1. Doing("validate", 7) \in Step BY DEF Step, Doing, SCHEMA_VERSION
        <5>2. step' \in [Openers -> Step] BY <3>4, <3>6, <5>1 DEF Goes, SCHEMA_VERSION
        <5> QED BY <3>3, <3>6, <5>2 DEF SchemaInv, TypeOK, SCHEMA_VERSION
      <4> QED BY <3>2, <3>3, <4>6, <4>7 DEF SchemaInv
    <3> QED BY <2>3, <3>5, <3>6 DEF Create
  <2>4. CASE Validate(o)
    <3>1. step[o].do = "validate" /\ n \in 1..7
      BY <2>0, <2>4 DEF Validate, Step, SCHEMA_VERSION
    <3> HIDE DEF n
    <3>2. step[o].n = n BY DEF n
    <3>3. UNCHANGED <<database, origin>> BY <2>4 DEF Validate
    <3>4. CASE ~Valid(n)
      <4>1. Goes(o, Closed) BY <2>4, <3>2, <3>4 DEF Validate
      <4> QED BY <3>3, <4>1, ClosedStep, QuietStep
    <3>5. CASE Valid(n)
      <4>1. origin # "foreign"
        <5>1. SUFFICES ASSUME origin = "foreign" PROVE FALSE OBVIOUS
        <5>2. n = version /\ ForeignFile
          BY <3>1, <3>2, <5>1 DEF SchemaInv, ForeignBooks
        <5>3. PICK t \in UserTables(objects) : incompatible = {t}
          BY <3>1, <5>2 DEF ForeignFile
        <5>4. objects = ObjectsOf(n) BY <3>1, <5>2 DEF ForeignFile
        <5> QED BY <3>5, <5>3, <5>4 DEF Valid, UserTables
      <4>2. n <= version /\ version <= 7
        BY <3>1, <3>2, <4>1 DEF SchemaInv, OursBooks, SCHEMA_VERSION
      <4>3. CASE n = 7
        <5>1. Goes(o, Doing("open", 0)) BY <2>4, <3>2, <3>5, <4>3 DEF Validate, SCHEMA_VERSION
        <5>2. Doing("open", 0) \in Step /\ Doing("open", 0).do = "open" BY DEF Step, Doing
        <5>3. version = SCHEMA_VERSION BY <2>0, <4>2, <4>3 DEF SCHEMA_VERSION
        <5> QED BY <3>3, <4>1, <5>1, <5>2, <5>3, QuietStep
      <4>4. CASE n # 7
        <5>1. Goes(o, Doing("migrate", n)) BY <2>4, <3>2, <3>5, <4>4 DEF Validate, SCHEMA_VERSION
        <5>2. /\ Doing("migrate", n) \in Step
              /\ Doing("migrate", n).do = "migrate" /\ Doing("migrate", n).n = n
          BY <3>1, <4>4 DEF Step, Doing
        <5> QED BY <3>3, <4>1, <4>2, <5>1, <5>2, QuietStep
      <4> QED BY <4>3, <4>4
    <3> QED BY <3>4, <3>5
  <2>5. CASE Migrate(o)
    <3>1. step[o].do = "migrate" /\ n \in 1..6 BY <2>0, <2>5 DEF Migrate, Step
    <3>2. origin # "foreign" /\ OursBooks BY <3>1 DEF SchemaInv, ForeignBooks
    <3>3. /\ Migration[n] \cap objects = {}
          /\ objects' = objects \cup Migration[n] /\ version' = n + 1
          /\ step' = [step EXCEPT ![o] = Migrated(n + 1)]
          /\ UNCHANGED <<incompatible, origin>>
      BY <2>5 DEF Migrate, Goes
    <3>4. step \in [Openers -> Step] BY DEF SchemaInv, TypeOK
    <3> HIDE DEF n
    <3>5. version = n /\ objects = ObjectsOf(n)
      <4>1. n <= version /\ version <= 7
        BY <3>1, <3>2 DEF OursBooks, SCHEMA_VERSION, n
          <4>2. objects = ObjectsOf(version) BY <2>0, <3>1, <3>2, <4>1 DEF OursBooks
      <4>3. version \in 1..7 BY <2>0, <3>1, <4>1
      <4>4. ~(n < version) BY <3>1, <3>3, <4>2, <4>3, EarlierMigrated
      <4> QED BY <3>1, <4>1, <4>2, <4>3, <4>4
    <3>6. objects' = ObjectsOf(n + 1) BY <3>1, <3>3, <3>5, ObjectsGrow
    <3>7. /\ Migrated(n + 1) \in Step
          /\ Migrated(n + 1).do \in {"validate", "migrate"} /\ Migrated(n + 1).n = n + 1
      <4>1. CASE n + 1 = 6 BY <4>1 DEF Migrated, Doing, Step
      <4>2. CASE n + 1 # 6 BY <3>1, <4>2 DEF Migrated, Doing, Step, SCHEMA_VERSION
      <4> QED BY <4>1, <4>2
    <3>8. step'[o] = Migrated(n + 1) /\ \A p \in Openers \ {o} : step'[p] = step[p]
      BY <3>3, <3>4
    <3>9. \A p \in Openers : ~Creating(p)'
      <4>1. \A p \in Openers : ~Creating(p)
        BY <3>1, <3>2, <3>5 DEF OursBooks, CreationBooks
      <4> QED BY <3>7, <3>8, <4>1 DEF Creating
    <3>10. \A p \in Openers :
             /\ step'[p].do \in {"inspect", "validate", "migrate"} => step'[p].n <= version'
             /\ step'[p].do = "open" => version' = SCHEMA_VERSION
      <4>1. SUFFICES ASSUME NEW p \in Openers \ {o}
                     PROVE /\ step[p].do \in {"inspect", "validate", "migrate"} =>
                                step[p].n <= n + 1
                           /\ step[p].do # "open"
        BY <3>1, <3>3, <3>7, <3>8
      <4>2. step[p] \in Step BY <3>4
      <4>3. step[p].do = "open" => version = 7
        BY <3>2 DEF OursBooks, SCHEMA_VERSION
      <4>4. ASSUME step[p].do \in {"inspect", "validate", "migrate"} PROVE step[p].n <= n + 1
        <5>1. step[p].n <= n BY <3>2, <3>5, <4>4 DEF OursBooks
        <5>2. step[p].n \in 0..8 BY <4>2, <4>4 DEF Step, SCHEMA_VERSION
        <5> QED BY <3>1, <5>1, <5>2
      <4> QED BY <3>1, <3>5, <4>3, <4>4
    <3>11. OursBooks'
      <4>1. version' <= SCHEMA_VERSION /\ version' > 0 BY <3>1, <3>3 DEF SCHEMA_VERSION
      <4>2. CreationBooks' BY <3>9 DEF CreationBooks
      <4>3. version' # 0 BY <3>1, <3>3
      <4> QED BY <3>2, <3>3, <3>6, <3>10, <4>1, <4>2, <4>3 DEF OursBooks
    <3>12. TypeOK'
      <4>1. step' \in [Openers -> Step] BY <3>3, <3>4, <3>7
      <4>2. objects' \subseteq Objects BY <3>1, <3>3, MigrationTyped DEF SchemaInv, TypeOK
      <4> QED BY <3>1, <3>3, <4>1, <4>2 DEF SchemaInv, TypeOK
    <3> QED BY <3>2, <3>3, <3>11, <3>12 DEF SchemaInv
  <2>6. CASE Close(o) BY <2>6, ClosedStep, QuietStep DEF Close
  <2> QED BY <1>2, <2>1, <2>2, <2>3, <2>4, <2>5, <2>6
<1> QED BY <1>1, <1>2 DEF Next

\* The invariant the theorems rest on.
LEMMA SchemaInvariance == Spec => []SchemaInv
BY SchemaInit, SchemaStep, PTL DEF Spec

-------------------------------------------------------------------------------
\* Every reachable state is well typed.
THEOREM SchemaTypeCorrect == Spec => []TypeOK
<1>1. SchemaInv => TypeOK BY DEF SchemaInv
<1> QED BY <1>1, SchemaInvariance, PTL

\* A file of ours with a version has exactly the objects of that version.
THEOREM SchemaAsVersioned == Spec => []SchemaOfVersion
<1>1. SchemaInv => SchemaOfVersion BY DEF SchemaInv, OursBooks, SchemaOfVersion
<1> QED BY <1>1, SchemaInvariance, PTL

\* Whoever was let in works with the complete current schema.
THEOREM OpenComplete == Spec => []OpenIsComplete
<1>1. ASSUME SchemaInv PROVE OpenIsComplete
  <2>1. SUFFICES ASSUME NEW o \in Openers, step[o].do = "open"
                 PROVE  UserTables(ObjectsOf(SCHEMA_VERSION)) \cup {Column} \subseteq objects
    BY DEF OpenIsComplete
  <2>2. version = SCHEMA_VERSION /\ OursBooks
    BY <1>1, <2>1 DEF SchemaInv, OursBooks, ForeignBooks
  <2>3. objects = ObjectsOf(SCHEMA_VERSION) BY <2>2 DEF OursBooks, SCHEMA_VERSION
  <2>4. Column \in ObjectsOf(SCHEMA_VERSION)
    <3>1. Column \in Migration[1] BY DEF Migration
    <3>2. 1 \in 1..(SCHEMA_VERSION - 1) BY DEF SCHEMA_VERSION
    <3> QED BY <3>1, <3>2 DEF ObjectsOf
  <2> QED BY <2>3, <2>4 DEF UserTables
<1> QED BY <1>1, SchemaInvariance, PTL

\* What a step may do to the file: the version grows, and a file of somebody
\* else stays as it is.
LEMMA FileStep ==
  ASSUME SchemaInv, [Next]_vars
  PROVE  version' >= version /\ (origin = "foreign" => UNCHANGED database)
<1>1. version \in 0..8 BY DEF SchemaInv, TypeOK
<1>2. CASE UNCHANGED database BY <1>1, <1>2 DEF database
<1>3. ASSUME NEW o \in Openers, Create(o)
      PROVE  origin # "foreign" /\ version' >= version
  <2>1. step[o].do = "create" /\ version' \in {version, SCHEMA_VERSION} BY <1>3 DEF Create
  <2>2. origin # "foreign" BY <2>1 DEF SchemaInv, ForeignBooks
  <2>3. version <= SCHEMA_VERSION BY <2>2 DEF SchemaInv, OursBooks
  <2> QED BY <1>1, <2>1, <2>2, <2>3 DEF SCHEMA_VERSION
<1>4. ASSUME NEW o \in Openers, Migrate(o)
      PROVE  origin # "foreign" /\ version' >= version
  <2>0. step[o] \in Step BY DEF SchemaInv, TypeOK
  <2>1. /\ step[o].do = "migrate" /\ step[o].n \in 1..6
        /\ Migration[step[o].n] \cap objects = {} /\ version' = step[o].n + 1
    BY <1>4, <2>0 DEF Migrate, Step
  <2>2. origin # "foreign" BY <2>1 DEF SchemaInv, ForeignBooks
  <2>3. OursBooks BY <2>2 DEF SchemaInv
  <2>4. step[o].n <= version /\ version <= 7 BY <2>1, <2>3 DEF OursBooks, SCHEMA_VERSION
  <2>5. version \in 1..7 /\ objects = ObjectsOf(version)
    BY <1>1, <2>1, <2>3, <2>4 DEF OursBooks
  <2>6. ~(step[o].n < version) BY <2>1, <2>5, EarlierMigrated
  <2> QED BY <2>1, <2>2, <2>5, <2>6
<1> QED BY <1>2, <1>3, <1>4
     DEF Next, vars, ReadVersion, Inspect, Validate, Close, database

\* The version never goes back.
THEOREM VersionGrows == Spec => VersionNeverDecreases
<1>1. SchemaInv /\ [Next]_vars => [version' >= version]_version BY FileStep
<1> QED BY <1>1, SchemaInvariance, PTL DEF Spec, VersionNeverDecreases

\* A file of somebody else is refused and not changed.
THEOREM ForeignKept == Spec => ForeignUntouched
<1>1. SchemaInv /\ [Next]_vars => [origin = "foreign" => UNCHANGED database]_vars BY FileStep
<1> QED BY <1>1, SchemaInvariance, PTL DEF Spec, ForeignUntouched

-------------------------------------------------------------------------------
(* Going on with a migration.                                              *)

\* Whatever was interrupted, a file of an earlier release can be opened: it has
\* the tables and columns of its version, and nothing of the next migration is
\* in its way.
MigrationCanGoOn ==
  origin = "ours" =>
    /\ version \in 1..SCHEMA_VERSION /\ Valid(version)
    /\ version < SCHEMA_VERSION => Migration[version] \cap objects = {}

OursVersioned == origin = "ours" => version > 0

\* Each migration creates what no earlier version has.
LEMMA MigrationIsNew ==
  ASSUME NEW v \in 1..6
  PROVE  Migration[v] \cap ObjectsOf(v) = {}
<1>1. Migration[v] \cap VersionOne = {}
  <2>1. CASE v = 1 BY <2>1 DEF Migration, VersionOne, Column
  <2>2. CASE v = 2 BY <2>2 DEF Migration, VersionOne, Column
  <2>3. CASE v = 3 BY <2>3 DEF Migration, VersionOne, Column
  <2>4. CASE v = 4 BY <2>4 DEF Migration, VersionOne, Column
  <2>5. CASE v = 5 BY <2>5 DEF Migration, VersionOne, Column
  <2>6. CASE v = 6 BY <2>6 DEF Migration, VersionOne, Column
  <2> QED BY <2>1, <2>2, <2>3, <2>4, <2>5, <2>6
<1>2. ASSUME NEW u \in 1..(v - 1) PROVE Migration[v] \cap Migration[u] = {}
  <2>1. u \in {1, 2, 3, 4, 5} /\ u < v OBVIOUS
  <2>2. CASE v = 2 BY <2>1, <2>2 DEF Migration, Column
  <2>3. CASE v = 3 BY <2>1, <2>3 DEF Migration, Column
  <2>4. CASE v = 4 BY <2>1, <2>4 DEF Migration, Column
  <2>5. CASE v = 5 BY <2>1, <2>5 DEF Migration, Column
  <2>6. CASE v = 6 BY <2>1, <2>6 DEF Migration, Column
  <2> QED BY <2>1, <2>2, <2>3, <2>4, <2>5, <2>6
<1> QED BY <1>1, <1>2 DEF ObjectsOf

\* The added column is what the second version has and the first has not.
LEMMA ColumnOfVersion ==
  ASSUME NEW v \in 1..7
  PROVE  (Column \in ObjectsOf(v)) = (v >= 2)
<1>1. Column \in Migration[1] BY DEF Migration
<1>2. CASE v >= 2
  <2>1. 1 \in 1..(v - 1) BY <1>2
  <2> QED BY <1>1, <1>2, <2>1 DEF ObjectsOf
<1>3. CASE v = 1
  <2>1. Column \notin ObjectsOf(1) BY <1>1, MigrationIsNew
  <2> QED BY <1>3, <2>1
<1> QED BY <1>2, <1>3

LEMMA OursVersionedInvariance == Spec => []OursVersioned
<1>1. Init => OursVersioned BY DEF Init, OursVersioned
<1>2. SchemaInv /\ OursVersioned /\ [Next]_vars => OursVersioned'
  <2> SUFFICES ASSUME SchemaInv, OursVersioned, [Next]_vars PROVE OursVersioned'
    OBVIOUS
  <2>1. origin' = origin
    BY DEF Next, vars, ReadVersion, Inspect, Create, Validate, Migrate, Close
  <2>2. version' >= version BY FileStep
  <2>3. version \in 0..8 /\ version' \in 0..8 BY SchemaStep DEF SchemaInv, TypeOK
  <2> QED BY <2>1, <2>2, <2>3 DEF OursVersioned
<1> QED BY <1>1, <1>2, SchemaInvariance, PTL DEF Spec

\* No interruption leaves a file of an earlier release that no opener can go on
\* with.
THEOREM MigrationGoesOn == Spec => []MigrationCanGoOn
<1>1. ASSUME SchemaInv, OursVersioned, origin = "ours"
      PROVE  /\ version \in 1..SCHEMA_VERSION /\ Valid(version)
             /\ version < SCHEMA_VERSION => Migration[version] \cap objects = {}
  <2>1. version \in 1..7 /\ incompatible = {} /\ objects = ObjectsOf(version)
    <3>1. version \in 0..8 /\ OursBooks BY <1>1 DEF SchemaInv, TypeOK
    <3> QED BY <1>1, <3>1 DEF OursBooks, OursVersioned, SCHEMA_VERSION
  <2>2. Valid(version) BY <2>1, ColumnOfVersion DEF Valid, UserTables
  <2>3. ASSUME version < 7 PROVE Migration[version] \cap objects = {}
    <3>1. version \in 1..6 BY <2>1, <2>3
    <3> QED BY <2>1, <3>1, MigrationIsNew
  <2> QED BY <2>1, <2>2, <2>3 DEF SCHEMA_VERSION
<1>2. SchemaInv /\ OursVersioned => MigrationCanGoOn BY <1>1 DEF MigrationCanGoOn
<1> QED BY <1>2, SchemaInvariance, OursVersionedInvariance, PTL

-------------------------------------------------------------------------------
(* A schema that was not finished.                                         *)

\* Who creates the schema was interrupted before the last of its statements.
HalfCreated ==
  /\ origin # "foreign" /\ version = 0 /\ UserTables(objects) # {}
  /\ \A o \in Openers : step[o].do # "create"

\* From then on nobody is let in and nobody changes the file (_initialize takes
\* it for a file that is not ours).
LockedOut ==
  [][HalfCreated => /\ HalfCreated' /\ UNCHANGED database
                    /\ \A o \in Openers : step'[o].do # "open"]_vars

\* An opener of such a file has at most read its version.
LEMMA HalfCreatedOpeners ==
  ASSUME SchemaInv, HalfCreated, NEW o \in Openers
  PROVE  step[o].do = "closed" \/ (step[o].do = "inspect" /\ step[o].n = 0)
<1>1. step[o] \in Step /\ OursBooks
  BY DEF SchemaInv, TypeOK, HalfCreated
<1>2. step[o].do # "open"
  BY <1>1 DEF OursBooks, HalfCreated, SCHEMA_VERSION
<1>3. step[o].do \in {"inspect", "validate", "migrate"} => step[o].n <= 0
  BY <1>1 DEF OursBooks, HalfCreated
<1>4. /\ step[o].do \in {"closed", "open", "inspect", "create", "validate", "migrate"}
      /\ step[o].do = "inspect" => step[o].n \in 0..8
      /\ step[o].do = "validate" => step[o].n \in 1..SCHEMA_VERSION
      /\ step[o].do = "migrate" => step[o].n \in 1..6
  BY <1>1 DEF Step
<1>5. step[o].do # "create"
  BY DEF HalfCreated
<1>6. CASE step[o].do = "inspect"
  BY <1>3, <1>4, <1>6
<1>7. step[o].do # "validate" /\ step[o].do # "migrate"
  BY <1>3, <1>4 DEF SCHEMA_VERSION
<1> QED BY <1>2, <1>4, <1>5, <1>6, <1>7

\* What is known of the finding, for any number of openers: a half-created file
\* stays half-created, whoever opens it and however often.
THEOREM HalfCreatedForGood == Spec => LockedOut
<1>1. ASSUME SchemaInv, HalfCreated, [Next]_vars
      PROVE  HalfCreated' /\ UNCHANGED database /\ \A o \in Openers : step'[o].do # "open"
  <2>1. ASSUME UNCHANGED <<database, origin>>,
               \A o \in Openers : step'[o].do \notin {"create", "open"}
        PROVE  HalfCreated' /\ UNCHANGED database /\ \A o \in Openers : step'[o].do # "open"
    BY <1>1, <2>1 DEF HalfCreated, database, UserTables
  <2>2. \A o \in Openers : step[o].do \notin {"create", "open", "validate", "migrate"}
    BY <1>1, HalfCreatedOpeners
  <2>3. step \in [Openers -> Step]
    BY <1>1 DEF SchemaInv, TypeOK
  <2>4. ASSUME NEW o \in Openers, NEW next \in Step, Goes(o, next),
               next.do \notin {"create", "open"}
        PROVE  \A p \in Openers : step'[p].do \notin {"create", "open"}
    <3>1. step'[o] = next /\ \A p \in Openers \ {o} : step'[p] = step[p]
      BY <2>3, <2>4 DEF Goes
    <3> QED BY <2>2, <2>4, <3>1
  <2>5. CASE UNCHANGED vars
    BY <2>1, <2>2, <2>5 DEF vars
  <2>6. ASSUME NEW o \in Openers, ReadVersion(o)
        PROVE  HalfCreated' /\ UNCHANGED database /\ \A p \in Openers : step'[p].do # "open"
    <3>1. version = 0 BY <1>1 DEF HalfCreated
    <3>2. Doing("inspect", version) \in Step /\ Doing("inspect", version).do = "inspect"
      BY <3>1 DEF Step, Doing
    <3>3. Goes(o, Doing("inspect", version)) /\ UNCHANGED <<database, origin>>
      BY <2>6 DEF ReadVersion
    <3> QED BY <2>1, <2>4, <3>2, <3>3
  <2>7. ASSUME NEW o \in Openers, Inspect(o)
        PROVE  HalfCreated' /\ UNCHANGED database /\ \A p \in Openers : step'[p].do # "open"
    <3>1. step[o].n = 0
      BY <1>1, <2>7, HalfCreatedOpeners DEF Inspect
    <3>2. FirstStep(0) = Closed
      BY <1>1 DEF FirstStep, HalfCreated
    <3>3. Goes(o, Closed) /\ UNCHANGED <<database, origin>>
      BY <2>7, <3>1, <3>2 DEF Inspect
    <3> QED BY <2>1, <2>4, <3>3, ClosedStep
  <2>8. ASSUME NEW o \in Openers, Close(o)
        PROVE  HalfCreated' /\ UNCHANGED database /\ \A p \in Openers : step'[p].do # "open"
    BY <2>1, <2>4, <2>8, ClosedStep DEF Close
  <2>9. \A o \in Openers : ~Create(o) /\ ~Validate(o) /\ ~Migrate(o)
    BY <2>2 DEF Create, Validate, Migrate
  <2> QED BY <1>1, <2>5, <2>6, <2>7, <2>8, <2>9 DEF Next
<1>2. SchemaInv /\ [Next]_vars
        => [HalfCreated => /\ HalfCreated' /\ UNCHANGED database
                           /\ \A o \in Openers : step'[o].do # "open"]_vars
  BY <1>1
<1> QED BY <1>2, SchemaInvariance, PTL DEF Spec, LockedOut

-------------------------------------------------------------------------------
(* Moving the state to another installation.                               *)

\* What an archive is once it is there: the state of the mode it was exported
\* in, written by a cycle of the past.
Complete(archive) ==
  /\ archive.state \in 1..revision
  /\ archive.file = archive.settings.file

\* What an App is configured with and what it has imported are archives.
KnownArchives ==
  /\ \A a \in archives : Complete(a)
  /\ \A app \in Apps : request[app] \in archives \cup {NoArchive}
                       /\ marker[app] \in archives \cup {NoArchive}

\* Contents are numbered in the order in which cycles write them.
WrittenContents == \A app \in Apps, file \in Files : data[app][file] <= revision

\* What the steps of an import rely on, from its acceptance to its marker.
ImportBooks ==
  \A app \in Apps :
    /\ pc[app] \in {"importing", "installing", "marking"} => request[app] # NoArchive
    /\ pc[app] \in {"installing", "marking"} =>
         settings[app] = request[app].settings /\ marker[app] = NoArchive
    /\ pc[app] = "installing" => Target(app) = 0
    /\ pc[app] = "marking" => Target(app) = request[app].state

ArchiveInv ==
  /\ MATypeOK /\ KnownArchives /\ WrittenContents /\ ImportBooks
  /\ MonitorsImportedState /\ MarkerIsTrue

-------------------------------------------------------------------------------
(* The invariant.                                                          *)

LEMMA ArchiveInit == MAInit => ArchiveInv
<1> SUFFICES ASSUME MAInit PROVE ArchiveInv
  OBVIOUS
<1>1. MATypeOK
  BY BoundAssumption DEF MAInit, MATypeOK, Contents, States
<1>2. KnownArchives
  BY DEF MAInit, KnownArchives
<1>3. WrittenContents
  BY DEF MAInit, WrittenContents
<1>4. ImportBooks
  BY DEF MAInit, ImportBooks
<1>5. MonitorsImportedState /\ MarkerIsTrue
  BY DEF MAInit, MonitorsImportedState, MarkerIsTrue
<1> QED BY <1>1, <1>2, <1>3, <1>4, <1>5 DEF ArchiveInv

\* The state file of an archive of the App, and its content.
LEMMA ArchiveTyped ==
  ASSUME ArchiveInv, NEW a \in archives
  PROVE  /\ a \in Archive /\ a # NoArchive /\ a.at \in Times
         /\ a.file \in Files /\ a.state \in Contents /\ a.state # 0
         /\ a.settings \in Settings
<1>1. a \in Archive
  BY DEF ArchiveInv, MATypeOK
<1>2. Complete(a)
  BY DEF ArchiveInv, KnownArchives
<1> QED BY <1>1, <1>2, NoArchiveAssumption DEF Archive, Complete

LEMMA RevisionTyped == ArchiveInv => revision \in Nat /\ revision <= MaxRevision
BY BoundAssumption DEF ArchiveInv, MATypeOK, Contents

LEMMA SettingsTyped ==
  ASSUME ArchiveInv, NEW app \in Apps
  PROVE  settings[app] \in Settings /\ settings[app].file \in Files
<1>1. settings[app] \in Settings
  BY DEF ArchiveInv, MATypeOK
<1> QED BY <1>1 DEF Settings

LEMMA DataTyped ==
  ASSUME ArchiveInv, NEW app \in Apps, NEW file \in Files
  PROVE  data[app][file] \in 0..revision
<1>1. data[app][file] \in Contents
  BY DEF ArchiveInv, MATypeOK
<1> QED BY <1>1, RevisionTyped, BoundAssumption DEF ArchiveInv, WrittenContents, Contents

\* The configuration of the operator, while the App is stopped.
LEMMA ConfigureKeepsInv ==
  ASSUME ArchiveInv, NEW app \in Apps, NEW new \in Settings,
         NEW a \in archives \cup {NoArchive}, Configure(app, new, a)
  PROVE  ArchiveInv'
<1> USE DEF ArchiveInv
<1>1. /\ pc[app] = "stopped" /\ UNCHANGED <<data, marker, pc, archives, damaged, revision, ancestors>>
      /\ settings' = [settings EXCEPT ![app] = new]
      /\ request' = [request EXCEPT ![app] = a]
      /\ refused' = [refused EXCEPT ![app] = FALSE]
  BY DEF Configure
<1>2. a \in Archive \cup {NoArchive}
  BY DEF MATypeOK
<1>3. MATypeOK'
  BY <1>1, <1>2 DEF MATypeOK
<1>4. \A other \in Apps \ {app} : settings'[other] = settings[other] /\ request'[other] = request[other]
  BY <1>1 DEF MATypeOK
<1>5. request'[app] = a
  BY <1>1 DEF MATypeOK
<1>6. KnownArchives'
  BY <1>1, <1>4, <1>5 DEF KnownArchives, Complete
<1>7. WrittenContents'
  BY <1>1 DEF WrittenContents
<1>8. ImportBooks'
  BY <1>1, <1>4 DEF ImportBooks, Target
<1>9. MonitorsImportedState' /\ MarkerIsTrue'
  BY <1>1, <1>4 DEF MonitorsImportedState, MarkerIsTrue, History
<1> QED BY <1>3, <1>6, <1>7, <1>8, <1>9

\* The App goes on to another step and nothing else counts: what the step relies
\* on holds already.
LEMMA SkipKeepsInv ==
  ASSUME ArchiveInv, NEW app \in Apps, NEW next \in States,
         pc' = [pc EXCEPT ![app] = next], refused' \in [Apps -> BOOLEAN],
         UNCHANGED <<data, marker, settings, request, archives, damaged, revision, ancestors>>,
         next \in {"importing", "installing", "marking"} => request[app] # NoArchive,
         next \in {"installing", "marking"} =>
           settings[app] = request[app].settings /\ marker[app] = NoArchive,
         next = "installing" => Target(app) = 0,
         next = "marking" => Target(app) = request[app].state,
         next = "running" /\ request[app] # NoArchive =>
           /\ request[app].state \in History(app, request[app].file)
           /\ settings[app] = request[app].settings
  PROVE  ArchiveInv'
<1> USE DEF ArchiveInv
<1>1. pc \in [Apps -> States]
  BY DEF MATypeOK
<1>2. pc'[app] = next /\ \A other \in Apps \ {app} : pc'[other] = pc[other]
  BY <1>1
<1>3. pc' \in [Apps -> States]
  BY <1>1
<1>4. MATypeOK'
  BY <1>3 DEF MATypeOK
<1>5. KnownArchives' /\ WrittenContents'
  BY DEF KnownArchives, Complete, WrittenContents
<1>6. ImportBooks'
  BY <1>2 DEF ImportBooks, Target
<1>7. MonitorsImportedState'
  BY <1>2 DEF MonitorsImportedState, History
<1>8. MarkerIsTrue'
  BY DEF MarkerIsTrue, History
<1> QED BY <1>4, <1>5, <1>6, <1>7, <1>8

\* What an accepted import found: an empty target, the requested state without
\* a marker, or the completed import.
LEMMA AcceptedImport ==
  ASSUME ArchiveInv, NEW app \in Apps, pc[app] = "importing", ~Refused(app)
  PROVE  /\ request[app] \in archives /\ settings[app] = request[app].settings
         /\ marker[app] # NoArchive => Target(app) = request[app].state
         /\ marker[app] = NoArchive => Target(app) \in {0, request[app].state}
         /\ Target(app) = request[app].state =>
              request[app].state \in History(app, request[app].file)
<1>1. request[app] \in archives
  BY DEF ArchiveInv, KnownArchives, ImportBooks
<1>2. request[app].state # 0
  BY <1>1, ArchiveTyped
<1>3. Target(app) = request[app].state =>
        request[app].state \in History(app, request[app].file)
  BY <1>2 DEF Target, History
<1> QED BY <1>1, <1>3 DEF Refused, Conflicts

LEMMA AcceptKeepsInv ==
  ASSUME ArchiveInv, NEW app \in Apps, AcceptImport(app)
  PROVE  ArchiveInv'
<1> DEFINE next == IF marker[app] # NoArchive THEN "running"
                   ELSE IF Target(app) # 0 THEN "marking" ELSE "installing"
<1>1. /\ pc[app] = "importing" /\ ~Refused(app)
      /\ pc' = [pc EXCEPT ![app] = next] /\ refused' = refused
      /\ UNCHANGED <<data, marker, settings, request, archives, damaged, revision, ancestors>>
  BY DEF AcceptImport, Skip
<1>2. refused' \in [Apps -> BOOLEAN] /\ next \in States
  BY <1>1 DEF ArchiveInv, MATypeOK, States
<1>3. request[app] # NoArchive /\ settings[app] = request[app].settings
  BY <1>1, AcceptedImport, ArchiveTyped
<1>4. /\ next \in {"installing", "marking"} => marker[app] = NoArchive
      /\ next = "installing" => Target(app) = 0
      /\ next = "marking" => Target(app) = request[app].state
      /\ next = "running" => request[app].state \in History(app, request[app].file)
  BY <1>1, AcceptedImport
<1> HIDE DEF next
<1> QED BY <1>1, <1>2, <1>3, <1>4, SkipKeepsInv

\* The state is installed where there was none.
LEMMA InstallKeepsInv ==
  ASSUME ArchiveInv, NEW app \in Apps, Install(app)
  PROVE  ArchiveInv'
<1> USE DEF ArchiveInv
<1> DEFINE a == request[app]
<1>1. /\ pc[app] = "installing"
      /\ data' = [data EXCEPT ![app][a.file] = a.state]
      /\ pc' = [pc EXCEPT ![app] = "marking"]
      /\ UNCHANGED <<marker, settings, request, archives, damaged, revision, ancestors, refused>>
  BY DEF Install
<1>2. a \in archives /\ marker[app] = NoArchive /\ settings[app] = a.settings
  BY <1>1 DEF KnownArchives, ImportBooks
<1>3. a.file \in Files /\ a.state \in Contents /\ a.state \in 1..revision /\ a # NoArchive
  BY <1>2, ArchiveTyped DEF KnownArchives, Complete
<1> HIDE DEF a
<1>4. /\ data' \in [Apps -> [Files -> Contents]]
      /\ data'[app][a.file] = a.state
      /\ \A file \in Files : file # a.file => data'[app][file] = data[app][file]
      /\ \A other \in Apps : other # app => data'[other] = data[other]
  BY <1>1, <1>3 DEF MATypeOK
<1>5. pc' \in [Apps -> States] /\ pc'[app] = "marking"
      /\ \A other \in Apps : other # app => pc'[other] = pc[other]
  BY <1>1 DEF MATypeOK, States
<1>6. MATypeOK'
  BY <1>1, <1>4, <1>5 DEF MATypeOK
<1>7. KnownArchives'
  BY <1>1 DEF KnownArchives, Complete
<1>8. WrittenContents'
  BY <1>1, <1>3, <1>4 DEF WrittenContents, MATypeOK, Contents
<1>9. ImportBooks'
  BY <1>1, <1>2, <1>3, <1>4, <1>5 DEF ImportBooks, Target, a
<1>10. MonitorsImportedState' /\ MarkerIsTrue'
  BY <1>1, <1>2, <1>4, <1>5 DEF MonitorsImportedState, MarkerIsTrue, History
<1> QED BY <1>6, <1>7, <1>8, <1>9, <1>10

\* The marker is written for the state that is installed.
LEMMA MarkKeepsInv ==
  ASSUME ArchiveInv, NEW app \in Apps, WriteMarker(app)
  PROVE  ArchiveInv'
<1> USE DEF ArchiveInv
<1> DEFINE a == request[app]
<1>1. /\ pc[app] = "marking"
      /\ marker' = [marker EXCEPT ![app] = a]
      /\ pc' = [pc EXCEPT ![app] = "running"]
      /\ UNCHANGED <<data, settings, request, archives, damaged, revision, ancestors, refused>>
  BY DEF WriteMarker
<1>2. a \in archives /\ settings[app] = a.settings /\ Target(app) = a.state
  BY <1>1 DEF KnownArchives, ImportBooks
<1>3. a \in Archive /\ a.state # 0
  BY <1>2, ArchiveTyped
<1>4. a.state \in History(app, a.file)
  BY <1>2, <1>3 DEF Target, History
<1>5. /\ marker' \in [Apps -> Archive \cup {NoArchive}] /\ marker'[app] = a
      /\ \A other \in Apps : other # app => marker'[other] = marker[other]
  BY <1>1, <1>3 DEF MATypeOK
<1>6. pc' \in [Apps -> States] /\ pc'[app] = "running"
      /\ \A other \in Apps : other # app => pc'[other] = pc[other]
  BY <1>1 DEF MATypeOK, States
<1>7. request'[app] = a
  BY <1>1
<1> HIDE DEF a
<1>8. MATypeOK'
  BY <1>1, <1>5, <1>6 DEF MATypeOK
<1>9. KnownArchives'
  BY <1>1, <1>2, <1>5 DEF KnownArchives, Complete
<1>10. WrittenContents'
  BY <1>1 DEF WrittenContents
<1>11. ImportBooks'
  BY <1>1, <1>5, <1>6 DEF ImportBooks, Target
<1>12. MonitorsImportedState'
  BY <1>1, <1>2, <1>4, <1>6, <1>7 DEF MonitorsImportedState, History
<1>13. MarkerIsTrue'
  BY <1>1, <1>4, <1>5 DEF MarkerIsTrue, History
<1> QED BY <1>8, <1>9, <1>10, <1>11, <1>12, <1>13

\* A cycle replaces the active state by one that was made from it.
LEMMA CycleGrows ==
  ASSUME ArchiveInv, NEW app \in Apps, Cycle(app)
  PROVE  /\ revision' = revision + 1 /\ revision' \in 1..MaxRevision
         /\ data'[app][settings[app].file] = revision'
         /\ \A other \in Apps, file \in Files :
              /\ other # app \/ file # settings[app].file =>
                   data'[other][file] = data[other][file]
              /\ History(other, file) \subseteq History(other, file)'
         /\ data[app][settings[app].file] # 0 =>
              data[app][settings[app].file] \in ancestors'[revision']
<1> DEFINE target == settings[app].file
           old == data[app][target]
<1>1. /\ revision < MaxRevision /\ revision' = revision + 1
      /\ data' = [data EXCEPT ![app][target] = revision + 1]
      /\ ancestors' = [ancestors EXCEPT ![revision + 1] =
                         IF old = 0 THEN {} ELSE ancestors[old] \cup {old}]
  BY DEF Cycle
<1>2. target \in Files /\ revision \in Nat /\ old \in 0..revision
  BY SettingsTyped, RevisionTyped, DataTyped
<1>3. revision' \in 1..MaxRevision
  BY <1>1, <1>2, BoundAssumption
<1>4. data \in [Apps -> [Files -> Contents]] /\ DOMAIN ancestors = 1..MaxRevision
  BY DEF ArchiveInv, MATypeOK
<1> HIDE DEF target, old
<1>5. /\ data'[app][target] = revision'
      /\ \A other \in Apps, file \in Files :
           other # app \/ file # target => data'[other][file] = data[other][file]
  BY <1>1, <1>2, <1>4
<1>6. /\ ancestors'[revision'] = IF old = 0 THEN {} ELSE ancestors[old] \cup {old}
      /\ \A n \in 1..revision : ancestors'[n] = ancestors[n]
  BY <1>1, <1>2, <1>3, <1>4
<1>7. ASSUME NEW other \in Apps, NEW file \in Files
      PROVE  History(other, file) \subseteq History(other, file)'
  <2>1. CASE data[other][file] = 0
    BY <2>1 DEF History
  <2>2. CASE data[other][file] # 0 /\ (other # app \/ file # target)
    <3>1. data[other][file] \in 1..revision
      BY <2>2, DataTyped
    <3>2. data'[other][file] = data[other][file]
      BY <1>5, <2>2
    <3>3. ancestors'[data[other][file]] = ancestors[data[other][file]]
      BY <1>6, <3>1
    <3> QED BY <2>2, <3>2, <3>3 DEF History
  <2>3. CASE data[other][file] # 0 /\ other = app /\ file = target
    <3>1. History(other, file) = ancestors[old] \cup {old}
      BY <2>3 DEF History, old
    <3>2. revision' # 0 /\ data'[other][file] = revision'
      BY <1>3, <1>5, <2>3
    <3>3. ancestors'[revision'] = ancestors[old] \cup {old}
      BY <1>6, <2>3 DEF old
    <3> QED BY <3>1, <3>2, <3>3 DEF History
  <2> QED BY <2>1, <2>2, <2>3
<1> QED BY <1>1, <1>3, <1>5, <1>6, <1>7 DEF target, old

LEMMA CycleTyped ==
  ASSUME ArchiveInv, NEW app \in Apps, Cycle(app)
  PROVE  MATypeOK'
<1> DEFINE target == settings[app].file
           old == data[app][target]
<1> USE DEF ArchiveInv
<1>1. /\ revision' = revision + 1 /\ revision' \in 1..MaxRevision
      /\ data' = [data EXCEPT ![app][target] = revision']
      /\ ancestors' = [ancestors EXCEPT ![revision'] =
                         IF old = 0 THEN {} ELSE ancestors[old] \cup {old}]
      /\ UNCHANGED <<marker, settings, request, pc, archives, damaged, refused>>
  BY CycleGrows DEF Cycle
<1>2. target \in Files /\ old \in 0..revision /\ revision \in Nat /\ revision <= MaxRevision
  BY SettingsTyped, RevisionTyped, DataTyped
<1>3. revision' \in Contents
  BY <1>1, BoundAssumption DEF Contents
<1>4. ancestors \in [1..MaxRevision -> SUBSET (1..MaxRevision)]
  BY DEF MATypeOK
<1> HIDE DEF target, old
<1>5. data' \in [Apps -> [Files -> Contents]]
  BY <1>1, <1>2, <1>3 DEF MATypeOK
<1>6. (IF old = 0 THEN {} ELSE ancestors[old] \cup {old}) \subseteq 1..MaxRevision
  <2>1. CASE old # 0
    <3>1. old \in 1..MaxRevision
      BY <1>2, <2>1, BoundAssumption
    <3> QED BY <1>4, <3>1
  <2> QED BY <2>1
<1>7. ancestors' \in [1..MaxRevision -> SUBSET (1..MaxRevision)]
  BY <1>1, <1>4, <1>6
<1> QED BY <1>1, <1>3, <1>5, <1>7 DEF MATypeOK

LEMMA CycleKeepsInv ==
  ASSUME ArchiveInv, NEW app \in Apps, Cycle(app)
  PROVE  ArchiveInv'
<1> USE DEF ArchiveInv
<1>1. /\ pc[app] = "running"
      /\ UNCHANGED <<marker, settings, request, pc, archives, damaged, refused>>
  BY DEF Cycle
<1>2. /\ revision' = revision + 1 /\ data'[app][settings[app].file] = revision'
      /\ \A other \in Apps, file \in Files :
           /\ other # app \/ file # settings[app].file =>
                data'[other][file] = data[other][file]
           /\ History(other, file) \subseteq History(other, file)'
  BY CycleGrows
<1>3. revision \in Nat
  BY RevisionTyped
<1>4. \A a \in archives : a.state \in 1..revision /\ a.file \in Files
  BY ArchiveTyped DEF KnownArchives, Complete
<1>5. KnownArchives'
  BY <1>1, <1>2, <1>3 DEF KnownArchives, Complete
<1>6. WrittenContents'
  <2> SUFFICES ASSUME NEW other \in Apps, NEW file \in Files
               PROVE  data'[other][file] <= revision'
    BY DEF WrittenContents
  <2>1. data[other][file] \in 0..revision
    BY DataTyped
  <2> QED BY <1>2, <1>3, <2>1
<1>7. ImportBooks'
  <2> SUFFICES ASSUME NEW other \in Apps, pc[other] \in {"importing", "installing", "marking"}
               PROVE  Target(other)' = Target(other)
    BY <1>1 DEF ImportBooks
  <2>1. other # app
    BY <1>1
  <2>2. request[other] \in archives
    BY DEF KnownArchives, ImportBooks
  <2> QED BY <1>1, <1>2, <1>4, <2>1, <2>2 DEF Target
<1>8. MonitorsImportedState'
  <2> SUFFICES ASSUME NEW other \in Apps, pc[other] = "running", request[other] # NoArchive
               PROVE  request[other].state \in History(other, request[other].file)'
    BY <1>1 DEF MonitorsImportedState, History
  <2>1. request[other] \in archives
    BY DEF KnownArchives
  <2>2. request[other].file \in Files
    BY <1>4, <2>1
  <2>3. History(other, request[other].file) \subseteq History(other, request[other].file)'
    BY <1>1, <1>2, <2>2 DEF History
  <2>4. request[other].state \in History(other, request[other].file)
    BY DEF MonitorsImportedState
  <2> QED BY <2>3, <2>4
<1>9. MarkerIsTrue'
  <2> SUFFICES ASSUME NEW other \in Apps, marker[other] # NoArchive
               PROVE  marker[other].state \in History(other, marker[other].file)'
    BY <1>1 DEF MarkerIsTrue, History
  <2>1. marker[other] \in archives
    BY DEF KnownArchives
  <2>2. marker[other].file \in Files
    BY <1>4, <2>1
  <2>3. History(other, marker[other].file) \subseteq History(other, marker[other].file)'
    BY <1>1, <1>2, <2>2 DEF History
  <2>4. marker[other].state \in History(other, marker[other].file)
    BY DEF MarkerIsTrue
  <2> QED BY <2>3, <2>4
<1> QED BY <1>5, <1>6, <1>7, <1>8, <1>9, CycleTyped

\* An archive is added that no other has the name of.
LEMMA ExportKeepsInv ==
  ASSUME ArchiveInv, NEW app \in Apps, NEW t \in Times, Export(app, t)
  PROVE  ArchiveInv'
<1> USE DEF ArchiveInv
<1> DEFINE a == [at |-> t, file |-> settings[app].file,
                 state |-> data[app][settings[app].file], settings |-> settings[app]]
<1>1. /\ data[app][settings[app].file] # 0 /\ archives' = archives \cup {a}
      /\ UNCHANGED <<data, marker, settings, request, pc, damaged, revision, ancestors, refused>>
  BY DEF Export
<1>2. /\ settings[app] \in Settings /\ settings[app].file \in Files
      /\ data[app][settings[app].file] \in 1..revision /\ revision \in Nat
      /\ revision <= MaxRevision
  BY <1>1, SettingsTyped, RevisionTyped, DataTyped
<1>3. data[app][settings[app].file] \in Contents
  BY <1>2, BoundAssumption DEF Contents
<1>4. a \in Archive
  BY <1>2, <1>3 DEF Archive
<1>5. Complete(a)
  BY <1>2 DEF Complete
<1> HIDE DEF a
<1>6. MATypeOK'
  BY <1>1, <1>4 DEF MATypeOK
<1>7. KnownArchives'
  BY <1>1, <1>5 DEF KnownArchives, Complete
<1>8. WrittenContents' /\ ImportBooks'
  BY <1>1 DEF WrittenContents, ImportBooks, Target
<1>9. MonitorsImportedState' /\ MarkerIsTrue'
  BY <1>1 DEF MonitorsImportedState, MarkerIsTrue, History
<1> QED BY <1>6, <1>7, <1>8, <1>9

LEMMA ArchiveStep == ArchiveInv /\ [MANext]_MAvars => ArchiveInv'
<1> SUFFICES ASSUME ArchiveInv, [MANext]_MAvars PROVE ArchiveInv'
  OBVIOUS
<1>1. ASSUME NEW app \in Apps, Start(app) PROVE ArchiveInv'
  <2> DEFINE next == IF request[app] = NoArchive THEN "running" ELSE "importing"
  <2>1. /\ pc' = [pc EXCEPT ![app] = next] /\ refused' = [refused EXCEPT ![app] = FALSE]
        /\ UNCHANGED <<data, marker, settings, request, archives, damaged, revision, ancestors>>
    BY <1>1 DEF Start
  <2>2. refused' \in [Apps -> BOOLEAN] /\ next \in States
    BY <2>1 DEF ArchiveInv, MATypeOK, States
  <2>3. /\ next \in {"running", "importing"}
        /\ next = "running" <=> request[app] = NoArchive
    OBVIOUS
  <2> HIDE DEF next
  <2> QED BY <2>1, <2>2, <2>3, SkipKeepsInv
<1>2. ASSUME NEW app \in Apps, NEW next \in {"stopped"}, Skip(app, next),
             refused' \in [Apps -> BOOLEAN]
      PROVE  ArchiveInv'
  BY <1>2, SkipKeepsInv DEF Skip, States
<1>3. ASSUME NEW app \in Apps, RefuseImport(app) PROVE ArchiveInv'
  <2>1. refused' \in [Apps -> BOOLEAN]
    BY <1>3 DEF RefuseImport, ArchiveInv, MATypeOK
  <2> QED BY <1>2, <1>3, <2>1 DEF RefuseImport
<1>4. ASSUME NEW app \in Apps, Stop(app) PROVE ArchiveInv'
  <2>1. refused' \in [Apps -> BOOLEAN]
    BY <1>4 DEF Stop, ArchiveInv, MATypeOK
  <2> QED BY <1>2, <1>4, <2>1 DEF Stop
<1>5. ASSUME NEW app \in Apps, Import(app) PROVE ArchiveInv'
  BY <1>3, <1>5, AcceptKeepsInv, InstallKeepsInv, MarkKeepsInv DEF Import
<1>6. ASSUME NEW a \in archives, Damage(a) PROVE ArchiveInv'
  BY <1>6 DEF Damage, ArchiveInv, MATypeOK, KnownArchives, Complete, WrittenContents,
              ImportBooks, Target, MonitorsImportedState, MarkerIsTrue, History
<1>7. CASE UNCHANGED MAvars
  BY <1>7 DEF MAvars, ArchiveInv, MATypeOK, KnownArchives, Complete, WrittenContents,
              ImportBooks, Target, MonitorsImportedState, MarkerIsTrue, History
<1> QED BY <1>1, <1>4, <1>5, <1>6, <1>7, CycleKeepsInv, ConfigureKeepsInv, ExportKeepsInv
        DEF MANext

\* The invariant the theorems of this part rest on.
LEMMA ArchiveInvariance == MASpec => []ArchiveInv
BY ArchiveInit, ArchiveStep, PTL DEF MASpec

-------------------------------------------------------------------------------
\* Every reachable state of the installations is well typed: what a cycle writes
\* and what an archive or a marker names is a content that was written.
THEOREM ArchiveTypeCorrect == MASpec => []MATypeOK
<1>1. ArchiveInv => MATypeOK
  BY DEF ArchiveInv
<1> QED BY <1>1, ArchiveInvariance, PTL

\* An App that monitors with an import configured continues the history of
\* exactly this archive, with the options it was exported with.
THEOREM ImportedStateMonitored == MASpec => []MonitorsImportedState
<1>1. ArchiveInv => MonitorsImportedState
  BY DEF ArchiveInv
<1> QED BY <1>1, ArchiveInvariance, PTL

\* What a marker names was installed, and is still what the state was made from.
THEOREM MarkerTrue == MASpec => []MarkerIsTrue
<1>1. ArchiveInv => MarkerIsTrue
  BY DEF ArchiveInv
<1> QED BY <1>1, ArchiveInvariance, PTL

\* A step that changes an existing state file is a cycle of its App, which makes
\* the new content from the old one; archives stay.
LEMMA FilesStep ==
  ASSUME ArchiveInv, [MANext]_MAvars
  PROVE  /\ \A app \in Apps, file \in Files :
              data[app][file] # 0 /\ data'[app][file] # data[app][file] =>
                pc[app] = "running" /\ data[app][file] \in ancestors'[data'[app][file]]
         /\ archives \subseteq archives'
<1> DEFINE Kept ==
      /\ \A app \in Apps, file \in Files :
           data[app][file] # 0 /\ data'[app][file] # data[app][file] =>
             pc[app] = "running" /\ data[app][file] \in ancestors'[data'[app][file]]
      /\ archives \subseteq archives'
<1>1. UNCHANGED data /\ archives \subseteq archives' => Kept
  OBVIOUS
<1>2. ASSUME NEW app \in Apps, Cycle(app) PROVE Kept
  <2>1. pc[app] = "running" /\ UNCHANGED archives
    BY <1>2 DEF Cycle
  <2>2. ASSUME NEW other \in Apps, NEW file \in Files, data[other][file] # 0,
               data'[other][file] # data[other][file]
        PROVE  pc[other] = "running"
               /\ data[other][file] \in ancestors'[data'[other][file]]
    BY <1>2, <2>1, <2>2, CycleGrows
  <2> QED BY <2>1, <2>2
<1>3. ASSUME NEW app \in Apps, Install(app) PROVE Kept
  <2> DEFINE a == request[app]
  <2>1. /\ data' = [data EXCEPT ![app][a.file] = a.state] /\ UNCHANGED archives
        /\ pc[app] = "installing"
    BY <1>3 DEF Install
  <2>2. data[app][a.file] = 0
    BY <2>1 DEF ArchiveInv, ImportBooks, Target
  <2>3. data \in [Apps -> [Files -> Contents]]
    BY DEF ArchiveInv, MATypeOK
  <2> HIDE DEF a
  <2>4. ASSUME NEW other \in Apps, NEW file \in Files, data[other][file] # 0
        PROVE  data'[other][file] = data[other][file]
    <3>1. other # app \/ file # a.file
      BY <2>2, <2>4
    <3> QED BY <2>1, <2>3, <3>1
  <2> QED BY <2>1, <2>4
<1>4. ASSUME NEW app \in Apps, Start(app) \/ Stop(app) \/ RefuseImport(app)
                               \/ AcceptImport(app) \/ WriteMarker(app)
      PROVE  UNCHANGED <<data, archives>>
  BY <1>4 DEF Start, Stop, RefuseImport, AcceptImport, WriteMarker, Skip
<1>5. ASSUME NEW app \in Apps, NEW new \in Settings, NEW a \in archives \cup {NoArchive},
             Configure(app, new, a)
      PROVE  UNCHANGED <<data, archives>>
  BY <1>5 DEF Configure
<1>6. ASSUME NEW app \in Apps, NEW t \in Times, Export(app, t)
      PROVE  UNCHANGED data /\ archives \subseteq archives'
  BY <1>6 DEF Export
<1>7. ASSUME NEW a \in archives, Damage(a) PROVE UNCHANGED <<data, archives>>
  BY <1>7 DEF Damage
<1>8. UNCHANGED MAvars => UNCHANGED <<data, archives>>
  BY DEF MAvars
<1>9. Kept
  <2> HIDE DEF Kept
  <2> QED BY <1>1, <1>2, <1>3, <1>4, <1>5, <1>6, <1>7, <1>8 DEF MANext, Import
<1> QED BY <1>9

\* No import overwrites a state, no export replaces an archive: an existing file
\* changes only by a cycle that makes the new content from it.
THEOREM NothingIsOverwritten == MASpec => NothingOverwritten
<1> DEFINE Kept ==
      /\ \A app \in Apps, file \in Files :
           data[app][file] # 0 /\ data'[app][file] # data[app][file] =>
             pc[app] = "running" /\ data[app][file] \in ancestors'[data'[app][file]]
      /\ archives \subseteq archives'
<1>1. ArchiveInv /\ [MANext]_MAvars => [Kept]_MAvars
  BY FilesStep
<1>2. [][Kept]_MAvars => NothingOverwritten
  BY PTL DEF NothingOverwritten
<1> QED BY <1>1, <1>2, ArchiveInvariance, PTL DEF MASpec

-------------------------------------------------------------------------------
(* Repeating an import.                                                    *)

\* An import that was cut off between its two writes is not in its own way: the
\* next start finds what it may continue with, if the archive is still there.
InterruptedImportResumes ==
  \A app \in Apps : pc[app] \in {"installing", "marking"} =>
    ~Conflicts(app) /\ settings[app] = request[app].settings

\* A completed import is refused only when a cycle moved the state on, or wrote
\* a state of the other mode: what RepeatedImportAccepted fails for.
RepeatRefusedAfterCycle ==
  \A app \in Apps :
    /\ refused[app] /\ Readable(request[app]) /\ request[app].settings = settings[app]
    /\ marker[app] = request[app]
    => \/ request[app].state \in ancestors[Target(app)]
       \/ data[app][Other(request[app].file)] # 0

\* No state of the other mode appears during an import.
OtherModeEmpty ==
  \A app \in Apps : pc[app] \in {"installing", "marking"} =>
    data[app][Other(request[app].file)] = 0

\* A refusal stands until the operator edits the options.
RefusalBooks ==
  \A app \in Apps : refused[app] =>
    pc[app] = "stopped" /\ request[app] # NoArchive /\ Refused(app)

LEMMA OtherFile ==
  ASSUME NEW file \in Files
  PROVE  Other(file) \in Files /\ Other(file) # file
<1>1. \E f \in Files : f # file
  BY DEF Files
<1> QED BY <1>1 DEF Other

\* A step changes what one installation has at most, and no archive recovers.
AtRest(app) ==
  /\ data'[app] = data[app] /\ marker'[app] = marker[app] /\ settings'[app] = settings[app]
  /\ request'[app] = request[app] /\ pc'[app] = pc[app] /\ refused'[app] = refused[app]

StepOf(app) ==
  \/ Start(app) \/ Import(app) \/ Cycle(app) \/ Stop(app)
  \/ \E new \in Settings, a \in archives \cup {NoArchive} : Configure(app, new, a)

LEMMA OneInstallation ==
  ASSUME ArchiveInv, [MANext]_MAvars, NEW app \in Apps
  PROVE  /\ AtRest(app) \/ StepOf(app)
         /\ damaged \subseteq damaged'
<1>1. /\ data \in [Apps -> [Files -> Contents]]
      /\ marker \in [Apps -> Archive \cup {NoArchive}] /\ settings \in [Apps -> Settings]
      /\ request \in [Apps -> Archive \cup {NoArchive}]
      /\ pc \in [Apps -> States] /\ refused \in [Apps -> BOOLEAN]
  BY DEF ArchiveInv, MATypeOK
<1>2. ASSUME NEW other \in Apps, other # app, StepOf(other)
      PROVE  AtRest(app) /\ UNCHANGED damaged
  <2>1. CASE Start(other)
    BY <1>1, <1>2, <2>1 DEF Start, AtRest
  <2>2. CASE RefuseImport(other) \/ AcceptImport(other) \/ Stop(other)
    BY <1>1, <1>2, <2>2 DEF RefuseImport, AcceptImport, Stop, Skip, AtRest
  <2>3. CASE Install(other)
    BY <1>1, <1>2, <2>3 DEF Install, AtRest
  <2>4. CASE WriteMarker(other)
    BY <1>1, <1>2, <2>4 DEF WriteMarker, AtRest
  <2>5. CASE Cycle(other)
    BY <1>1, <1>2, <2>5 DEF Cycle, AtRest
  <2>6. CASE \E new \in Settings, a \in archives \cup {NoArchive} : Configure(other, new, a)
    <3>1. PICK new \in Settings, a \in archives \cup {NoArchive} : Configure(other, new, a)
      BY <2>6
    <3> QED BY <1>1, <1>2, <3>1 DEF Configure, AtRest
  <2> QED BY <1>2, <2>1, <2>2, <2>3, <2>4, <2>5, <2>6 DEF StepOf, Import
<1>3. StepOf(app) => UNCHANGED damaged
  BY DEF StepOf, Start, Import, RefuseImport, AcceptImport, Install, WriteMarker, Cycle, Stop,
         Skip, Configure
<1>4. ASSUME NEW other \in Apps, NEW t \in Times, Export(other, t)
      PROVE  AtRest(app) /\ UNCHANGED damaged
  BY <1>4 DEF Export, AtRest
<1>5. ASSUME NEW a \in archives, Damage(a)
      PROVE  AtRest(app) /\ damaged \subseteq damaged'
  BY <1>5 DEF Damage, AtRest
<1>6. UNCHANGED MAvars => AtRest(app) /\ UNCHANGED damaged
  BY DEF MAvars, AtRest
<1> QED BY <1>2, <1>3, <1>4, <1>5, <1>6 DEF MANext, StepOf

LEMMA RefusalInit == MAInit => OtherModeEmpty /\ RefusalBooks
BY DEF MAInit, OtherModeEmpty, RefusalBooks

LEMMA OtherModeStep ==
  ASSUME ArchiveInv, OtherModeEmpty, [MANext]_MAvars
  PROVE  OtherModeEmpty'
<1> SUFFICES ASSUME NEW app \in Apps, pc'[app] \in {"installing", "marking"}
             PROVE  data'[app][Other(request'[app].file)] = 0
  BY DEF OtherModeEmpty
<1> USE DEF ArchiveInv
<1>1. pc \in [Apps -> States]
  BY DEF MATypeOK
<1>2. CASE AtRest(app)
  BY <1>2 DEF AtRest, OtherModeEmpty
<1>3. CASE AcceptImport(app)
  <2>1. ~Conflicts(app) /\ UNCHANGED <<data, request>>
    BY <1>3 DEF AcceptImport, Refused, Skip
  <2> QED BY <2>1 DEF Conflicts
<1>4. CASE Install(app)
  <2>1. /\ pc[app] = "installing" /\ request' = request
        /\ data' = [data EXCEPT ![app][request[app].file] = request[app].state]
    BY <1>4 DEF Install
  <2>2. request[app] \in archives
    BY <2>1 DEF KnownArchives, ImportBooks
  <2>3. request[app].file \in Files
    BY <2>2, ArchiveTyped
  <2>4. Other(request[app].file) \in Files /\ Other(request[app].file) # request[app].file
    BY <2>3, OtherFile
  <2>5. data[app][Other(request[app].file)] = 0
    BY <2>1 DEF OtherModeEmpty
  <2>6. data \in [Apps -> [Files -> Contents]]
    BY DEF MATypeOK
  <2> QED BY <2>1, <2>3, <2>4, <2>5, <2>6
<1>5. CASE Start(app)
  BY <1>1, <1>5 DEF Start
<1>6. CASE RefuseImport(app) \/ Stop(app)
  BY <1>1, <1>6 DEF RefuseImport, Stop, Skip
<1>7. CASE WriteMarker(app)
  BY <1>1, <1>7 DEF WriteMarker
<1>8. CASE Cycle(app)
  BY <1>8 DEF Cycle
<1>9. ASSUME NEW new \in Settings, NEW a \in archives \cup {NoArchive},
             Configure(app, new, a)
      PROVE  FALSE
  BY <1>9 DEF Configure
<1> QED BY <1>2, <1>3, <1>4, <1>5, <1>6, <1>7, <1>8, <1>9, OneInstallation
        DEF StepOf, Import

LEMMA RefusalStep ==
  ASSUME ArchiveInv, RefusalBooks, [MANext]_MAvars
  PROVE  RefusalBooks'
<1> SUFFICES ASSUME NEW app \in Apps, refused'[app]
             PROVE  pc'[app] = "stopped" /\ request'[app] # NoArchive /\ Refused(app)'
  BY DEF RefusalBooks
<1> USE DEF ArchiveInv
<1>1. pc \in [Apps -> States] /\ refused \in [Apps -> BOOLEAN]
  BY DEF MATypeOK
<1>2. CASE AtRest(app)
  <2>1. pc[app] = "stopped" /\ request[app] # NoArchive /\ Refused(app)
    BY <1>2 DEF AtRest, RefusalBooks
  <2>2. ~Readable(request[app]) => ~Readable(request[app])'
    <3>1. request[app] \in archives
      BY <2>1 DEF KnownArchives
    <3>2. damaged \subseteq damaged'
      BY OneInstallation
    <3> QED BY <1>2, <3>1, <3>2 DEF Readable, AtRest
  <2>3. Conflicts(app) => Conflicts(app)'
    BY <1>2 DEF AtRest, Conflicts, Target
  <2>4. Refused(app)'
    BY <1>2, <2>1, <2>2, <2>3 DEF Refused, AtRest
  <2> QED BY <1>2, <2>1, <2>4 DEF AtRest
<1>3. CASE RefuseImport(app)
  <2>1. /\ pc[app] = "importing" /\ Refused(app) /\ pc' = [pc EXCEPT ![app] = "stopped"]
        /\ UNCHANGED <<data, marker, settings, request, archives, damaged>>
    BY <1>3 DEF RefuseImport, Skip
  <2>2. request[app] # NoArchive
    BY <2>1 DEF ImportBooks
  <2>3. Refused(app)'
    BY <2>1 DEF Refused, Readable, Conflicts, Target
  <2> QED BY <1>1, <2>1, <2>2, <2>3
<1>4. pc[app] # "stopped" /\ UNCHANGED refused => FALSE
  BY DEF RefusalBooks
<1>5. CASE AcceptImport(app) \/ Install(app) \/ WriteMarker(app) \/ Cycle(app) \/ Stop(app)
  <2>1. pc[app] # "stopped" /\ UNCHANGED refused
    BY <1>5 DEF AcceptImport, Install, WriteMarker, Cycle, Stop
  <2> QED BY <1>4, <2>1
<1>6. CASE Start(app)
  BY <1>1, <1>6 DEF Start
<1>7. ASSUME NEW new \in Settings, NEW a \in archives \cup {NoArchive},
             Configure(app, new, a)
      PROVE  FALSE
  BY <1>1, <1>7 DEF Configure
<1> QED BY <1>2, <1>3, <1>5, <1>6, <1>7, OneInstallation DEF StepOf, Import

LEMMA RefusalInvariance == MASpec => [](ArchiveInv /\ OtherModeEmpty /\ RefusalBooks)
<1>1. ArchiveInv /\ OtherModeEmpty /\ RefusalBooks /\ [MANext]_MAvars
        => (OtherModeEmpty /\ RefusalBooks)'
  BY OtherModeStep, RefusalStep
<1> QED BY <1>1, RefusalInit, ArchiveInvariance, PTL DEF MASpec

\* Wherever an import is cut off, its own writes do not make the next start
\* refuse it.
THEOREM ImportResumes == MASpec => []InterruptedImportResumes
<1>1. ASSUME ArchiveInv, OtherModeEmpty, NEW app \in Apps,
             pc[app] \in {"installing", "marking"}
      PROVE  ~Conflicts(app) /\ settings[app] = request[app].settings
  <2>1. /\ settings[app] = request[app].settings /\ marker[app] = NoArchive
        /\ Target(app) \in {0, request[app].state}
    BY <1>1 DEF ArchiveInv, ImportBooks
  <2>2. data[app][Other(request[app].file)] = 0
    BY <1>1 DEF OtherModeEmpty
  <2> QED BY <2>1, <2>2 DEF Conflicts
<1>2. ArchiveInv /\ OtherModeEmpty /\ RefusalBooks => InterruptedImportResumes
  BY <1>1 DEF InterruptedImportResumes
<1> QED BY <1>2, RefusalInvariance, PTL

\* The same import is refused after it was completed only for what cycles wrote.
THEOREM RepeatRefused == MASpec => []RepeatRefusedAfterCycle
<1>1. ASSUME ArchiveInv, RefusalBooks, NEW app \in Apps, refused[app],
             Readable(request[app]), request[app].settings = settings[app],
             marker[app] = request[app], data[app][Other(request[app].file)] = 0
      PROVE  request[app].state \in ancestors[Target(app)]
  <2>1. request[app] # NoArchive /\ Conflicts(app)
    BY <1>1 DEF RefusalBooks, Refused
  <2>2. Target(app) # request[app].state
    BY <1>1, <2>1 DEF Conflicts
  <2>3. request[app].state \in History(app, request[app].file)
    BY <1>1, <2>1 DEF ArchiveInv, MarkerIsTrue
  <2> QED BY <2>2, <2>3 DEF History, Target
<1>2. ArchiveInv /\ OtherModeEmpty /\ RefusalBooks => RepeatRefusedAfterCycle
  BY <1>1 DEF RepeatRefusedAfterCycle
<1> QED BY <1>2, RefusalInvariance, PTL

===============================================================================
