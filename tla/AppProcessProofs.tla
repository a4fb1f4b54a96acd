---------------------------- MODULE AppProcessProofs ----------------------------
(***************************************************************************)
(* What the process of the App keeps for any set of references, discovery  *)
(* interval and limit of cycles, in either mode: every property that its   *)
(* model-checked instance states.                                          *)
(***************************************************************************)
EXTENDS AppProcess, TLAPS

\* A process that may begin or be in a cycle has not reached its limit.
CycleRemains ==
  /\ main = "down" => completed = 0
  /\ MaxCycles > 0 /\ main \in {"acquire"} \cup InCycle => completed < MaxCycles

Typed == TypeOK /\ CycleRemains

LEMMA NothingTyped == Nothing \in Cycle /\ ErrorsOf(Nothing.found) = {}
                      /\ ProductsOf(Nothing.found) = {}
<1>1. Nothing.found.of \in [{} -> Results]
  BY DEF Nothing
<1>2. Nothing.found \in Found
  BY <1>1 DEF Found, Nothing
<1>3. Nothing \in Cycle
  BY <1>2 DEF Cycle, Nothing, DigestStatus
<1>4. DOMAIN Nothing.found.of = {}
  BY <1>1
<1> QED BY <1>3, <1>4 DEF ErrorsOf, ProductsOf

LEMMA TypedInit == Init => Typed
<1> SUFFICES ASSUME Init PROVE Typed
  OBVIOUS
<1>1. completed \in Counted
  BY OptionAssumption DEF Init, Counted
<1>2. cycle \in Cycle
  BY NothingTyped DEF Init
<1>3. CycleRemains
  BY DEF Init, CycleRemains, InCycle
<1> QED BY <1>1, <1>2, <1>3 DEF Init, Typed, TypeOK, Kinds

\* The steps that end the process leave it typed.
LEMMA EndTyped ==
  ASSUME NEW status \in {0, 1, 2, 130},
         NEW why \in {"start", "stop", "complete", "error", "publication"},
         End(status, why)
  PROVE  /\ mode' = "none" /\ main' = "down" /\ listener' = "reading" /\ lock' = "free"
         /\ cycle' \in Cycle /\ completed' = 0 /\ completed' \in Counted'
         /\ errors' = FALSE /\ exit' \in {0, 1, 2, 130}
         /\ cause' \in {"start", "stop", "complete", "error", "publication"}
BY NothingTyped, OptionAssumption DEF End, Counted

\* A step that ends the process, and leaves its entities and ghosts in their ranges.
LEMMA EndKeepsTyped ==
  ASSUME NEW status \in {0, 1, 2, 130},
         NEW why \in {"start", "stop", "complete", "error", "publication"},
         End(status, why),
         current' \subseteq References \cup Summaries, healthy' \in BOOLEAN, kind' \in Kinds,
         failed' \in BOOLEAN, broken' \in BOOLEAN
  PROVE  Typed'
<1>1. /\ mode' = "none" /\ main' = "down" /\ listener' = "reading" /\ lock' = "free"
      /\ exit' = status /\ cause' = why /\ completed' = 0 /\ errors' = FALSE
  BY DEF End
<1>2. cycle' \in Cycle
  BY NothingTyped DEF End
<1>3. completed' \in Counted'
  BY <1>1, OptionAssumption DEF Counted
<1>4. CycleRemains'
  BY <1>1 DEF CycleRemains, InCycle
<1>5. TypeOK'
  BY <1>1, <1>2, <1>3 DEF TypeOK
<1> QED BY <1>4, <1>5 DEF Typed

LEMMA PublishTyped ==
  ASSUME Typed, main \in InCycle,
         NEW entity \in References \cup Summaries,
         NEW next \in InCycle, NEW otherwise \in InCycle,
         Publish(entity, next, otherwise)
  PROVE  /\ mode' \in {"none", "catalog", "explicit"}
         /\ main' \in {"down"} \cup InCycle
         /\ listener' \in {"reading", "retaining", "exporting", "previewing", "dead"}
         /\ lock' \in {"free", "main", "listener"}
         /\ cycle' \in Cycle /\ completed' \in Counted' /\ errors' \in BOOLEAN
         /\ exit' \in {-1, 0, 1, 2, 130}
         /\ current' \subseteq References \cup Summaries
         /\ cause' \in {"none", "start", "stop", "complete", "error", "publication"}
         /\ failed' \in BOOLEAN
         /\ CycleRemains'
<1>1. CASE End(1, "publication") /\ failed' = TRUE
            /\ current' \in {current, current \cup {entity}}
  <2>1. End(1, "publication") => CycleRemains'
    BY EndTyped DEF CycleRemains, InCycle
  <2> QED BY <1>1, <2>1, EndTyped DEF Typed, TypeOK
<1>2. CASE Running /\ main' \in InCycle /\ current' \in {current, current \cup {entity}}
            /\ failed' \in BOOLEAN /\ cycle' \in Cycle
  BY <1>2 DEF Running, Typed, TypeOK, CycleRemains, Counted, InCycle
<1>3. /\ [cycle EXCEPT !.toPublish = @ \ {entity}] \in Cycle
      /\ [cycle EXCEPT !.toPublish = {}, !.published = FALSE] \in Cycle
  BY DEF Typed, TypeOK, Cycle
<1> QED BY <1>1, <1>2, <1>3 DEF Publish, Typed, TypeOK

LEMMA TypedNext ==
  ASSUME Typed, [Next]_vars
  PROVE  Typed'
<1> USE DEF Typed
<1>1. CASE Start
  <2>1. CASE \E status \in {1, 2} : End(status, "start")
    <3>1. PICK status \in {1, 2} : End(status, "start")
      BY <2>1
    <3>2. failed' = FALSE /\ UNCHANGED <<entities, broken>>
      BY <1>1 DEF Start
    <3>3. /\ current' \subseteq References \cup Summaries /\ healthy' \in BOOLEAN
          /\ kind' \in Kinds /\ failed' \in BOOLEAN /\ broken' \in BOOLEAN
      BY <3>2 DEF entities, TypeOK
    <3>4. status \in {0, 1, 2, 130}
      OBVIOUS
    <3> QED BY <3>1, <3>3, <3>4, EndKeepsTyped
  <2>2. CASE main' = "acquire"
    <3>1. ~\E status \in {1, 2} : End(status, "start")
      BY <2>2 DEF End
    <3>2. /\ mode' \in {"catalog", "explicit"} /\ exit' = -1 /\ cause' = "none"
          /\ main = "down" /\ failed' = FALSE
          /\ UNCHANGED <<lock, listener, cycle, completed, errors, entities, broken>>
      BY <1>1, <3>1 DEF Start
    <3>3. CycleRemains'
      BY <2>2, <3>2, OptionAssumption DEF CycleRemains, InCycle
    <3> QED BY <2>2, <3>2, <3>3 DEF entities, TypeOK, Counted
  <2> QED BY <1>1, <2>1, <2>2 DEF Start
<1>2. CASE Stop
  <2>1. PICK status \in {0, 130} : End(status, "stop")
    BY <1>2 DEF Stop
  <2>2. UNCHANGED <<entities, failed, broken>>
    BY <1>2 DEF Stop
  <2>3. status \in {0, 1, 2, 130}
    OBVIOUS
  <2>4. /\ current' \subseteq References \cup Summaries /\ healthy' \in BOOLEAN
        /\ kind' \in Kinds /\ failed' \in BOOLEAN /\ broken' \in BOOLEAN
    BY <2>2 DEF entities, TypeOK
  <2> QED BY <2>1, <2>3, <2>4, EndKeepsTyped
<1>3. CASE Wait
  BY <1>3, OptionAssumption DEF Wait, entities, ghosts, TypeOK, CycleRemains, InCycle, Counted
<1>4. CASE Complete
  <2>1. PICK status \in {0, 1} : End(status, "complete")
    BY <1>4 DEF Complete
  <2>2. UNCHANGED <<entities, failed, broken>>
    BY <1>4 DEF Complete
  <2>3. status \in {0, 1, 2, 130}
    OBVIOUS
  <2>4. /\ current' \subseteq References \cup Summaries /\ healthy' \in BOOLEAN
        /\ kind' \in Kinds /\ failed' \in BOOLEAN /\ broken' \in BOOLEAN
    BY <2>2 DEF entities, TypeOK
  <2> QED BY <2>1, <2>3, <2>4, EndKeepsTyped
<1>5. CASE Raise
  <2>1. main \in InCycle
    BY <1>5 DEF Raise, Raised, InCycle
  <2>2. CASE main' = "warning" /\ Running /\ UNCHANGED <<cycle, broken>>
    BY <1>5, <2>1, <2>2 DEF Raise, Running, entities, TypeOK, CycleRemains, InCycle, Counted
  <2>3. CASE End(1, "error") /\ broken' \in BOOLEAN
    <3>1. failed' = TRUE /\ UNCHANGED entities
      BY <1>5 DEF Raise
    <3>2. /\ current' \subseteq References \cup Summaries /\ healthy' \in BOOLEAN
          /\ kind' \in Kinds /\ failed' \in BOOLEAN
      BY <3>1 DEF entities, TypeOK
    <3> QED BY <2>3, <3>2, EndKeepsTyped
  <2> QED BY <1>5, <2>2, <2>3 DEF Raise, TypeOK
<1>6. CASE Warn
  <2>1. End(1, "error") /\ UNCHANGED <<current, kind, failed>>
    BY <1>6 DEF Warn
  <2>2. healthy' \in BOOLEAN /\ broken' \in BOOLEAN
    BY <1>6 DEF Warn, TypeOK
  <2>3. current' \subseteq References \cup Summaries /\ kind' \in Kinds /\ failed' \in BOOLEAN
    BY <2>1 DEF TypeOK
  <2> QED BY <2>1, <2>2, <2>3, EndKeepsTyped
<1>7. CASE Cycling
  <2>1. CASE BeginCycle
    BY <1>7, <2>1, NothingTyped DEF BeginCycle, ghosts, TypeOK, CycleRemains, InCycle, Counted
  <2>2. CASE Monitor
    <3>1. ASSUME NEW found \in Found
          PROVE  [cycle EXCEPT !.found = found, !.toPublish = ProductsOf(found)] \in Cycle
      <4>1. ProductsOf(found) \subseteq References
        BY DEF Found, ProductsOf
      <4> QED BY <4>1 DEF TypeOK, Cycle
    <3>2. PICK found \in Found :
            /\ cycle' = [cycle EXCEPT !.found = found, !.toPublish = ProductsOf(found)]
            /\ failed' = (failed \/ found.catalogError \/ ErrorsOf(found) # {})
      BY <2>2 DEF Monitor
    <3>3. cycle' \in Cycle
      BY <3>1, <3>2
    <3>4. failed' \in BOOLEAN
      BY <3>2
    <3> QED BY <2>2, <3>3, <3>4 DEF Monitor, entities, TypeOK, CycleRemains, InCycle, Counted
  <2>3. CASE PublishProduct
    <3>1. PICK r \in cycle.toPublish : Publish(r, "products", AfterStatus)
      BY <2>3 DEF PublishProduct
    <3>2. r \in References \cup Summaries
      BY <3>1 DEF TypeOK, Cycle
    <3> QED BY <2>3, <3>1, <3>2, PublishTyped
        DEF PublishProduct, TypeOK, InCycle, AfterStatus
  <2>4. CASE PublishStatus
    BY <2>4, PublishTyped DEF PublishStatus, TypeOK, InCycle, AfterStatus, Summaries
  <2>5. CASE PublishOverview
    BY <2>5, PublishTyped DEF PublishOverview, TypeOK, InCycle, Summaries
  <2>6. CASE PublishCatalogStatus
    BY <2>6, PublishTyped DEF PublishCatalogStatus, TypeOK, InCycle, Summaries
  <2>7. CASE PublishStorageStatus
    BY <2>7, PublishTyped DEF PublishStorageStatus, TypeOK, InCycle, Summaries
  <2>8. CASE PublishPreview
    BY <2>8, PublishTyped DEF PublishPreview, TypeOK, InCycle, Summaries
  <2>9. CASE RunDigest
    <3>1. cycle' \in Cycle
      BY <2>9 DEF RunDigest, TypeOK, Cycle
    <3> QED BY <2>9, <3>1 DEF RunDigest, entities, ghosts, TypeOK, CycleRemains, InCycle, Counted
  <2>10. CASE \E next \in {"weekly", "digestStatus"} : main \in InCycle /\ Notify(next)
               /\ UNCHANGED entities
    <3>1. cycle' \in Cycle /\ failed' \in BOOLEAN
      BY <2>10 DEF Notify, TypeOK, Cycle
    <3> QED BY <2>10, <3>1 DEF Notify, entities, TypeOK, CycleRemains, InCycle, Counted
  <2>11. CASE PublishDigestStatus
    BY <2>11, PublishTyped DEF PublishDigestStatus, TypeOK, InCycle, Summaries
  <2>12. CASE PublishHealthStatus
    <3>1. kind' \in Kinds
      BY <2>12 DEF PublishHealthStatus, TypeOK, FailureKind, Kinds, Total
    <3> QED BY <2>12, <3>1, PublishTyped DEF PublishHealthStatus, TypeOK, InCycle, Summaries
  <2>13. CASE LeaveCycle
    <3>1. completed' \in Counted'
      BY <2>13, OptionAssumption DEF LeaveCycle, NextCount, TypeOK, CycleRemains, InCycle, Counted
    <3>2. errors' \in BOOLEAN
      BY <2>13 DEF LeaveCycle, TypeOK
    <3> QED BY <2>13, <3>1, <3>2 DEF LeaveCycle, entities, ghosts, TypeOK, CycleRemains, InCycle
  <2> QED BY <1>7, <2>1, <2>2, <2>3, <2>4, <2>5, <2>6, <2>7, <2>8, <2>9, <2>10, <2>11, <2>12,
             <2>13 DEF Cycling, RecordHealth, RunWeekly, Notify, InCycle, entities
<1>8. CASE Commanding
  BY <1>8 DEF Commanding, BeginCommand, Retain, FinishCommand, RefreshPreview, Listening, ghosts,
    TypeOK, CycleRemains, InCycle, Counted, Summaries
<1>9. CASE UNCHANGED vars
  BY <1>9 DEF vars, threads, entities, ghosts, TypeOK, CycleRemains, Counted
<1> QED BY <1>1, <1>2, <1>3, <1>4, <1>5, <1>6, <1>7, <1>8, <1>9 DEF Next

\* Every variable of the process stays in its range for any set of references,
\* interval and limit of cycles (run, catalog_cycle).
THEOREM Typing == Spec => []TypeOK
<1>1. Init => Typed
  BY TypedInit
<1>2. Typed /\ [Next]_vars => Typed'
  BY TypedNext
<1>3. Typed => TypeOK
  BY DEF Typed
<1> QED BY <1>1, <1>2, <1>3, PTL DEF Spec

-------------------------------------------------------------------------------
(* The lock and the storage warning.                                       *)

\* The lock tells who holds it, in either thread.
LockHeld ==
  /\ (lock = "main") = (main \in InCycle)
  /\ (lock = "listener") = (listener \in {"retaining", "exporting", "previewing"})

LEMMA LockInit == Init => LockHeld
BY DEF Init, LockHeld, InCycle

LEMMA LockNext ==
  ASSUME LockHeld, [Next]_vars
  PROVE  LockHeld'
<1> USE DEF LockHeld
<1>1. CASE \E status, why : End(status, why)
  BY <1>1 DEF End, InCycle
<1>2. CASE Running /\ main \in InCycle /\ main' \in InCycle
  BY <1>2 DEF Running
<1>3. ASSUME NEW entity, NEW next \in InCycle, NEW otherwise \in InCycle, main \in InCycle,
             Publish(entity, next, otherwise)
      PROVE  LockHeld'
  BY <1>1, <1>2, <1>3 DEF Publish
<1>4. CASE Start
  <2>1. CASE \E status \in {1, 2} : End(status, "start")
    BY <1>1, <2>1
  <2>2. CASE main' = "acquire" /\ UNCHANGED <<lock, listener>>
    BY <1>4, <2>2 DEF Start, InCycle
  <2> QED BY <1>4, <2>1, <2>2 DEF Start
<1>5. CASE Stop \/ Complete \/ Warn
  BY <1>1, <1>5 DEF Stop, Complete, Warn
<1>6. CASE Wait
  BY <1>6 DEF Wait, InCycle
<1>7. CASE Raise
  <2>1. main \in InCycle
    BY <1>7 DEF Raise, Raised, InCycle
  <2>2. CASE main' = "warning" /\ Running
    BY <1>2, <2>1, <2>2 DEF InCycle
  <2> QED BY <1>1, <1>7, <2>2 DEF Raise
<1>8. CASE Cycling
  <2>1. CASE BeginCycle
    BY <2>1 DEF BeginCycle, InCycle
  <2>2. CASE Monitor \/ RunDigest \/ RecordHealth \/ RunWeekly
    BY <2>2 DEF Monitor, RunDigest, RecordHealth, RunWeekly, Notify, InCycle
  <2>3. CASE PublishProduct \/ PublishStatus
    BY <1>3, <2>3 DEF PublishProduct, PublishStatus, AfterStatus, InCycle
  <2>4. CASE PublishOverview \/ PublishCatalogStatus \/ PublishStorageStatus \/ PublishPreview
    BY <1>3, <2>4
    DEF PublishOverview, PublishCatalogStatus, PublishStorageStatus, PublishPreview, InCycle
  <2>5. CASE PublishDigestStatus \/ PublishHealthStatus
    BY <1>3, <2>5 DEF PublishDigestStatus, PublishHealthStatus, InCycle
  <2>6. CASE LeaveCycle
    BY <2>6 DEF LeaveCycle, InCycle
  <2> QED BY <1>8, <2>1, <2>2, <2>3, <2>4, <2>5, <2>6 DEF Cycling
<1>9. CASE Commanding
  BY <1>9 DEF Commanding, BeginCommand, Retain, FinishCommand, RefreshPreview, Listening
<1>10. CASE UNCHANGED vars
  BY <1>10 DEF vars, threads
<1> QED BY <1>4, <1>5, <1>6, <1>7, <1>8, <1>9, <1>10 DEF Next

LEMMA LockedApart == LockHeld => NoHalfCycle
BY DEF LockHeld, NoHalfCycle

\* A command and a cycle never see each other's half finished work, for any
\* number of references and cycles (operation_lock).
THEOREM CommandsMeetWholeCycles == Spec => []NoHalfCycle
BY LockInit, LockNext, LockedApart, PTL DEF Spec

LEMMA WarningNext ==
  ASSUME StorageWarningStands, [Next]_vars
  PROVE  StorageWarningStands'
<1> USE DEF StorageWarningStands
<1>1. CASE UNCHANGED <<healthy, broken>>
  BY <1>1
<1>2. CASE Raise
  <2>1. \A step \in DOMAIN Raised : Raised[step] \subseteq StorageErrors \cup {"other"}
    BY DEF Raised, StorageErrors
  <2> QED BY <1>1, <1>2, <2>1 DEF Raise, entities
<1>3. CASE Warn
  BY <1>3 DEF Warn
<1>4. CASE PublishStorageStatus
  BY <1>4 DEF PublishStorageStatus
<1>5. CASE Start \/ Stop \/ Wait \/ Complete \/ UNCHANGED vars
  BY <1>1, <1>5 DEF Start, Stop, Wait, Complete, vars, entities, ghosts
<1>6. CASE Commanding
  BY <1>1, <1>6
  DEF Commanding, BeginCommand, Retain, FinishCommand, RefreshPreview, Listening, ghosts
<1>7. CASE Cycling
  BY <1>1, <1>4, <1>7
  DEF Cycling, BeginCycle, Monitor, PublishProduct, PublishStatus, PublishOverview,
      PublishCatalogStatus, PublishPreview, RunDigest, RecordHealth, RunWeekly, Notify,
      PublishDigestStatus, PublishHealthStatus, LeaveCycle, entities, ghosts
<1> QED BY <1>2, <1>3, <1>5, <1>6, <1>7 DEF Next

\* Whichever store failed in whichever step, the storage warning that Home
\* Assistant received stands until a later cycle has read the store (run).
THEOREM WarningsStand == Spec => []StorageWarningStands
<1>1. Init => StorageWarningStands
  BY DEF Init, StorageWarningStands
<1> QED BY <1>1, WarningNext, PTL DEF Spec

-------------------------------------------------------------------------------
(* What the entities show.                                                 *)

\* How far the entities are at each step of a cycle, whatever was lost.
EntityBooks ==
  /\ main = "monitor" => current = {}
  /\ main = "products" => /\ current \cap Summaries = {}
                          /\ ProductsOf(cycle.found) \ cycle.toPublish \subseteq current
  /\ main = "overview" => "catalog" \notin current
  /\ main = "catalogStatus" => "overview" \in current
  /\ main \in InCycle \ {"leave"} => "health" \notin current
  /\ main = "healthStatus" => "digest" \in current

\* Once it is published, the health entity shows what this cycle found.
HealthBooks ==
  main \in {"leave", "waiting"} /\ "health" \in current =>
    kind = FailureKind(cycle.found, cycle.digest)

\* What is up to date at each step if nothing was lost so far.
PublishedBooks ==
  cycle.published =>
    /\ main \in {"overview", "catalogStatus", "storageStatus", "preview", "digest", "health",
                 "weekly", "digestStatus", "healthStatus", "leave", "waiting"} =>
         {"status"} \cup ProductsOf(cycle.found) \subseteq current
    /\ main \in {"catalogStatus", "storageStatus", "preview", "digest", "health", "weekly",
                 "digestStatus", "healthStatus"} => "overview" \in current
    /\ main \in {"storageStatus", "preview", "digest", "health", "weekly", "digestStatus",
                 "healthStatus"} => "catalog" \in current
    /\ main \in {"preview", "digest", "health", "weekly", "digestStatus", "healthStatus"} =>
         "storage" \in current
    /\ main \in {"digest", "health", "weekly", "digestStatus", "healthStatus"} =>
         "preview" \in current
    /\ main \in {"leave", "waiting"} /\ CatalogMode => Summaries \subseteq current

Books == Typed /\ LockHeld /\ EntityBooks /\ SummariesAreLast /\ HealthBooks /\ PublishedBooks

LEMMA BooksInit == Init => Books
BY TypedInit, LockInit, NothingTyped
DEF Init, Books, EntityBooks, SummariesAreLast, HealthBooks, PublishedBooks, InCycle

\* Outside a cycle and before the next nothing is promised.
LEMMA BooksApart ==
  ASSUME main \in {"down", "acquire"}
  PROVE  EntityBooks /\ SummariesAreLast /\ HealthBooks /\ PublishedBooks
BY DEF EntityBooks, SummariesAreLast, HealthBooks, PublishedBooks, InCycle

LEMMA BooksApartNext ==
  ASSUME main' \in {"down", "acquire"}
  PROVE  EntityBooks' /\ SummariesAreLast' /\ HealthBooks' /\ PublishedBooks'
BY DEF EntityBooks, SummariesAreLast, HealthBooks, PublishedBooks, InCycle

\* An update of an entity keeps the process, or its cycle goes on with what was
\* found; without a loss the entity is up to date.
LEMMA PublishStep ==
  ASSUME Typed, main # "down", NEW entity, NEW next, NEW otherwise,
         Publish(entity, next, otherwise)
  PROVE  \/ main' = "down"
         \/ /\ main' \in {next, otherwise}
            /\ cycle'.found = cycle.found /\ cycle'.digest = cycle.digest /\ mode' = mode
            /\ current' \in {current, current \cup {entity}}
            /\ cycle'.published => /\ cycle.published /\ main' = next
                                  /\ current' = current \cup {entity}
                                  /\ cycle'.toPublish = cycle.toPublish \ {entity}
            /\ main' # otherwise => /\ main' = next /\ current' = current \cup {entity}
                                   /\ cycle'.toPublish = cycle.toPublish \ {entity}
<1>1. CASE End(1, "publication")
  BY <1>1 DEF End
<1>2. CASE /\ current' = current \cup {entity} /\ main' = next
           /\ cycle' = [cycle EXCEPT !.toPublish = @ \ {entity}] /\ Running
  <2>1. cycle \in [found : Found, toPublish : SUBSET References, digest : DigestStatus,
                   published : BOOLEAN]
    BY DEF Typed, TypeOK, Cycle
  <2>2. /\ cycle'.found = cycle.found /\ cycle'.digest = cycle.digest
        /\ cycle'.published = cycle.published
        /\ cycle'.toPublish = cycle.toPublish \ {entity}
    BY <1>2, <2>1
  <2> QED BY <1>2, <2>2 DEF Running
<1>3. CASE /\ current' \in {current, current \cup {entity}} /\ main' = otherwise
           /\ cycle' = [cycle EXCEPT !.toPublish = {}, !.published = FALSE] /\ Running
  <2>1. cycle \in [found : Found, toPublish : SUBSET References, digest : DigestStatus,
                   published : BOOLEAN]
    BY DEF Typed, TypeOK, Cycle
  <2>2. /\ cycle'.found = cycle.found /\ cycle'.digest = cycle.digest
        /\ cycle'.published = FALSE
    BY <1>3, <2>1
  <2> QED BY <1>3, <2>2 DEF Running
<1> QED BY <1>1, <1>2, <1>3 DEF Publish

LEMMA BooksNext ==
  ASSUME Books, [Next]_vars
  PROVE  Books'
<1>1. Typed' /\ LockHeld'
  BY TypedNext, LockNext DEF Books
<1>2. SUFFICES EntityBooks' /\ SummariesAreLast' /\ HealthBooks' /\ PublishedBooks'
  BY <1>1 DEF Books
<1> USE DEF Books
<1>3. CASE main' \in {"down", "acquire"}
  BY <1>3, BooksApartNext
<1>4. CASE main' \notin {"down", "acquire"} /\ (Start \/ Stop \/ Wait \/ Complete \/ Warn)
  BY <1>4 DEF Start, Stop, Wait, Complete, Warn, End
<1>5. CASE Raise /\ main' = "warning"
  <2>1. main \in InCycle \ {"leave"}
    BY <1>5 DEF Raise, Raised, InCycle
  <2>2. UNCHANGED <<mode, cycle, current, kind>>
    BY <1>5 DEF Raise, Running, End, entities
  <2> QED BY <1>5, <2>1, <2>2
      DEF EntityBooks, SummariesAreLast, HealthBooks, PublishedBooks, ProductsOf, InCycle
<1>6. CASE BeginCycle
  BY <1>6, NothingTyped
  DEF BeginCycle, EntityBooks, SummariesAreLast, HealthBooks, PublishedBooks, ProductsOf, InCycle
<1>7. CASE Monitor
  <2>1. PICK found \in Found :
          cycle' = [cycle EXCEPT !.found = found, !.toPublish = ProductsOf(found)]
    BY <1>7 DEF Monitor
  <2>2. cycle'.found = found /\ cycle'.toPublish = ProductsOf(found)
    BY <2>1 DEF Typed, TypeOK, Cycle
  <2>3. main' = "products" /\ current' = {}
    BY <1>7 DEF Monitor, entities, EntityBooks
  <2> QED BY <2>2, <2>3
      DEF EntityBooks, SummariesAreLast, HealthBooks, PublishedBooks, ProductsOf, InCycle
<1>8. CASE main' # "down" /\ PublishProduct
  <2>1. PICK r \in cycle.toPublish : Publish(r, "products", AfterStatus)
    BY <1>8 DEF PublishProduct
  <2>2. r \in References /\ r \notin Summaries /\ main = "products" /\ kind' = kind
    BY <1>8, <2>1, EntityAssumption DEF PublishProduct, Typed, TypeOK, Cycle
  <2>3. "status" \notin current' /\ "catalog" \notin current' /\ "health" \notin current'
    BY <1>8, <2>1, <2>2, PublishStep DEF EntityBooks, Summaries
  <2>4. CASE main' = "products"
    BY <1>8, <2>1, <2>2, <2>3, <2>4, PublishStep
    DEF EntityBooks, SummariesAreLast, HealthBooks, PublishedBooks, ProductsOf, InCycle,
        AfterStatus
  <2>5. CASE main' = AfterStatus
    BY <1>8, <2>1, <2>2, <2>3, <2>5, PublishStep
    DEF EntityBooks, SummariesAreLast, HealthBooks, PublishedBooks, ProductsOf, InCycle,
        AfterStatus
  <2> QED BY <1>8, <2>1, <2>2, <2>4, <2>5, PublishStep
<1>9. CASE main' # "down" /\ PublishStatus
  <2>1. Publish("status", AfterStatus, AfterStatus) /\ main = "products" /\ kind' = kind
        /\ cycle.toPublish = {}
    BY <1>9 DEF PublishStatus
  <2>2. ProductsOf(cycle.found) \subseteq current /\ current \cap Summaries = {}
    BY <2>1 DEF EntityBooks
  <2>3. main' = AfterStatus /\ ProductsOf(cycle'.found) \subseteq current'
        /\ "catalog" \notin current' /\ "health" \notin current' /\ mode' = mode
        /\ (cycle'.published => "status" \in current')
    BY <1>9, <2>1, <2>2, PublishStep DEF Summaries, ProductsOf
  <2> QED BY <2>3
      DEF EntityBooks, SummariesAreLast, HealthBooks, PublishedBooks, InCycle, AfterStatus,
          CatalogMode
<1>10. CASE main' # "down" /\ PublishOverview
  BY <1>10, PublishStep
  DEF PublishOverview, EntityBooks, SummariesAreLast, HealthBooks, PublishedBooks, ProductsOf,
      InCycle
<1>11. CASE main' # "down" /\ PublishCatalogStatus
  BY <1>11, PublishStep
  DEF PublishCatalogStatus, EntityBooks, SummariesAreLast, HealthBooks, PublishedBooks,
      ProductsOf, InCycle
<1>12. CASE main' # "down" /\ PublishStorageStatus
  BY <1>12, PublishStep
  DEF PublishStorageStatus, EntityBooks, SummariesAreLast, HealthBooks, PublishedBooks,
      ProductsOf, InCycle
<1>13. CASE main' # "down" /\ PublishPreview
  BY <1>13, PublishStep
  DEF PublishPreview, EntityBooks, SummariesAreLast, HealthBooks, PublishedBooks, ProductsOf,
      InCycle
<1>14. CASE RunDigest \/ RecordHealth \/ RunWeekly
  <2>1. cycle'.found = cycle.found /\ (cycle'.published => cycle.published)
    BY <1>14 DEF RunDigest, RecordHealth, RunWeekly, Notify, Typed, TypeOK, Cycle
  <2>2. \/ main = "digest" /\ main' = "health"
        \/ main = "health" /\ main' = "weekly"
        \/ main = "weekly" /\ main' = "digestStatus"
    BY <1>14 DEF RunDigest, RecordHealth, RunWeekly, Notify
  <2>3. current' = current
    BY <1>14 DEF RunDigest, RecordHealth, RunWeekly, Notify, entities
  <2> QED BY <2>1, <2>2, <2>3
      DEF EntityBooks, SummariesAreLast, HealthBooks, PublishedBooks, ProductsOf, InCycle
<1>15. CASE main' # "down" /\ PublishDigestStatus
  BY <1>15, PublishStep
  DEF PublishDigestStatus, EntityBooks, SummariesAreLast, HealthBooks, PublishedBooks,
      ProductsOf, InCycle, Summaries
<1>16. CASE main' # "down" /\ PublishHealthStatus
  <2>1. Publish("health", "leave", "leave") /\ main = "healthStatus"
    BY <1>16 DEF PublishHealthStatus
  <2>2. "health" \in current' => kind' = FailureKind(cycle'.found, cycle'.digest)
    BY <1>16, <2>1, PublishStep DEF PublishHealthStatus
  <2>3. cycle'.published => Summaries \subseteq current'
    BY <1>16, <2>1, PublishStep DEF PublishedBooks, EntityBooks, Summaries
  <2> QED BY <1>16, <2>1, <2>2, <2>3, PublishStep
      DEF EntityBooks, SummariesAreLast, HealthBooks, PublishedBooks, ProductsOf, InCycle
<1>17. CASE LeaveCycle
  BY <1>17
  DEF LeaveCycle, entities, EntityBooks, SummariesAreLast, HealthBooks, PublishedBooks,
      ProductsOf, InCycle, CatalogMode
<1>18. CASE Commanding
  <2>1. main' = main /\ mode' = mode /\ cycle' = cycle /\ kind' = kind
    BY <1>18 DEF Commanding, BeginCommand, Retain, FinishCommand, RefreshPreview, Listening
  <2>2. CASE current' = current
    BY <2>1, <2>2
    DEF EntityBooks, SummariesAreLast, HealthBooks, PublishedBooks, ProductsOf, InCycle,
        CatalogMode
  <2>3. CASE listener = "previewing" /\ current' = current \cup {"preview"}
    <3>1. main \notin InCycle
      BY <2>3, LockedApart DEF NoHalfCycle
    <3> QED BY <2>1, <2>3, <3>1
        DEF EntityBooks, SummariesAreLast, HealthBooks, PublishedBooks, ProductsOf, InCycle,
            CatalogMode
  <2> QED BY <1>18, <2>2, <2>3
      DEF Commanding, BeginCommand, Retain, FinishCommand, RefreshPreview
<1>19. CASE UNCHANGED vars
  BY <1>19
  DEF vars, threads, entities, EntityBooks, SummariesAreLast, HealthBooks, PublishedBooks,
      ProductsOf, InCycle, CatalogMode
<1>20. Raise => main' \in {"warning", "down"}
  BY DEF Raise, End
<1> QED BY <1>3, <1>4, <1>5, <1>6, <1>7, <1>8, <1>9, <1>10, <1>11, <1>12, <1>13, <1>14, <1>15,
           <1>16, <1>17, <1>18, <1>19, <1>20 DEF Next, Cycling

\* What _operational_failure_kind answers, for any number of references.
LEMMA KindTells ==
  ASSUME NEW found \in Found, NEW digest \in DigestStatus
  PROVE  LET answer == FailureKind(found, digest)
         IN  /\ answer = "none" <=> /\ ~found.catalogError /\ ErrorsOf(found) = {}
                                   /\ digest \in {"quiet", "sent"}
             /\ answer \in Total => ProductsOf(found) = {} /\ ErrorsOf(found) # {}
             /\ found.catalogError => answer = "catalog_unavailable"
<1> DEFINE failing == ErrorsOf(found)
           total == /\ failing # {} /\ ProductsOf(found) = {}
                    /\ Cardinality(failing) = Cardinality(DOMAIN found.of)
<1>1. found.catalogError \in BOOLEAN
  BY DEF Found
<1>2. CASE found.catalogError
  <2>1. FailureKind(found, digest) = "catalog_unavailable"
    BY <1>2 DEF FailureKind
  <2> QED BY <1>2, <2>1 DEF Total
<1>3. CASE ~found.catalogError /\ total
  BY <1>3 DEF FailureKind, Total
<1>4. CASE ~found.catalogError /\ ~total
  BY <1>4 DEF FailureKind, Total, DigestStatus
<1> QED BY <1>1, <1>2, <1>3, <1>4

LEMMA BooksTell == Books => SummariesAreLast /\ EntitiesAgree /\ HealthTellsFailures
<1> SUFFICES ASSUME Books PROVE SummariesAreLast /\ EntitiesAgree /\ HealthTellsFailures
  OBVIOUS
<1>1. EntitiesAgree
  BY DEF Books, PublishedBooks, EntitiesAgree
<1>2. HealthTellsFailures
  <2>1. cycle.found \in Found /\ cycle.digest \in DigestStatus
    BY DEF Books, Typed, TypeOK, Cycle
  <2>2. SUFFICES ASSUME main \in InCycle \cup {"waiting"}, "health" \in current
                 PROVE  kind = FailureKind(cycle.found, cycle.digest)
    BY <2>1, KindTells DEF HealthTellsFailures
  <2> QED BY <2>2 DEF Books, EntityBooks, HealthBooks, InCycle
<1> QED BY <1>1, <1>2 DEF Books

\* Whatever was lost, no entity is ahead of those it summarises (publish_cycle and
\* the publishers' publish methods).
THEOREM SummariesFollow == Spec => []SummariesAreLast
BY BooksInit, BooksNext, BooksTell, PTL DEF Spec

\* A cycle that says it published everything did, for any set of references
\* (status_published).
THEOREM PublishedCyclesAgree == Spec => []EntitiesAgree
BY BooksInit, BooksNext, BooksTell, PTL DEF Spec

\* The published cause of a failure is what happened, whatever was found
\* (_operational_failure_kind).
THEOREM HealthTells == Spec => []HealthTellsFailures
BY BooksInit, BooksNext, BooksTell, PTL DEF Spec

-------------------------------------------------------------------------------
(* What the exit status tells.                                             *)

Erred(c) == c.found.catalogError \/ ErrorsOf(c.found) # {} \/ ~c.published

\* What has failed is counted, is known to the running cycle, or is on its way
\* out of the process.
FailureBooks ==
  /\ main = "down" => errors = FALSE
  /\ main \in {"acquire", "waiting"} => (failed <=> errors)
  /\ main \in InCycle \ {"warning"} => (failed <=> errors \/ Erred(cycle))
  /\ main = "monitor" => ~Erred(cycle)
  /\ main = "warning" => failed
  /\ ExitTellsFailures

Accounts == Typed /\ FailureBooks

LEMMA AccountsInit == Init => Accounts
BY TypedInit DEF Init, Accounts, FailureBooks, ExitTellsFailures, InCycle

LEMMA EndAccounted ==
  ASSUME NEW why \in {"error", "publication"}, End(1, why), failed' = TRUE
  PROVE  FailureBooks'
BY DEF End, FailureBooks, ExitTellsFailures, InCycle

\* Parts of a record of what a cycle knows.
LEMMA ErredTyped == Typed => Erred(cycle) \in BOOLEAN /\ cycle.published \in BOOLEAN
                             /\ failed \in BOOLEAN /\ errors \in BOOLEAN
BY DEF Typed, TypeOK, Cycle, Found, Erred

LEMMA PublishAccounted ==
  ASSUME Accounts, NEW entity, main \in InCycle \ {"warning"},
         NEW next \in InCycle \ {"monitor", "warning"},
         NEW otherwise \in InCycle \ {"monitor", "warning"},
         Publish(entity, next, otherwise)
  PROVE  FailureBooks'
<1>1. CASE End(1, "publication") /\ failed' = TRUE
  BY <1>1, EndAccounted
<1>2. CASE /\ main' = next /\ cycle' = [cycle EXCEPT !.toPublish = @ \ {entity}]
           /\ Running /\ UNCHANGED failed
  <2>1. cycle'.found = cycle.found /\ cycle'.published = cycle.published
    BY <1>2 DEF Accounts, Typed, TypeOK, Cycle
  <2>2. Erred(cycle)' = Erred(cycle)
    BY <2>1 DEF Erred, ErrorsOf, ProductsOf
  <2> QED BY <1>2, <2>2 DEF Running, Accounts, FailureBooks, ExitTellsFailures, InCycle
<1>3. CASE /\ main' = otherwise /\ cycle' = [cycle EXCEPT !.toPublish = {}, !.published = FALSE]
           /\ Running /\ failed' = TRUE
  <2>1. cycle'.published = FALSE
    BY <1>3 DEF Accounts, Typed, TypeOK, Cycle
  <2>2. Erred(cycle)'
    BY <2>1 DEF Erred
  <2> QED BY <1>3, <2>2 DEF Running, FailureBooks, ExitTellsFailures, InCycle
<1> QED BY <1>1, <1>2, <1>3 DEF Publish

LEMMA AccountsNext ==
  ASSUME Accounts, [Next]_vars
  PROVE  Accounts'
<1>1. SUFFICES FailureBooks'
  BY TypedNext DEF Accounts
<1> USE DEF Accounts
<1>2. CASE Start
  <2>1. CASE \E status \in {1, 2} : End(status, "start")
    BY <2>1 DEF End, FailureBooks, ExitTellsFailures, InCycle
  <2>2. CASE main' = "acquire" /\ UNCHANGED errors
    BY <1>2, <2>2 DEF Start, FailureBooks, ExitTellsFailures, InCycle
  <2> QED BY <1>2, <2>1, <2>2 DEF Start
<1>3. CASE Stop
  BY <1>3 DEF Stop, End, FailureBooks, ExitTellsFailures, InCycle
<1>4. CASE Wait
  BY <1>4 DEF Wait, ghosts, FailureBooks, ExitTellsFailures, InCycle
<1>5. CASE Complete
  BY <1>5 DEF Complete, End, FailureBooks, ExitTellsFailures, InCycle, Typed, TypeOK
<1>6. CASE Raise
  <2>1. CASE main' = "warning" /\ failed' = TRUE
    BY <2>1 DEF FailureBooks, ExitTellsFailures, InCycle
  <2> QED BY <1>6, <2>1, EndAccounted DEF Raise
<1>7. CASE Warn
  BY <1>7, EndAccounted DEF Warn, FailureBooks, Typed, TypeOK
<1>8. CASE BeginCycle
  BY <1>8, NothingTyped
  DEF BeginCycle, ghosts, FailureBooks, ExitTellsFailures, Erred, Nothing, InCycle
<1>9. CASE Monitor
  <2>1. PICK found \in Found :
          /\ cycle' = [cycle EXCEPT !.found = found, !.toPublish = ProductsOf(found)]
          /\ failed' = (failed \/ found.catalogError \/ ErrorsOf(found) # {})
    BY <1>9 DEF Monitor
  <2>2. cycle'.found = found /\ cycle'.published = cycle.published
    BY <2>1 DEF Typed, TypeOK, Cycle
  <2>3. ~errors => ~failed
    BY <1>9 DEF Monitor, FailureBooks, InCycle
  <2>4. errors => failed
    BY <1>9 DEF Monitor, FailureBooks, InCycle
  <2>5. cycle.published /\ main' = "products" /\ errors' = errors
    BY <1>9 DEF Monitor, FailureBooks, Erred
  <2>6. Erred(cycle)' <=> found.catalogError \/ ErrorsOf(found) # {}
    BY <2>2, <2>5 DEF Erred, ErrorsOf, ProductsOf
  <2>7. failed' <=> errors' \/ Erred(cycle)'
    BY <2>1, <2>3, <2>4, <2>5, <2>6, ErredTyped
  <2> QED BY <2>5, <2>7 DEF FailureBooks, ExitTellsFailures, InCycle
<1>10. CASE PublishProduct \/ PublishStatus
  BY <1>10, PublishAccounted DEF PublishProduct, PublishStatus, AfterStatus, InCycle
<1>11. CASE PublishOverview \/ PublishCatalogStatus \/ PublishStorageStatus \/ PublishPreview
  BY <1>11, PublishAccounted
  DEF PublishOverview, PublishCatalogStatus, PublishStorageStatus, PublishPreview, InCycle
<1>12. CASE PublishDigestStatus \/ PublishHealthStatus
  BY <1>12, PublishAccounted DEF PublishDigestStatus, PublishHealthStatus, InCycle
<1>13. CASE RunDigest \/ RecordHealth \/ RunWeekly
  <2>1. /\ main \in {"digest", "health", "weekly"}
        /\ main' \in {"health", "weekly", "digestStatus"} /\ errors' = errors
    BY <1>13 DEF RunDigest, RecordHealth, RunWeekly, Notify
  <2>2. cycle'.found = cycle.found
    BY <1>13 DEF RunDigest, RecordHealth, RunWeekly, Notify, Typed, TypeOK, Cycle
  <2>3. \/ cycle'.published = cycle.published /\ failed' = failed
        \/ cycle'.published = FALSE /\ failed' = TRUE
    BY <1>13 DEF RunDigest, RecordHealth, RunWeekly, Notify, ghosts, Typed, TypeOK, Cycle
  <2> QED BY <2>1, <2>2, <2>3
      DEF FailureBooks, ExitTellsFailures, Erred, ErrorsOf, ProductsOf, InCycle
<1>14. CASE LeaveCycle
  BY <1>14 DEF LeaveCycle, ghosts, FailureBooks, ExitTellsFailures, Erred, InCycle
<1>15. CASE Commanding
  BY <1>15
  DEF Commanding, BeginCommand, Retain, FinishCommand, RefreshPreview, Listening, ghosts,
      FailureBooks, ExitTellsFailures, Erred, ErrorsOf, ProductsOf
<1>16. CASE UNCHANGED vars
  BY <1>16
  DEF vars, threads, ghosts, FailureBooks, ExitTellsFailures, Erred, ErrorsOf, ProductsOf
<1> QED BY <1>2, <1>3, <1>4, <1>5, <1>6, <1>7, <1>8, <1>9, <1>10, <1>11, <1>12, <1>13, <1>14,
           <1>15, <1>16 DEF Next, Cycling

\* A process that ends by itself reports success if and only if nothing it
\* counts went wrong, however many cycles it ran (run, exit codes).
THEOREM ExitsTell == Spec => []ExitTellsFailures
<1>1. Accounts => ExitTellsFailures
  BY DEF Accounts, FailureBooks
<1> QED BY <1>1, AccountsInit, AccountsNext, PTL DEF Spec

===============================================================================
