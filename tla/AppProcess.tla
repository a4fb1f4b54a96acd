------------------------------- MODULE AppProcess -------------------------------
(***************************************************************************)
(* The process of the Home Assistant App.  Its main thread runs cycles: it *)
(* monitors, publishes what it found entity by entity, sends the digest,   *)
(* records its health and reports it.  The listener thread carries out one *)
(* command at a time.  One lock keeps a cycle and a command apart.  Any    *)
(* store may fail, any answer of Home Assistant may be lost or malformed,  *)
(* and the Supervisor may stop the process anywhere and start it again.    *)
(***************************************************************************)
EXTENDS Integers, FiniteSets

CONSTANTS
  References,         \* the products of the catalog or of the configured URLs
  DiscoveryInterval,  \* option discovery_interval_cycles
  MaxCycles           \* parameter max_cycles, 0 for None as under the Supervisor

ASSUME OptionAssumption ==
  DiscoveryInterval \in Nat \ {0} /\ MaxCycles \in Nat
ASSUME ReferenceAssumption == IsFiniteSet(References)

Results == {"product", "transport", "data", "other"}

\* What the monitoring part of a cycle found, reference by reference.
Found == [catalogError : BOOLEAN,
          of : UNION {[selected -> Results] : selected \in SUBSET References}]

DigestStatus == {"quiet", "promotion_unavailable", "sent", "sent_unverified"}
Total == {"provider_data_incompatible", "provider_unavailable", "provider_failure"}
Kinds == Total \cup {"none", "catalog_unavailable", "partial_provider_failure",
                     "promotion_unavailable"}

VARIABLES
  mode,       \* option source_mode of this process; preview, digest, summary are on
  main,       \* the next step of the main thread
  listener,   \* the next step of the listener thread
  lock,       \* operation_lock
  cycle,      \* what the running or last cycle knows
  completed,  \* cycles of this process; modulo DiscoveryInterval without an end
  errors,     \* one of the three error cycle counters is not zero
  exit,       \* status of the last process, or -1
  current,    \* entities of Home Assistant that show the running or last cycle
  healthy,    \* state of the storage entity: ok, or warning
  kind,       \* failure_kind of the health entity
  (* History variables, read by no action. *)
  cause,      \* why the last process ended
  failed,     \* an error has happened that this process counts, or that ended it
  broken      \* a store failed, Home Assistant was reachable, no store was read since

threads == <<main, listener, lock>>
entities == <<current, healthy, kind>>
ghosts == <<cause, failed, broken>>
vars == <<mode, threads, cycle, completed, errors, exit, entities, ghosts>>

InCycle == {"monitor", "products", "overview", "catalogStatus", "storageStatus",
            "preview", "digest", "health", "weekly", "digestStatus",
            "healthStatus", "warning", "leave"}

\* "overview" stands for the three entities discounted, errors, last_checked.
Summaries == {"status", "overview", "catalog", "storage", "preview", "digest", "health"}

Cycle == [found : Found, toPublish : SUBSET References, digest : DigestStatus,
          published : BOOLEAN]

CatalogMode == mode = "catalog"

Counted == IF MaxCycles = 0 THEN 0..(DiscoveryInterval - 1) ELSE 0..MaxCycles

ASSUME EntityAssumption == References \cap Summaries = {}

TypeOK ==
  /\ mode \in {"none", "catalog", "explicit"}
  /\ main \in {"down", "acquire", "waiting"} \cup InCycle
  /\ listener \in {"reading", "retaining", "exporting", "previewing", "dead"}
  /\ lock \in {"free", "main", "listener"}
  /\ cycle \in Cycle
  /\ completed \in Counted
  /\ errors \in BOOLEAN
  /\ exit \in {-1, 0, 1, 2, 130}
  /\ current \subseteq References \cup Summaries /\ healthy \in BOOLEAN /\ kind \in Kinds
  /\ cause \in {"none", "start", "stop", "complete", "error", "publication"}
  /\ failed \in BOOLEAN /\ broken \in BOOLEAN

Nothing == [found |-> [catalogError |-> FALSE, of |-> [r \in {} |-> "other"]],
            toPublish |-> {}, digest |-> "quiet", published |-> TRUE]

Init ==
  /\ mode = "none" /\ main = "down" /\ listener = "reading" /\ lock = "free"
  /\ cycle = Nothing /\ completed = 0 /\ errors = FALSE /\ exit = -1
  /\ current = {} /\ healthy = TRUE /\ kind = "none"
  /\ cause = "none" /\ failed = FALSE /\ broken = FALSE

-------------------------------------------------------------------------------
(* The process.                                                            *)

\* The daemon thread of the listener ends with the process; its memory is lost.
End(status, why) ==
  /\ mode' = "none" /\ main' = "down" /\ exit' = status /\ cause' = why
  /\ lock' = "free" /\ listener' = "reading"
  /\ cycle' = Nothing /\ completed' = 0 /\ errors' = FALSE

Running == UNCHANGED <<mode, exit, cause, lock, listener, completed, errors>>

\* The options are read anew by every process; an error in them ends the process
\* with 2, a failed import with 1.
Start ==
  /\ main = "down"
  /\ failed' = FALSE
  /\ \/ /\ main' = "acquire" /\ exit' = -1 /\ cause' = "none"
        /\ mode' \in {"catalog", "explicit"}
        /\ UNCHANGED <<lock, listener, cycle, completed, errors>>
     \/ \E status \in {1, 2} : End(status, "start")
  /\ UNCHANGED <<entities, broken>>

\* SIGTERM ends the main thread wherever it is with 0, the keyboard with 130.
Stop ==
  /\ main # "down"
  /\ \E status \in {0, 130} : End(status, "stop")
  /\ UNCHANGED <<entities, failed, broken>>

\* IntervalScheduler: wait for the interval, then run the next cycle.
Wait ==
  /\ main = "waiting"
  /\ MaxCycles = 0 \/ completed < MaxCycles
  /\ main' = "acquire"
  /\ UNCHANGED <<mode, listener, lock, cycle, completed, errors, exit, entities, ghosts>>

\* The run was limited and is over.
Complete ==
  /\ main = "waiting"
  /\ MaxCycles > 0 /\ completed = MaxCycles
  /\ End(IF errors THEN 1 ELSE 0, "complete")
  /\ UNCHANGED <<entities, failed, broken>>

\* The errors that a catalog cycle answers with a storage warning.
StorageErrors == {"catalog_store", "state_store", "operational_state",
                  "notification_reservation", "digest_reservation"}

\* What each step raises: the error classes of the stores it uses, "other" for
\* every error that is not one of a store.
Raised ==
  [monitor |-> IF CatalogMode
               THEN {"catalog_store", "state_store", "notification_reservation", "other"}
               ELSE {"state_store", "other"},
   overview |-> {"catalog_store", "state_store"},
   storageStatus |-> {"state_store"},
   preview |-> {"state_store"},
   digest |-> {"digest_reservation", "state_store", "other"},
   health |-> {"operational_state", "other"},
   weekly |-> {"operational_state", "other"}]

\* Mutation of Raise: the state of the health is not one of the stores.
RaiseHealthUnwarned ==
  /\ main \in DOMAIN Raised
  /\ failed' = TRUE
  /\ \E error \in Raised[main] :
       IF CatalogMode /\ error \in StorageErrors \ {"operational_state"}
       THEN main' = "warning" /\ Running /\ UNCHANGED <<cycle, broken>>
       ELSE /\ End(1, "error")
            /\ broken' = (broken \/ (CatalogMode /\ error # "other"))
  /\ UNCHANGED entities

\* An error of a step ends the process, in catalog mode after a warning.
Raise ==
  /\ main \in DOMAIN Raised
  /\ failed' = TRUE
  /\ \E error \in Raised[main] :
       IF CatalogMode /\ error \in StorageErrors
       THEN main' = "warning" /\ Running /\ UNCHANGED <<cycle, broken>>
       ELSE /\ End(1, "error")
            /\ broken' = (broken \/ (CatalogMode /\ error # "other"))
  /\ UNCHANGED entities

\* publish_storage_warning: best effort, then the error is raised again.
Warn ==
  /\ main = "warning"
  /\ \/ healthy' = FALSE /\ broken' = TRUE
     \/ healthy' \in {healthy, FALSE} /\ UNCHANGED broken
  /\ End(1, "error")
  /\ UNCHANGED <<current, kind, failed>>

-------------------------------------------------------------------------------
(* A cycle.                                                                *)

BeginCycle ==
  /\ main = "acquire" /\ lock = "free"
  /\ main' = "monitor" /\ lock' = "main"
  /\ cycle' = Nothing /\ current' = {}
  /\ UNCHANGED <<mode, listener, completed, errors, exit, healthy, kind, ghosts>>

ProductsOf(found) == {r \in DOMAIN found.of : found.of[r] = "product"}
ErrorsOf(found) == DOMAIN found.of \ ProductsOf(found)

\* The workflow returns; discovery fails only in a cycle that discovers.
Monitor ==
  /\ main = "monitor"
  /\ \E found \in Found :
       /\ found.catalogError => CatalogMode /\ completed % DiscoveryInterval = 0
       /\ ~CatalogMode => DOMAIN found.of = References
       /\ cycle' = [cycle EXCEPT !.found = found, !.toPublish = ProductsOf(found)]
       /\ failed' = (failed \/ found.catalogError \/ ErrorsOf(found) # {})
  /\ main' = "products"
  /\ UNCHANGED <<mode, listener, lock, completed, errors, exit, entities,
                 cause, broken>>

\* An update of an entity: accepted; failed, whether or not it arrived; or
\* answered so badly that the client does not recognise the failure, which no
\* step of the cycle expects.
Publish(entity, next, otherwise) ==
  \/ /\ current' = current \cup {entity} /\ main' = next
     /\ cycle' = [cycle EXCEPT !.toPublish = @ \ {entity}]
     /\ Running /\ UNCHANGED failed
  \/ /\ current' \in {current, current \cup {entity}} /\ main' = otherwise
     /\ cycle' = [cycle EXCEPT !.toPublish = {}, !.published = FALSE]
     /\ failed' = TRUE /\ Running
  \/ /\ current' \in {current, current \cup {entity}} /\ failed' = TRUE
     /\ End(1, "publication")

AfterStatus == IF CatalogMode THEN "overview" ELSE "leave"

\* publish_cycle: the products of the cycle, then the status.
PublishProduct ==
  /\ main = "products"
  /\ \E r \in cycle.toPublish : Publish(r, "products", AfterStatus)
  /\ UNCHANGED <<healthy, kind, broken>>

\* Mutation of PublishStatus: the status may be published before the products.
PublishStatusEarly ==
  /\ main = "products"
  /\ Publish("status", AfterStatus, AfterStatus)
  /\ UNCHANGED <<healthy, kind, broken>>

PublishStatus ==
  /\ main = "products" /\ cycle.toPublish = {}
  /\ Publish("status", AfterStatus, AfterStatus)
  /\ UNCHANGED <<healthy, kind, broken>>

\* The catalog and its snapshots were read; the overview precedes the catalog.
PublishOverview ==
  /\ main = "overview"
  /\ Publish("overview", "catalogStatus", "storageStatus")
  /\ UNCHANGED <<healthy, kind, broken>>

PublishCatalogStatus ==
  /\ main = "catalogStatus"
  /\ Publish("catalog", "storageStatus", "storageStatus")
  /\ UNCHANGED <<healthy, kind, broken>>

\* The statistics were read, so the store is healthy, and Home Assistant is told.
PublishStorageStatus ==
  /\ main = "storageStatus"
  /\ Publish("storage", "preview", "preview")
  /\ healthy' = (healthy \/ "storage" \in current')
  /\ broken' = FALSE
  /\ UNCHANGED kind

PublishPreview ==
  /\ main = "preview"
  /\ Publish("preview", "digest", "digest")
  /\ UNCHANGED <<healthy, kind, broken>>

\* The digest is sent or not.  The errors of its recheck and of its promotion show
\* in its status, and none of the counters sees them.
RunDigest ==
  /\ main = "digest"
  /\ \E status \in DigestStatus : cycle' = [cycle EXCEPT !.digest = status]
  /\ main' = "health"
  /\ UNCHANGED <<mode, listener, lock, completed, errors, exit, entities, ghosts>>

\* Mutation of FailureKind: what failed is told by the errors alone.
FailureKindOfErrors(found, digest) ==
  LET failing == ErrorsOf(found)
      All(result) == \A r \in failing : found.of[r] = result
  IN  IF found.catalogError THEN "catalog_unavailable"
      ELSE IF failing # {} /\ All("data") THEN "provider_data_incompatible"
      ELSE IF failing # {} /\ All("transport") THEN "provider_unavailable"
      ELSE IF failing # {} \/ digest = "sent_unverified" THEN "partial_provider_failure"
      ELSE IF digest = "promotion_unavailable" THEN "promotion_unavailable"
      ELSE "none"

\* _operational_failure_kind: the first cause that applies.
FailureKind(found, digest) ==
  LET failing == ErrorsOf(found)
      total == /\ failing # {} /\ ProductsOf(found) = {}
               /\ Cardinality(failing) = Cardinality(DOMAIN found.of)
      All(result) == \A r \in failing : found.of[r] = result
  IN  IF found.catalogError THEN "catalog_unavailable"
      ELSE IF total THEN IF All("data") THEN "provider_data_incompatible"
                         ELSE IF All("transport") THEN "provider_unavailable"
                         ELSE "provider_failure"
      ELSE IF failing # {} \/ digest = "sent_unverified" THEN "partial_provider_failure"
      ELSE IF digest = "promotion_unavailable" THEN "promotion_unavailable"
      ELSE "none"

\* A message about the health or about the last week may be refused.
Notify(next) ==
  /\ main' = next
  /\ \/ UNCHANGED <<cycle, failed>>
     \/ cycle' = [cycle EXCEPT !.published = FALSE] /\ failed' = TRUE
  /\ UNCHANGED <<mode, listener, lock, completed, errors, exit, entities, cause, broken>>

\* The check and, with it, the delivery of this cycle's digest are recorded, and
\* a change of the health is announced.
RecordHealth ==
  /\ main = "health"
  /\ Notify("weekly")

RunWeekly ==
  /\ main = "weekly"
  /\ Notify("digestStatus")

PublishDigestStatus ==
  /\ main = "digestStatus"
  /\ Publish("digest", "healthStatus", "leave")
  /\ UNCHANGED <<healthy, kind, broken>>

\* Mutation of PublishHealthStatus: its failure does not count.
PublishHealthStatusQuietly ==
  /\ main = "healthStatus"
  /\ current' \in {current, current \cup {"health"}}
  /\ kind' = IF "health" \in current' THEN FailureKind(cycle.found, cycle.digest) ELSE kind
  /\ main' = "leave"
  /\ UNCHANGED <<mode, listener, lock, cycle, completed, errors, exit, healthy, ghosts>>

PublishHealthStatus ==
  /\ main = "healthStatus"
  /\ Publish("health", "leave", "leave")
  /\ kind' = IF "health" \in current' THEN FailureKind(cycle.found, cycle.digest) ELSE kind
  /\ UNCHANGED <<healthy, broken>>

NextCount == IF MaxCycles = 0 THEN (completed + 1) % DiscoveryInterval ELSE completed + 1

\* Mutation of LeaveCycle: a cycle that published less is not counted.
LeaveCycleUncounted ==
  /\ main = "leave"
  /\ completed' = NextCount
  /\ errors' = (errors \/ ErrorsOf(cycle.found) # {} \/ cycle.found.catalogError)
  /\ main' = "waiting" /\ lock' = "free"
  /\ UNCHANGED <<mode, listener, cycle, exit, entities, ghosts>>

\* The cycle is counted with its errors, and the lock is released.
LeaveCycle ==
  /\ main = "leave"
  /\ completed' = NextCount
  /\ errors' = (errors \/ ErrorsOf(cycle.found) # {} \/ cycle.found.catalogError
                        \/ ~cycle.published)
  /\ main' = "waiting" /\ lock' = "free"
  /\ UNCHANGED <<mode, listener, cycle, exit, entities, ghosts>>

-------------------------------------------------------------------------------
(* The listener.                                                           *)

Listening(next) ==
  /\ listener' = next
  /\ UNCHANGED <<mode, main, cycle, completed, errors, exit, healthy, kind, ghosts>>

\* Mutation of BeginCommand: an export does not wait for the running cycle.
BeginCommandUnlocked ==
  /\ main # "down" /\ listener = "reading"
  /\ \/ lock = "free" /\ lock' = "listener" /\ Listening("retaining")
     \/ /\ lock' = IF lock = "free" THEN "listener" ELSE lock
        /\ Listening("exporting")
  /\ UNCHANGED current

\* A command was read and gets the lock.  Other lines change nothing.
BeginCommand ==
  /\ main # "down" /\ listener = "reading" /\ lock = "free"
  /\ lock' = "listener"
  /\ \E command \in {"retaining", "exporting"} : Listening(command)
  /\ UNCHANGED current

\* A retention that was answered is followed by a new preview.
Retain ==
  /\ listener = "retaining" /\ CatalogMode
  /\ Listening("previewing")
  /\ UNCHANGED <<lock, current>>

\* A retention that failed or is not available, an export and a failed one.
FinishCommand ==
  /\ listener \in {"retaining", "exporting"}
  /\ lock' = "free" /\ Listening("reading")
  /\ UNCHANGED current

\* The preview is refreshed, or not; an answer that the client does not
\* recognise as a failure ends the thread.
RefreshPreview ==
  /\ listener = "previewing"
  /\ current' \in {current, current \cup {"preview"}}
  /\ lock' = "free" /\ \E next \in {"reading", "dead"} : Listening(next)

-------------------------------------------------------------------------------
Cycling ==
  \/ BeginCycle \/ Monitor \/ PublishProduct \/ PublishStatus
  \/ PublishOverview \/ PublishCatalogStatus \/ PublishStorageStatus
  \/ PublishPreview \/ RunDigest \/ RecordHealth \/ RunWeekly
  \/ PublishDigestStatus \/ PublishHealthStatus \/ LeaveCycle

Commanding == BeginCommand \/ Retain \/ FinishCommand \/ RefreshPreview

Next == Start \/ Stop \/ Wait \/ Complete \/ Raise \/ Warn \/ Cycling \/ Commanding

Spec == Init /\ [][Next]_vars

-------------------------------------------------------------------------------
(* Properties.                                                             *)

\* A command never meets a half finished cycle, nor a cycle a command: neither
\* sees the stores or the entities between two steps of the other (operation_lock).
NoHalfCycle ==
  /\ listener \in {"retaining", "exporting", "previewing"} => main \notin InCycle
  /\ (lock = "main") = (main \in InCycle)

\* After a store failed, Home Assistant shows the storage warning until a later
\* cycle has read the store again, whichever store it was (run, the except clause).
StorageWarningStands == broken => ~healthy

\* A limited run that ends by itself reports success if and only if nothing went
\* wrong that it counts: no provider or catalog error of a cycle's monitoring, no
\* failed publication or notification; an error that ends it is always reported.
\* The errors of a digest's recheck or promotion are not counted (run, exit codes).
ExitTellsFailures ==
  main = "down" /\ cause \in {"complete", "error", "publication"} =>
    (exit = 0) = ~failed

\* When a cycle says that it published everything, every entity shows that cycle,
\* or a later preview (status_published).
EntitiesAgree ==
  main = "waiting" /\ cycle.published =>
    {"status"} \cup ProductsOf(cycle.found) \cup (IF CatalogMode THEN Summaries ELSE {})
      \subseteq current

\* Whoever sees the status of a cycle finds the products it counts up to date,
\* whoever sees its catalog finds its overview, and whoever sees its health finds
\* its digest, whatever was lost on the way (publish_cycle and the publishers'
\* publish methods).
SummariesAreLast ==
  main \in InCycle \cup {"waiting"} =>
    /\ "status" \in current => ProductsOf(cycle.found) \subseteq current
    /\ "catalog" \in current => "overview" \in current
    /\ "health" \in current => "digest" \in current

\* The published cause of a failed cycle is what happened: none only if nothing
\* failed, a total failure only if nothing was read (_operational_failure_kind).
HealthTellsFailures ==
  main \in InCycle \cup {"waiting"} /\ "health" \in current =>
    LET found == cycle.found
    IN  /\ kind = "none" <=> /\ ~found.catalogError /\ ErrorsOf(found) = {}
                             /\ cycle.digest \in {"quiet", "sent"}
        /\ kind \in Total => ProductsOf(found) = {} /\ ErrorsOf(found) # {}
        /\ found.catalogError => kind = "catalog_unavailable"

===============================================================================
