# A formal model of price-watch

Price-watch watches the products of a shop, compares each observation with what
it stored before, and tells the user through Home Assistant about price drops,
returns to stock, the day's discounts and its own health.  What it promises is
mostly about *not repeating and not losing messages* while deliveries fail, the
process is killed and restarted, and only an SQLite file survives.  That is what
this project models, checks with TLC and proves with TLAPS.

Paths below are relative to `src/`.

## 1. Inventory

The process of interest is the Home Assistant App
(`applications/homeassistant/main.py`): the scheduler runs one cycle after
another, all of a cycle under one lock, and the Supervisor restarts the process
when it ends.  In a cycle (`main.py:139-161`, `cycle.py`):

    catalog discovery -> batch of references -> synchronization (rules, alerts)
    -> status publications -> retention preview -> daily digest
    -> operational health -> weekly summary -> status of digest and health

A second thread, the command listener, takes maintenance commands from Home
Assistant under the same lock.  SIGTERM raises `_TerminationRequested`
(a `BaseException`, `lifecycle.py:9-29`), so no `except Exception` clean-up runs.
Before the first cycle an archive may be imported and the schema is migrated.

| component | state | operations | what is hard | correct when |
|---|---|---|---|---|
| Synchronization (`applications/synchronization`) | table `observations`, table `notification_reservations` | fetch, enrich, evaluate rules, reserve, send, release, save | a stop between any two steps; a delivery that reports failure; several rules per product | no alert repeated or lost; a price becomes history only after its alert |
| Rules (`core/rules`) | none | price reference, price drop, back in stock, others | thresholds, currencies, missing original price | matches exactly the eligible changes |
| Daily digest (`applications/daily_digest`) | `daily_digest_reservations`, `daily_digest_baselines` | due, reserve, promotion, recheck, stage, send, release | two tables released one after the other; stale snapshots; clock steps | one digest per date; baselines are delivered memberships |
| Operational health (`core/operations/engine.py`, `applications/operational_monitoring/workflow.py`) | one row `operational_state` | check, save, send, acknowledge, suppress | a message between two saves; changing options; clock that steps back | a sustained failure is told once; recoveries only for told failures |
| Weekly summary (`core/operations/weekly.py`, `weekly_workflow.py`) | `weekly_operational_summaries` | record, mark, send, unmark | counters over week boundaries; a stop between health and bucket | buckets equal their definition; one summary per week |
| Retention (`infrastructure/persistence/sqlite/retention*.py`) | `observations`, backup files | plan, backup, delete, preview, confirm | a stale preview; failure between backup and delete | what later cycles read survives |
| Catalog rotation (`applications/catalog_monitoring`, `sqlite/catalog_store.py`) | `product_references` | discover, list oldest, record attempts | a failing alert repeats the batch; clock refusal | no reference is overtaken |
| App process (`applications/homeassistant/main.py`, `cycle.py`, scheduler) | entities in Home Assistant, exit status | cycle, publish, terminate, restart | order of publications; which failure ends the process | entities agree, failures are told |
| Command listener (`command_listener.py`, `maintenance_command.py`) | pending command | receive, apply, answer, refresh the preview | another thread, the lock, termination | removes what was reviewed |
| Migration archive (`infrastructure/persistence/migration`) | state files, marker, archives | export, import | failure half way, repetition | nothing replaced, imports completed |
| Schema migrations (`sqlite/database.py`) | `user_version`, tables, indexes | inspect, create, validate, migrate | a stop between statements, two openers | the version tells the schema |
| JSON store, CLI, configuration, HTTP and HTML providers | - | - | I/O and parsing | - |

How they interact: rotation selects what synchronization fetches; synchronization
writes `observations`, which the digest reads as its candidates and rechecks through a
second synchronization with no rules, and from which retention deletes while neither
runs; the cycle's outcome is the check that operational health records; health before
and after that check is what the weekly bucket counts.  `PROJECT.json` repeats the
component list with the status of each.

## 2. Plan

Modules in the order they were written, the most important behaviour first.

1. `Synchronization`, with `ReservedDelivery` as its abstract promise. **Done, proved.**
2. `DailyDigest`, the same abstract promise over dates. **Done, proved.**
3. `OperationalHealth` and `WeeklySummary`. **Done, proved.**
4. `Retention`: cycles that append, commands that wait with a reviewed count, backup,
   deletion, commit. **Done, proved.**
5. `CatalogRotation`, with `RefreshQueue` as its abstract promise. **Done, proved,
   refinement included.**
6. `AppProcess`: the cycle, the lock, the listener, entities, termination, exit status;
   it takes from 1-5 only what the process can tell apart. **Done, proved.**
7. `SchemaMigrations` and `MigrationArchive`. **Done, proved.**

Left: explicit-URL mode below the level of a cycle, with the JSON store and without
reservations.

## 3. Modules and how they correspond to the code

In every module the durable variables are tables or files, `pc` (or `step`, `main`,
`listener`) says what the process does next, and what is in memory is lost in `Restart`.
One action is the work between two points at which the process can stop: one
transaction, or one call of Home Assistant.  `Interrupt`, `Stop` and `Close` stand for
SIGTERM, a kill, and an error that ends the process, and are possible in every state;
`InterruptedSend` is a stop after Home Assistant took the message and before the call
returned.  History variables are marked as such and read by no action except
in bounds.  Operators whose comment begins with "Mutation of" are used by no action:
they are the plausible bugs listed under "mutants" in `PROJECT.json`, each of which
breaks the property it is listed with.  Each `MC` module extends its module and adds
symmetry or the values a configuration cannot write.  Every component has one proof
module; the two migrations of stored state share `MigrationProofs`, for which the
operators of `MigrationArchive` carry the prefix `MA` (`MASpec`, `MATypeOK`).

### ReservedDelivery
The abstract promise: an identity is claimed, its message is accepted at most once
and only while claimed, and a claim is withdrawn only for a message that was not
accepted.  Alerts, digests and weekly summaries implement it, and what follows from it,
`AcceptedIsClaimed` and `NothingRevoked`, therefore holds of all three.

### Synchronization
`SynchronizationWorkflow.run` (`workflow.py:72-131`) and `_SynchronizationAlerts`
(`_alerts.py:84-162`) of catalog mode.

| action | code |
|---|---|
| `Fetch` | `provider.fetch` and the start of the loop; the fetch result is any sequence of products the provider can build |
| `Load` | next product: load the last snapshot, enrich the original price |
| `Skip` | a rule that does not match |
| `Suppress` | matching price drop whose reservation exists already |
| `Reserve` / `Announce` | `INSERT OR IGNORE` of the reservation / a back-in-stock alert, which has none |
| `SendAccepted`, `SendRejected`, `GenerationFails`, `Release` | `_generate_and_send`: the exception path releases and re-raises, which ends the process |
| `Save` | `state_store.save` after the last rule |
| `Finish` | the fetch result is used up |

`Enrich`, `PriceDropMatches`, `BackInStockMatches` and `AlertOf` are the rule and
identity functions.  Decimals are exact, so the percentage comparison is an integer
multiplication.  `rules` is either the configured tuple or the empty one: digest-only
mode, and the digest's recheck, run the same workflow without rules.

### DailyDigest
`DailyDigestWorkflow.run` (`daily_digest/workflow.py:80-163`), its two stores, the
selection of `DigestFreshnessPolicy`, and `_LidlDigestRefresher`.  A clock tick is a
fraction of a local day; cycles may carry timestamps in any order.  `Preceding` is
the `ORDER BY calendar_date DESC LIMIT 1` of the baseline store.  `Recheck` handles one
product at a time in any order (the code sends batches of 25; what a recheck stores is
the same); a page that turns out to be another product is not modelled.

### OperationalHealth
`state` is the stored `OperationalState`, field by field; `HealthyState`, `FailedState`,
`Acknowledged`, `Suppressed` are the engine's transitions, and `ValidHealth` and
`ValidChronology` what its constructor demands.  `StartCycle` is everything of a
cycle that precedes its check.  A clock behind `last_checked_at` raises a
`ValueError` that nothing handles: `ClockStepsBack` ends the process.  `enabled` is the
option for immediate notifications, which may differ after a restart.

### WeeklySummary
One bucket per week; `Recorded` is `WeeklyOperationalSummaryEngine.record`.  Of the
operational state only the time of the last check and whether it failed are kept,
since the bucket reads no more (`previous_state.status is not ok`).  `SaveHealth` is the
save that precedes the record, so that a stop between the two is a behaviour.  Local
time is ticks of a week; the change to summer time is not modelled.

### Retention
`SqliteRetention` and the retention command (`retention.py`, `command_listener.py`,
`maintenance_command.py`).  `rows` is the table with its `AUTOINCREMENT` counter,
`backups` the backup files, `command` the listener's call from the reading of the count
to the answer.  `CycleBegins`, `Save`, `CycleEnds` are a cycle; `Receive` takes a
command with the count the user reviewed, which then waits for the lock while cycles
append; `StartCommand` compares it with a new plan; `Select`, `CreateBackup`,
`WriteBackup`, `Commit` are the steps of `apply`, each of which may fail (`FailApply`) or
be the last (`Stop`).  `Removable` is the three SQL conditions: older than the
cutoff, not the latest of its product, not the highest comparable price in its currency.

### RefreshQueue and CatalogRotation
`CatalogRotation` has the columns of `product_references` that decide about order, as
numbers: `order` (sequence), `seen`, `attempt`.  `Precedes` is the `ORDER BY` of
`list_refresh_batch`; `Accepted` the refusal of `record_discovery` when the clock stepped
back behind a recorded time, which ends the process.  `RefreshQueue` knows neither times
nor numbers: a queue, in which discoveries line up behind the untried references and a
refreshed batch at the end.  The mapping is the sequence of the retained references
by rank.  It is an implementation while `steady` holds: the timestamp of each cycle is
later than that of the one before.

### SchemaMigrations
`SqliteDatabase` (`database.py`): `objects` are tables, the indexes and the added column;
`version` is `user_version`; `step[o]` is what an opener of the file does next.  `Create`
is one statement, since the code's `with connection` opens no transaction for them;
`Migrate` is one transaction.  The several reads of `_validate_schema_columns` are one
step, because other openers only add objects.  `origin` tells apart an empty file, one of
an earlier release and one of another program.

### MigrationArchive
`archive.py` and `_state.py` between two installations that share a directory.  A content
is the number of the cycle that wrote it, an archive its timestamp, state and settings; a
digest distinguishes contents, so it is the content.  `AcceptImport` decides
from marker and target what is left to do; `Install` and `WriteMarker` are the two
durable writes, with a stop possible in between.

### AppProcess
`run` of `main.py`, `publish_cycle` and `_operational_failure_kind` of `cycle.py`, and
the listener's loop, in catalog and in explicit-URL mode.  `Found` is what monitoring
returned for each reference.  `failed` remembers the errors that the process counts or
that ended it.  `Publish` is one update of an entity: accepted, lost with or without
effect, or answered with something that is no HTTP response, which ends the process
(`urllib_client.py:107`).  `Raise` and `Warn` are a failing store at any step and
the storage warning that precedes the end; `Wait`, `Complete` and `LeaveCycle` are the
scheduler with and without a limit.  Freshness is the set `current` of entities that
show the running cycle; "overview" stands for three entities that are published
one after another and nothing reads in between.

## 4. Runs

The number is that of distinct states.

| run | question | bounds |
|---|---|---|
| `sync` (1.54 M) | Can an alert be repeated, silenced, or its price or return be stored unannounced? Is the abstract promise implemented? | two products in batches of 2, two currencies, amounts 8 and 10 with 20 % and 2 units as thresholds (8 is the exact edge of both), history of 2 snapshots, one reported failure per alert |
| `digest` (667 k) | Do reservations, baselines, freshness and deliveries agree? Does a date that stays due get its digest? | two products, a recheck budget of one, two dates of two ticks visited in any order |
| `health` (21.5 k) | Are incidents announced, not repeated needlessly, closed correctly, and settled in the end? | two causes, threshold 3, streaks told apart up to 4, four timestamps |
| `weekly` (739 k) | Do buckets count what was recorded; is each final, sent once, and settled? | two weeks of two ticks and the start of a third, four checks (a streak across a boundary, a recovery in the next week), two causes |
| `retention` (10.5 M) | Does what later cycles read survive, is everything removed in a backup, and is it what was reviewed? | two products, two currencies, prices 1 and 2, four observations, three timestamps, one day of retention |
| `rotation` (2.8 M) | Is a reference ever overtaken, a time ever set back, the queue implemented? | three references in batches of two, a discovery in every other cycle, five timestamps in any order |
| `schema` (1 k) | Does the version tell the schema; is anybody let in too early; is a foreign file touched; does an earlier file get through? | two openers, files of every version, empty and foreign ones |
| `migration` (27 k) | Is anything replaced; does an import continue what was exported and complete? | two installations, one archive name, two contents |
| `app` (2.0 M) | Do entities, lock, health and exit status tell the truth? | two references, either mode, two cycles, a discovery in every other one |
| `health_recovery_retry` | Is a recovery message retried? (**violated**) | one cause |
| `schema_initialization` | Is the schema initialized transactionally? (**violated**) | one opener |
| `migration_repeat` | Is a repeated import accepted? (**violated**) | two installations, three contents |

Why the bounds are enough.  Alerts of different identities do not interact except
through the batch order and through history, so two products and two prices meet
every combination of rule outcome, edge and currency change; two stored snapshots
distinguish first observation, comparison and comparison after a retry.  One
reported failure per identity lets each message be rejected, retried, accepted and
interrupted, and the counters compare `sent` with `rejected`, so more repeat the same
pattern.  Two dates in any order have a preceding one, delivered or left over.  Four
checks are the shortest log with a streak, its end and another streak
across a week.  `MaxStreak` is one above the threshold because only "below", "just
reached" and "above" are told apart.  Four rows are the fewest in which one is removable
beside the latest and the highest in both currencies.  Three references in batches of two
have a batch that overlaps the one before and one that does not; the fifth timestamp
lets a step back be followed by two good cycles.  Two openers suffice for a pair
of reads and writes to cross, and all six migrations are there.  After the proofs of section 6, the bounds matter only for what is not proved.

Processes that are down restart, so no configuration turns deadlock checking off.

### What the violated runs say

* `health_recovery_retry`: a recovery whose delivery failed stays pending, but the next
  healthy check starts from an `ok` state and builds one without the pending message
  (`engine.py:132`).  ADR-0031:63 says "Delivery failure leaves it pending for retry."
* `schema_initialization`: `with connection` (`database.py:266`) opens no transaction
  for `CREATE` statements under sqlite3's default isolation.  A process that ends in
  between leaves tables without a version, which every later start refuses as a foreign
  file.  ADR-0017:139 says "The schema is initialized transactionally".
* `migration_repeat`: once a cycle changed the imported state, its digest is no longer
  the marker's (`_state.py:135`), and a restart with the same import options is refused.
  ADR-0028:116-117 says "Repeating the same configured import is an idempotent no-op".

### Known divergences

Met while modelling, told here rather than by a run of their own:

* The baseline of a digest is staged before it is sent (`daily_digest/workflow.py:131`)
  and removed only by `except Exception`; an interrupted delivery leaves it, and the
  next digest is compared with a membership nobody received.  README.md:121-123
  speaks of "the preceding delivered baseline".  `BaselineWasDelivered` and
  `NewnessWithoutInterruption` say that this is the only way.
* After a retention has committed, its command plans the next preview (`cycle.py:267`).
  A `StateStoreError` there is answered with an error (`command_listener.py:111`), although
  the observations are gone; ADR-0027:142.  A preview that only Home Assistant refuses is
  caught (`cycle.py:277`) and the command answered with success.  A command that is
  repeated removes nothing that was not reviewed (`AppliedAsReviewed`), and a plan that
  was applied selects nothing more (`RetentionIdempotent`).
* The provider errors of a digest's recheck are written out (`cycle.py:185-187`) and
  published as `partial_provider_failure`, but none of the three counters sees them
  (`main.py:171-183`), and a limited run that had no other error ends with 0
  (`main.py:264`); ADR-0014:144 says "a finite programmatic run returns `1` when any
  cycle reported provider errors".  `ExitTellsFailures` is therefore about the errors
  that the process counts, in monitoring and publications, and those that end it;
  `HealthTellsFailures` says that the health entity shows the others.
* An answer that is no HTTP response raises an error outside the classes the client
  translates (`urllib_client.py:107`) and ends the process; STORY-014:205.
* The delivery of a digest is recorded several steps later (`cycle.py:309`); a stop in
  between loses the record; EPIC-002:142.
* An interval too long for `timedelta` raises `OverflowError`, not a configuration error
  (`configuration.py:231`).

## 5. Fairness

Safety needs none.  The liveness properties assume what the scheduler and the
Supervisor provide and what no program can do without (`LiveSpec`, `FairSpec`):

* `WF(Restart)`, `SF(Start)`: the Supervisor starts an ended process again.
* Weak fairness of the releases: a process that entered one gets through, or is
  interrupted.
* Strong fairness of the steps that lead to delivery, in each module its own: a step
  that is reached again and again succeeds some time.  Each of them may be preempted by
  an interruption, and each can fail in the code any number of times, so weak
  fairness would not be enough, and without it an outage for ever refutes the property.
* `OperationalHealth` also assumes `SF(StartCycle)`: interruptions do not hit every
  cycle, and `SF` of the check: a clock that stepped back catches up.  A cycle starts
  with a step of its own so that a failed check that changes no stored field is
  still a step: fairness must not force a recovery.
* `SchemaMigrations`: an opener closes the file at some time (`WF(Close)`), and what
  interrupts migrations does not strike at the same statement for ever.  `Create` is not
  assumed fair, and nothing is promised about a creation that was interrupted: that is
  the violated run.
* `MigrationArchive`: each of the steps of an import is not interrupted for ever.

`DueDigestSettled` and `WeekSettled` have "cycles keep reaching the delivery time of
this date (the delivery of this week)" as a premise, because nothing in the code
delivers a date or a week that is over.  `ImportRecovers` excepts what the operator can
do to it: another request, other options, a lost archive, another state.

That every retained reference is refreshed in the end is not stated as liveness: it
follows from the queue, in which nobody is overtaken, if cycles keep recording; and a
delivery that always fails keeps them from it (`workflow.py:112`), because the batch is
recorded only after it was handled.

## 6. Proofs

Assumed are the named assumptions in the modules: the ranges of options and bounds, the
finiteness of the sets that are counted, that absent values are not values, and (in
`AppProcess`) that no product has the name of a summary entity.  In each module an
inductive invariant is a conjunction of named parts.

* `SynchronizationProofs`: `TypeOK /\ DeliveryBooks /\ TurnBooks`.
  `AtMostOneAlert` alone is not inductive: that a call is possible only when calls and
  reported failures are equal needs the reservation in flight (`DeliveryBooks`), and that
  a stored drop was reserved needs to know that each rule already passed has done its part
  and that the comparison is with the last stored snapshot (`TurnBooks`).
  `DropStoredOnlyReserved` and `RestockStoredOnlyAnnounced` are action properties of
  `Save` from it.
* `DailyDigestProofs`: `DigestBooks` (while a run holds its date, the date is
  reserved, undelivered and unanswered), `TablesAgree` and `NewnessBooks` (without
  interruption the two tables and the deliveries are the same dates, so the preceding
  row is the preceding delivery), `FreshBooks` (what is shown and stale is still pending,
  which the budget bounds).
* `OperationalHealthProofs`: `TypeOK /\ StateAccepted /\ IncidentBooks`: the stored count
  is the streak of failed checks, and the message flags are what happened to the message.
  `StateAccepted` is the constructor's validation, so the theorem says that the engine
  builds no state its own validation rejects.
* `WeeklySummaryProofs`: `WeekBooks` (a marked week is over, because checks
  come in order, so nothing is recorded in it any more) and `LogBooks` with
  `BucketsCountChecks` itself: each counter is the cardinality of a set of recorded
  checks, which a record extends by at most the check just made.
* `RetentionProofs`: `ListenerBooks` (what a command has selected and backed up while it
  holds the lock, and that the plan it compared is still the plan of the rows) and
  `HistoryBooks` (every row was observed, and the counter is not behind any of them), next to
  the properties themselves, which need each other: the latest row and the highest
  comparable one outlive each deletion because the plan excepts both.
* `CatalogRotationProofs`: `ClockAhead`, `WaitersOlder` and `BatchIsFront` give
  `RotationFair`; `Numbered` (sequence numbers tell the references apart) gives the
  refinement.  Its lemmas count ranks in any finite ordered set: places are a bijection
  (pigeonhole), a discovery inserts a stretch, a refresh moves the front to the end.
  `WaitingIsBounded` says what the queue means for one reference: a recorded batch
  brings it forward by a whole batch, a discovery puts it back by the number of new
  references, and only if it was tried before.  `QueueWellFormed` needs no assumption about
  the clock: no reference is ever in two places or in none.
* `MigrationProofs`, schema: `CreationBooks` (what a creating opener has made is there, and
  only one opener got beyond the first statement), `OursBooks` (what an opener knows of
  the version is not ahead of the file) and `ForeignBooks` (nobody who is writing or let in
  has such a file).
* `MigrationProofs`, archives: `MonitorsImportedState` and `MarkerIsTrue` speak of the
  contents that the present one was made from, and are inductive only together with
  `KnownArchives` (a configured or marked archive exists or existed, complete, of a cycle
  of the past), `WrittenContents` (contents are numbered in the order of the cycles, so
  a new one is nobody's ancestor) and `ImportBooks` (what an accepted import relies on
  between its steps: no marker yet, the target empty, then the archive's content).
* `AppProcessProofs`: `LockHeld`, `EntityBooks`, `HealthBooks`, `PublishedBooks`,
  `FailureBooks`, one group for each of the run's properties; the causes of a cycle are
  proved for any number of references by cases on which sets of results are empty.
* Refinement of `ReservedDelivery` by alerts, dates and weeks, and of `RefreshQueue` by the
  rotation: initial states map to initial states, and each step maps to a step or a
  stutter.

| run | properties and their theorems |
|---|---|
| `sync` | `AtMostOneAlert`: `AlertDeliveredOnce`; `SilencedOnlyByInterruption`: `OnlyInterruptionSilences`; `DropStoredOnlyReserved`: `EligibleDropReserved`; `RestockStoredOnlyAnnounced`: `RestockAnnounced`; `ImplementsReservedDelivery`: `AlertsRefine` |
| `digest` | `BaselineWasDelivered`: `BaselinesWereDelivered`; `NewnessWithoutInterruption`: `NewnessOfDeliveries`; `FreshOrTried`: `DigestsAreFresh`; `ImplementsReservedDelivery`: `DigestsRefine` |
| `health` | `StateAccepted`: `EveryStateAccepted`; `FailureToldOnce`: `FailureAnnouncedOnce`; `RecoveryOnlyAfterFailure`: `RecoveryAfterFailure`; `SustainedFailureNotSilent`: `NoSilentFailure` |
| `weekly` | `BucketsCountChecks`: `BucketsCount`; `MarkedBucketFinal`: `MarkedIsFinal`; `ImplementsReservedDelivery`: `SummariesRefine` |
| `retention` | `AnswersUnchanged`: `AnswersSurvive`; `NothingLost`: `HistoryIsKept`; `AppliedAsReviewed`: `ReviewedCountRemoved` |
| `rotation` | `NoneOvertaken`: `RotationFair`; `TimesNeverDecrease`: `TimesKept`; `ImplementsRefreshQueue`: `RotationRefines` |
| `schema` | `SchemaOfVersion`: `SchemaAsVersioned`; `OpenIsComplete`: `OpenComplete`; `ForeignUntouched`: `ForeignKept` |
| `migration` | `MATypeOK`: `ArchiveTypeCorrect`; `MonitorsImportedState`: `ImportedStateMonitored`; `MarkerIsTrue`: `MarkerTrue`; `NothingOverwritten`: `NothingIsOverwritten` |
| `app` | `NoHalfCycle`: `CommandsMeetWholeCycles`; `StorageWarningStands`: `WarningsStand`; `EntitiesAgree`: `PublishedCyclesAgree`; `SummariesAreLast`: `SummariesFollow`; `HealthTellsFailures`: `HealthTells`; `ExitTellsFailures`: `ExitsTell` |

Proved and in no run:

* type correctness of every module but `MigrationArchive`, `DigestDeliveredOnce`,
  `SummaryDeliveredOnce`, `OnlyInterruptionSilences` of digest and weekly summary,
  `VersionGrows`, `RetentionIdempotent`, `DeeperDropMatches`;
* what refinement gives: `AlertsStayReserved`, `DigestsStayReserved`, `SummariesStayMarked`,
  `SteadyRotationIsQueue`;
* what is safety in a liveness property, so that only fairness remains to TLC:
  `MigrationGoesOn` (an interrupted migration leaves a file that can be opened and whose
  next migration finds nothing in its way, for `EarlierReleaseMigrated`), `ImportResumes`
  (an interrupted import does not refuse itself, for `ImportRecovers`), `WaitingIsBounded`;
* how far the violated runs reach, for all causes, openers and installations:
  `NoRecoveryRetried` (a recovery that is still pending is dropped by the next check,
  whatever it finds), `HalfCreatedForGood` (a file whose creation was interrupted stays
  half-created and lets nobody in) and `RepeatRefused` (a completed import is refused only
  after a cycle moved the state on, or wrote a state of the other mode).

Only model-checked: the liveness properties `DueDigestSettled`, `PendingFailureSettled`,
`WeekSettled`, `EarlierReleaseMigrated` and `ImportRecovers`.  Liveness under fairness,
`ENABLED` and induction over data are out of the reach of the installed provers; the last
is why nothing is proved about the value `Enrich` chooses, the maximum of a finite set.

## 7. Not modelled

* JSON state store, CLI and configuration: I/O, argument handling and validation around the
  same workflows.  `AppProcess` models the cycle of explicit-URL mode and its errors; which
  snapshots that mode compares is as in `Synchronization`, without history and
  reservations, and is not modelled.
* Inside the modelled components: parsing and wording, row validation and codecs, rules other
  than price drop and return to stock, time zones beyond a local day or week, the change to
  summer time, recheck pages that turn out to be another product, timing below a tick.
* Home Assistant itself: a delivery call accepts, reports a failure, or is cut off.  A
  reported failure may hide an accepted message; then the retry repeats it, and the
  properties count reported failures for that reason.
