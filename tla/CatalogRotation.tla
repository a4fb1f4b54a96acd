---------------------------- MODULE CatalogRotation ----------------------------
(***************************************************************************)
(* The catalog of one provider: cycles discover references now and then    *)
(* and refresh a bounded batch each, in the order of durable timestamps.   *)
(* The clock may step, a discovery may fail or be refused, and the process *)
(* may end anywhere and start again.                                       *)
(***************************************************************************)
EXTENDS Integers, FiniteSets

CONSTANTS
  References,
  BatchSize,          \* option catalog_batch_size
  DiscoveryInterval,  \* option discovery_interval_cycles
  MaxClock            \* bound: last timestamp of a cycle

ASSUME ReferenceAssumption == IsFiniteSet(References)
ASSUME OptionAssumption ==
  BatchSize \in Nat \ {0} /\ DiscoveryInterval \in Nat \ {0} /\ MaxClock \in Nat

VARIABLES
  order,      \* column sequence of a reference, 0 when it is not in the table
  seen,       \* last_seen_at
  attempt,    \* last_refresh_attempt_at, 0 for NULL
  now,        \* timestamp of the running or the latest cycle
  pc,         \* what the workflow does next
  batch,      \* the references it refreshes
  completed,  \* cycles since the process started, modulo the interval
  waiting,    \* history: who was retained, but not in the batch, when a
              \* reference was attempted last, and was not attempted since
  steady,     \* history: every cycle's timestamp was later than the one before
  last        \* history: the batch recorded last

table == <<order, seen, attempt>>
history == <<waiting, steady, last>>
vars == <<table, now, pc, batch, completed, history>>

Times == 0..MaxClock
Sequences == 0..Cardinality(References)
Running == {"discover", "select", "refresh"}

TypeOK ==
  /\ order \in [References -> Sequences]
  /\ seen \in [References -> Times] /\ attempt \in [References -> Times]
  /\ now \in Times
  /\ pc \in {"idle", "down"} \cup Running
  /\ batch \subseteq References
  /\ completed \in 0..(DiscoveryInterval - 1)
  /\ waiting \in [References -> SUBSET References]
  /\ steady \in BOOLEAN
  /\ last \subseteq References

Retained == {r \in References : order[r] # 0}

\* ORDER BY of list_refresh_batch: NULL first, then by timestamp and sequence.
Precedes(q, r) ==
  \/ attempt[q] < attempt[r]
  \/ attempt[q] = attempt[r] /\ order[q] < order[r]

Rank(r) == Cardinality({q \in Retained : Precedes(q, r)})

-------------------------------------------------------------------------------
Init ==
  /\ order = [r \in References |-> 0]
  /\ seen = [r \in References |-> 0] /\ attempt = [r \in References |-> 0]
  /\ now = 0 /\ pc = "idle" /\ batch = {} /\ completed = 0
  /\ waiting = [r \in References |-> {}] /\ steady = TRUE /\ last = {}

\* A cycle reads the clock; the first one of a process and then every
\* DiscoveryInterval-th discovers.
StartCycle(t) ==
  /\ pc = "idle"
  /\ now' = t /\ steady' = (steady /\ t > now)
  /\ pc' = IF completed = 0 THEN "discover" ELSE "select"
  /\ UNCHANGED <<table, batch, completed, waiting, last>>

\* Mutation of Accepted: a reference that was seen later is updated all the same.
AcceptedAlways(found) == found # {}

\* record_discovery raises when a found reference was seen after this cycle's
\* timestamp, and nothing of the discovery is stored.
Accepted(found) == found # {} /\ \A r \in found : seen[r] <= now

\* New rows get the next sequence numbers, in the order the sitemap lists them.
Sequenced(new) ==
  /\ order' \in [References -> Sequences]
  /\ \A r \in References \ new : order'[r] = order[r]
  /\ {order'[r] : r \in new} =
       (Cardinality(Retained) + 1)..(Cardinality(Retained) + Cardinality(new))

\* The sitemap's references are recorded: the new ones inserted, the others
\* seen again.  What the sitemap no longer lists stays in the table.
Discover(found) ==
  /\ pc = "discover" /\ Accepted(found)
  /\ Sequenced(found \ Retained)
  /\ seen' = [r \in References |-> IF r \in found THEN now ELSE seen[r]]
  /\ pc' = "select"
  /\ UNCHANGED <<attempt, now, batch, completed, history>>

\* CatalogError: the cycle goes on with the references it has.
DiscoveryFails ==
  /\ pc = "discover"
  /\ pc' = "select"
  /\ UNCHANGED <<table, now, batch, completed, history>>

\* A ValueError nothing handles ends the process.
DiscoveryRefused(found) ==
  /\ pc = "discover" /\ found # {} /\ ~Accepted(found)
  /\ pc' = "down"
  /\ UNCHANGED <<table, now, batch, completed, history>>

\* Mutation of SelectBatch: the most recently attempted references come first.
SelectLatest ==
  /\ pc = "select" /\ Retained # {}
  /\ batch' = {r \in Retained : Cardinality({q \in Retained : Precedes(r, q)}) < BatchSize}
  /\ pc' = "refresh"
  /\ UNCHANGED <<table, now, completed, history>>

SelectBatch ==
  /\ pc = "select" /\ Retained # {}
  /\ batch' = {r \in Retained : Rank(r) < BatchSize}
  /\ pc' = "refresh"
  /\ UNCHANGED <<table, now, completed, history>>

EndedCycle == pc' = "idle" /\ completed' = (completed + 1) % DiscoveryInterval

\* Nothing is retained: there is nothing to refresh.
SkipRefresh ==
  /\ pc = "select" /\ Retained = {}
  /\ EndedCycle
  /\ UNCHANGED <<table, now, batch, history>>

\* Mutation of Record: only references whose page could be read count as attempted.
RecordSuccesses ==
  /\ pc = "refresh"
  /\ \E read \in SUBSET batch :
       /\ \A r \in read : attempt[r] <= now
       /\ attempt' = [r \in References |-> IF r \in read THEN now ELSE attempt[r]]
  /\ waiting' = [r \in References |->
       (IF r \in batch THEN Retained ELSE waiting[r]) \ batch]
  /\ last' = batch /\ batch' = {}
  /\ EndedCycle
  /\ UNCHANGED <<order, seen, now, steady>>

\* record_refresh_attempt, in one transaction, after the batch was synchronized.
\* Errors of the provider are part of the result and count as attempts.
Record ==
  /\ pc = "refresh"
  /\ \A r \in batch : attempt[r] <= now
  /\ attempt' = [r \in References |-> IF r \in batch THEN now ELSE attempt[r]]
  /\ waiting' = [r \in References |->
       (IF r \in batch THEN Retained ELSE waiting[r]) \ batch]
  /\ last' = batch /\ batch' = {}
  /\ EndedCycle
  /\ UNCHANGED <<order, seen, now, steady>>

\* An attempt later than this cycle: a ValueError ends the process.
RecordRefused ==
  /\ pc = "refresh" /\ \E r \in batch : attempt[r] > now
  /\ pc' = "down"
  /\ UNCHANGED <<table, now, batch, completed, history>>

\* The process is terminated, or the store or a delivery fails: the attempt of
\* a batch it was working on is not recorded.
Stop ==
  /\ pc # "down"
  /\ pc' = "down"
  /\ UNCHANGED <<table, now, batch, completed, history>>

\* A new process counts its cycles from zero.
Restart ==
  /\ pc = "down"
  /\ pc' = "idle" /\ batch' = {} /\ completed' = 0
  /\ UNCHANGED <<table, now, history>>

Refresh == SelectBatch \/ SkipRefresh \/ Record \/ RecordRefused

Next ==
  \/ \E t \in 1..MaxClock : StartCycle(t)
  \/ \E found \in SUBSET References : Discover(found) \/ DiscoveryRefused(found)
  \/ DiscoveryFails \/ Refresh \/ Stop \/ Restart

Spec == Init /\ [][Next]_vars

-------------------------------------------------------------------------------
(* Properties.                                                             *)

\* No reference is refreshed again before one that was already waiting when it
\* was refreshed last, across failures, discoveries and restarts, as long as
\* the clock does not step back (list_refresh_batch, record_refresh_attempt).
NoneOvertaken ==
  steady /\ pc = "refresh" => \A r \in batch : waiting[r] \subseteq batch

\* Whatever the clock does, recorded discoveries and attempts never move back
\* in time, and a retained reference is never forgotten (record_discovery,
\* record_refresh_attempt).
TimesNeverDecrease ==
  [][\A r \in References :
       /\ seen'[r] >= seen[r] /\ attempt'[r] >= attempt[r]
       /\ order[r] # 0 => order'[r] = order[r]]_vars

\* The durable timestamps and sequence numbers represent a queue (RefreshQueue).
queue ==
  [i \in 1..Cardinality(Retained) |-> CHOOSE r \in Retained : Rank(r) = i - 1]

untried == {r \in Retained : attempt[r] = 0}

Queue == INSTANCE RefreshQueue

\* As long as every cycle is later than the one before, the catalog implements
\* that queue: restarts, refused records, repeated batches and discoveries
\* never change who is next (SqliteCatalogStore, CatalogMonitoringWorkflow.run).
ImplementsRefreshQueue ==
  Queue!Init /\ [][steady' => Queue!Next]_<<queue, untried, last>>

===============================================================================
