------------------------------- MODULE Retention -------------------------------
(***************************************************************************)
(* The observation history and its explicit, backup-protected retention.   *)
(* The thread of the cycles appends observations; the listener thread      *)
(* answers one command at a time: it plans, and only when the number of    *)
(* removable rows is the one the operator reviewed it writes a complete    *)
(* backup and deletes the rows.  Both threads work under one operation     *)
(* lock.  Any step of a retention can fail, and the process may end        *)
(* anywhere.                                                               *)
(***************************************************************************)
EXTENDS Integers, FiniteSets

CONSTANTS
  Products,
  Currencies,
  Prices,         \* exact amounts, in steps of one
  MaxSeq,         \* bound: observations ever inserted
  MaxTime,        \* bound: last timestamp
  RetentionDays   \* option retention_preview_days

Times == 0..MaxTime
Counts == 0..MaxSeq
Row == [seq : 1..MaxSeq, product : Products, currency : Currencies,
        price : Prices, at : Times]

ASSUME PriceAssumption == Prices \subseteq Nat
ASSUME BoundAssumption == MaxSeq \in Nat /\ MaxTime \in Nat /\ RetentionDays \in Nat \ {0}

VARIABLES
  rows,      \* table observations
  inserted,  \* its AUTOINCREMENT counter: no sequence is used twice
  backups,   \* files of the directory retention-backups
  lock,      \* operation_lock
  cycleAt,   \* timestamp of the running cycle
  listener,  \* what the command listener does next
  command,   \* the command it works on, or its answer in the process log
  observed   \* history variable: every row ever inserted

threads == <<lock, cycleAt, listener, command>>
vars == <<rows, inserted, backups, threads, observed>>

Outcomes == {"none", "stale_plan", "no_changes", "applied", "error"}
Applying == {"planned", "selected", "created", "backedUp"}
Listening == {"reading", "waiting", "publishing", "ended"} \cup Applying

Command == [expected : Counts, at : Times, removing : SUBSET Row, outcome : Outcomes]
NoCommand == [expected |-> 0, at |-> 0, removing |-> {}, outcome |-> "none"]

Answered(outcome) == [NoCommand EXCEPT !.outcome = outcome]

\* A backup file is complete once it was written and synchronized.
Backup == [file : Times, complete : BOOLEAN, rows : SUBSET Row]

TypeOK ==
  /\ rows \subseteq Row /\ observed \subseteq Row
  /\ inserted \in Counts
  /\ backups \subseteq Backup
  /\ lock \in {"free", "cycle", "listener"}
  /\ cycleAt \in Times
  /\ listener \in Listening
  /\ command \in Command

-------------------------------------------------------------------------------
(* _select_retention.                                                      *)

\* load() and latest_snapshots() answer with the row inserted last.
IsLatest(row, set) ==
  row \in set /\ \A other \in set : other.product = row.product => other.seq <= row.seq

SamePrices(row, other) == other.product = row.product /\ other.currency = row.currency

\* The row that first reached the highest price of its product and currency,
\* which price references are taken from.
IsPeak(row, set) ==
  /\ row \in set
  /\ \A other \in set : SamePrices(row, other) =>
       other.price < row.price \/ (other.price = row.price /\ row.seq <= other.seq)

\* Mutation of Removable: the latest row is the one with the latest timestamp.
RemovableByTime(set, cutoff) ==
  {row \in set : row.at < cutoff /\ ~IsPeak(row, set) /\
                 \E other \in set : other.product = row.product /\ other.at > row.at}

Removable(set, cutoff) ==
  {row \in set : row.at < cutoff /\ ~IsLatest(row, set) /\ ~IsPeak(row, set)}

Cutoff(at) == at - RetentionDays

PlannedCount(at) == Cardinality(Removable(rows, Cutoff(at)))

-------------------------------------------------------------------------------
Init ==
  /\ rows = {} /\ observed = {} /\ inserted = 0 /\ backups = {}
  /\ lock = "free" /\ cycleAt = 0
  /\ listener = "reading" /\ command = NoCommand

(* The thread of the cycles.                                               *)

CycleBegins(at) ==
  /\ lock = "free"
  /\ lock' = "cycle" /\ cycleAt' = at
  /\ UNCHANGED <<rows, inserted, backups, listener, command, observed>>

\* SqliteStateStore.save during the refresh of the batch or of the digest.  No
\* row is inserted while the transaction of a retention is open.
Save(product, currency, price) ==
  /\ lock = "cycle" /\ listener \notin Applying \ {"planned"}
  /\ inserted < MaxSeq
  /\ LET row == [seq |-> inserted + 1, product |-> product, currency |-> currency,
                 price |-> price, at |-> cycleAt]
     IN  rows' = rows \cup {row} /\ observed' = observed \cup {row}
  /\ inserted' = inserted + 1
  /\ UNCHANGED <<backups, threads>>

CycleEnds ==
  /\ lock = "cycle"
  /\ lock' = "free" /\ cycleAt' = 0
  /\ UNCHANGED <<rows, inserted, backups, listener, command, observed>>

(* The listener thread.                                                    *)

\* One valid line of the input: the count an operator has reviewed.
Receive(count) ==
  /\ listener = "reading"
  /\ listener' = "waiting"
  /\ command' = [NoCommand EXCEPT !.expected = count]
  /\ UNCHANGED <<rows, inserted, backups, lock, cycleAt, observed>>

EndOfInput ==
  /\ listener = "reading"
  /\ listener' = "ended"
  /\ UNCHANGED <<rows, inserted, backups, lock, cycleAt, command, observed>>

\* MaintenanceCommandProcessor.process up to the first effect: plan again and
\* compare with the reviewed count.
Outcome(count, expected) ==
  IF count # expected THEN "stale_plan" ELSE IF count = 0 THEN "no_changes" ELSE "none"

\* Mutation of StartCommand: the listener does not wait for the running cycle.
StartCommandUnlocked(at) ==
  /\ listener = "waiting"
  /\ LET outcome == Outcome(PlannedCount(at), command.expected)
     IN  /\ command' = [command EXCEPT !.at = at, !.outcome = outcome]
         /\ listener' = IF outcome = "none" THEN "planned" ELSE "publishing"
         /\ lock' = IF lock = "free" THEN "listener" ELSE lock
         /\ outcome = "none" => \A b \in backups : b.file # at
  /\ UNCHANGED <<rows, inserted, backups, cycleAt, observed>>

\* The lock is taken, the clock read and the command planned; the path of the
\* backup must be free.
StartCommand(at) ==
  /\ listener = "waiting" /\ lock = "free"
  /\ LET outcome == Outcome(PlannedCount(at), command.expected)
     IN  /\ command' = [command EXCEPT !.at = at, !.outcome = outcome]
         /\ listener' = IF outcome = "none" THEN "planned" ELSE "publishing"
         /\ outcome = "none" => \A b \in backups : b.file # at
  /\ lock' = "listener"
  /\ UNCHANGED <<rows, inserted, backups, cycleAt, observed>>

\* Planning fails, or a backup with this timestamp exists.
RefuseCommand ==
  /\ listener = "waiting" /\ lock = "free"
  /\ listener' = "reading"
  /\ command' = Answered("error")
  /\ UNCHANGED <<rows, inserted, backups, lock, cycleAt, observed>>

\* BEGIN IMMEDIATE, and the rows are selected again.
Select ==
  /\ listener = "planned"
  /\ listener' = "selected"
  /\ command' = [command EXCEPT !.removing = Removable(rows, Cutoff(command.at))]
  /\ UNCHANGED <<rows, inserted, backups, lock, cycleAt, observed>>

\* Path.open("xb"): the file must not exist.
CreateBackup ==
  /\ listener = "selected"
  /\ \A b \in backups : b.file # command.at
  /\ backups' = backups \cup {[file |-> command.at, complete |-> FALSE, rows |-> {}]}
  /\ listener' = "created"
  /\ UNCHANGED <<rows, inserted, lock, cycleAt, command, observed>>

OtherBackups == {b \in backups : b.file # command.at}

\* Mutation of WriteBackup: the database is serialized after the deletion.
WriteBackupOfKeptRows ==
  /\ listener = "created"
  /\ backups' = OtherBackups \cup
       {[file |-> command.at, complete |-> TRUE, rows |-> rows \ command.removing]}
  /\ listener' = "backedUp"
  /\ UNCHANGED <<rows, inserted, lock, cycleAt, command, observed>>

\* The serialized database is written and synchronized.
WriteBackup ==
  /\ listener = "created"
  /\ backups' = OtherBackups \cup {[file |-> command.at, complete |-> TRUE, rows |-> rows]}
  /\ listener' = "backedUp"
  /\ UNCHANGED <<rows, inserted, lock, cycleAt, command, observed>>

\* The selected rows are deleted and the transaction is committed.
Commit ==
  /\ listener = "backedUp"
  /\ rows' = rows \ command.removing
  /\ command' = [command EXCEPT !.outcome = "applied"]
  /\ listener' = "publishing"
  /\ UNCHANGED <<inserted, backups, lock, cycleAt, observed>>

\* Any step of the application fails: roll back, and remove a backup that was
\* not completed when that is possible.  A completed backup stays.
FailApply ==
  /\ listener \in Applying
  /\ \/ backups' = backups
     \/ listener = "created" /\ backups' = OtherBackups
  /\ command' = Answered("error")
  /\ listener' = "reading" /\ lock' = "free"
  /\ UNCHANGED <<rows, inserted, cycleAt, observed>>

\* The preview is planned and published again, and the outcome written; but when
\* that plan fails the command is reported as failed, whatever its outcome.
FinishCommand ==
  /\ listener = "publishing"
  /\ \E outcome \in {command.outcome, "error"} : command' = Answered(outcome)
  /\ listener' = "reading" /\ lock' = "free"
  /\ UNCHANGED <<rows, inserted, backups, cycleAt, observed>>

\* The process ends wherever it is and starts again: an open transaction is
\* rolled back, files stay as they are.
Stop ==
  /\ lock' = "free" /\ listener' = "reading" /\ command' = NoCommand
  /\ cycleAt' = 0
  /\ UNCHANGED <<rows, inserted, backups, observed>>

-------------------------------------------------------------------------------
Cycle ==
  \/ \E at \in Times : CycleBegins(at)
  \/ \E p \in Products, c \in Currencies, a \in Prices : Save(p, c, a)
  \/ CycleEnds

Apply == Select \/ CreateBackup \/ WriteBackup \/ Commit \/ FailApply

Answer ==
  \/ \E at \in Times : StartCommand(at)
  \/ RefuseCommand \/ Apply \/ FinishCommand

Next ==
  \/ Cycle \/ Answer \/ Stop \/ EndOfInput
  \/ \E count \in Counts : Receive(count)

Spec == Init /\ [][Next]_vars

-------------------------------------------------------------------------------
(* Properties.                                                             *)

\* However often history was pruned, the latest observation of a product and
\* the first observation of its highest price in a currency are those of the
\* whole history: load(), latest_snapshots() and the price reference answer as
\* if nothing had been deleted (ADR-0025, _select_retention).
AnswersUnchanged ==
  \A row \in observed :
    IsLatest(row, observed) \/ IsPeak(row, observed) => row \in rows

\* Every observation is still in the table or in a complete backup, whatever
\* failed or was cut off between the backup and the commit (apply).
NothingLost ==
  \A row \in observed :
    row \in rows \/ \E b \in backups : b.complete /\ row \in b.rows

\* A retention that was applied removed as many rows as the operator had
\* reviewed, and at least one: no cycle came between the plan and the deletion
\* (MaintenanceCommandProcessor.process, MaintenanceCommandResult).
AppliedAsReviewed ==
  listener = "publishing" /\ command.outcome = "applied" =>
    Cardinality(command.removing) = command.expected /\ command.expected > 0

\* Right after a retention the same cutoff removes nothing more: a repeated
\* command is harmless (ADR-0025: idempotent for the same cutoff).
RepetitionRemovesNothing ==
  listener = "publishing" /\ command.outcome = "applied" =>
    Removable(rows, Cutoff(command.at)) = {}

===============================================================================
