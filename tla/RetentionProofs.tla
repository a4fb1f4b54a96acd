---------------------------- MODULE RetentionProofs ----------------------------
(***************************************************************************)
(* Theorems of Retention, for every set of products, currencies and prices *)
(* and every length of the history.  They rest on two facts about the      *)
(* selection (what is latest or a peak of a set stays so in a subset, and  *)
(* selecting twice selects nothing) and on ListenerBooks: what the         *)
(* listener knows while it holds the lock.                                 *)
(***************************************************************************)
EXTENDS Retention, TLAPS

USE PriceAssumption, BoundAssumption DEF Times, Counts, Listening, Applying, Outcomes

\* While a retention runs, its thread holds the lock, the plan it checked is the
\* plan of the rows as they are, and its backup file is its own.
ListenerBooks ==
  /\ listener \in Applying \cup {"publishing"} => lock = "listener"
  /\ listener \in Applying =>
       /\ Cardinality(Removable(rows, Cutoff(command.at))) = command.expected
       /\ command.expected > 0
       /\ command.outcome = "none"
  /\ listener \in Applying \ {"planned"} =>
       command.removing = Removable(rows, Cutoff(command.at))
  /\ listener = "created" => \A b \in backups : b.file = command.at => ~b.complete
  /\ listener = "backedUp" => \E b \in backups : b.complete /\ b.rows = rows

HistoryBooks ==
  /\ rows \subseteq observed
  /\ \A row \in observed : row.seq <= inserted

RetentionInv ==
  /\ TypeOK /\ ListenerBooks /\ HistoryBooks
  /\ AnswersUnchanged /\ NothingLost /\ AppliedAsReviewed /\ RepetitionRemovesNothing

-------------------------------------------------------------------------------
\* What is the latest row or the peak of a set is so in every subset.
LEMMA SelectionOfSubset ==
  ASSUME NEW set, NEW subset, subset \subseteq set, NEW row \in subset,
         IsLatest(row, set) \/ IsPeak(row, set)
  PROVE  IsLatest(row, subset) \/ IsPeak(row, subset)
BY DEF IsLatest, IsPeak

\* Removing what can be removed leaves nothing to remove: the selection is
\* idempotent for a cutoff (_select_retention).
THEOREM SelectionIdempotent ==
  ASSUME NEW set, NEW cutoff \in Int
  PROVE  Removable(set \ Removable(set, cutoff), cutoff) = {}
<1> DEFINE rest == set \ Removable(set, cutoff)
<1>1. ASSUME NEW row \in Removable(rest, cutoff)
      PROVE  FALSE
  <2>1. /\ row \in rest /\ row.at < cutoff
        /\ ~(IsLatest(row, rest) \/ IsPeak(row, rest))
    BY <1>1 DEF Removable
  <2>2. IsLatest(row, set) \/ IsPeak(row, set)
    BY <2>1 DEF Removable
  <2>3. QED
    BY <2>1, <2>2, SelectionOfSubset
<1>2. QED
  BY <1>1

-------------------------------------------------------------------------------
LEMMA InitInv == Init => RetentionInv
BY DEF Init, RetentionInv, TypeOK, ListenerBooks, HistoryBooks, AnswersUnchanged,
       NothingLost, AppliedAsReviewed, RepetitionRemovesNothing, NoCommand, Command

\* No step leaves the types.
LEMMA TypeStep == TypeOK /\ [Next]_vars => TypeOK'
<1> SUFFICES ASSUME TypeOK, [Next]_vars PROVE TypeOK'
  OBVIOUS
<1> USE DEF TypeOK, Command
<1>1. ASSUME NEW at \in Times, CycleBegins(at) PROVE TypeOK'
  BY <1>1 DEF CycleBegins
<1>2. ASSUME NEW p \in Products, NEW c \in Currencies, NEW a \in Prices, Save(p, c, a)
      PROVE  TypeOK'
  <2> DEFINE row == [seq |-> inserted + 1, product |-> p, currency |-> c,
                     price |-> a, at |-> cycleAt]
  <2>1. row \in Row /\ inserted + 1 \in Counts
    BY <1>2 DEF Save, Row
  <2>2. rows' = rows \cup {row} /\ observed' = observed \cup {row} /\ inserted' = inserted + 1
    BY <1>2 DEF Save
  <2> HIDE DEF row
  <2>3. QED
    BY <1>2, <2>1, <2>2 DEF Save, threads
<1>3. CASE CycleEnds
  BY <1>3 DEF CycleEnds
<1>4. ASSUME NEW count \in Counts, Receive(count) PROVE TypeOK'
  BY <1>4 DEF Receive, NoCommand
<1>5. CASE EndOfInput
  BY <1>5 DEF EndOfInput
<1>6. ASSUME NEW at \in Times, StartCommand(at) PROVE TypeOK'
  BY <1>6 DEF StartCommand, Outcome
<1>7. CASE RefuseCommand
  BY <1>7 DEF RefuseCommand, Answered, NoCommand
<1>8. CASE Select
  <2>1. Removable(rows, Cutoff(command.at)) \in SUBSET Row
    BY DEF Removable
  <2>2. QED
    BY <1>8, <2>1 DEF Select
<1>9. CASE CreateBackup
  <2>1. [file |-> command.at, complete |-> FALSE, rows |-> {}] \in Backup
    BY DEF Backup
  <2>2. QED
    BY <1>9, <2>1 DEF CreateBackup
<1>10. CASE WriteBackup
  <2>1. [file |-> command.at, complete |-> TRUE, rows |-> rows] \in Backup
    BY DEF Backup
  <2>2. QED
    BY <1>10, <2>1 DEF WriteBackup, OtherBackups
<1>11. CASE Commit
  BY <1>11 DEF Commit
<1>12. CASE FailApply
  BY <1>12 DEF FailApply, OtherBackups, Answered, NoCommand
<1>13. CASE FinishCommand
  BY <1>13 DEF FinishCommand, Answered, NoCommand
<1>14. CASE Stop
  BY <1>14 DEF Stop, NoCommand
<1>15. CASE UNCHANGED vars
  BY <1>15 DEF vars, threads
<1>16. QED
  BY <1>1, <1>2, <1>3, <1>4, <1>5, <1>6, <1>7, <1>8, <1>9, <1>10, <1>11, <1>12,
     <1>13, <1>14, <1>15 DEF Next, Cycle, Answer, Apply

-------------------------------------------------------------------------------
\* What the listener knows stays true until it acts on it: no observation is
\* saved while it holds the lock.
LEMMA ListenerStep ==
  TypeOK /\ ListenerBooks /\ HistoryBooks /\ [Next]_vars => ListenerBooks'
<1> SUFFICES ASSUME TypeOK, ListenerBooks, HistoryBooks, [Next]_vars PROVE ListenerBooks'
  OBVIOUS
<1> USE DEF TypeOK, Command, ListenerBooks
<1>1. ASSUME NEW at \in Times, CycleBegins(at) PROVE ListenerBooks'
  BY <1>1 DEF CycleBegins
<1>2. ASSUME NEW p \in Products, NEW c \in Currencies, NEW a \in Prices, Save(p, c, a)
      PROVE  ListenerBooks'
  BY <1>2 DEF Save, threads
<1>3. CASE CycleEnds
  BY <1>3 DEF CycleEnds
<1>4. ASSUME NEW count \in Counts, Receive(count) PROVE ListenerBooks'
  BY <1>4 DEF Receive
<1>5. CASE EndOfInput
  BY <1>5 DEF EndOfInput
<1>6. ASSUME NEW at \in Times, StartCommand(at) PROVE ListenerBooks'
  <2> DEFINE outcome == Outcome(PlannedCount(at), command.expected)
  <2>1. /\ listener = "waiting" /\ lock' = "listener"
        /\ command' = [command EXCEPT !.at = at, !.outcome = outcome]
        /\ listener' = IF outcome = "none" THEN "planned" ELSE "publishing"
        /\ UNCHANGED rows
    BY <1>6 DEF StartCommand
  <2>2. command'.at = at /\ command'.expected = command.expected /\ command'.outcome = outcome
    BY <2>1
  <2>3. outcome = "none" =>
          /\ Cardinality(Removable(rows, Cutoff(at))) = command.expected
          /\ command.expected > 0
    BY DEF Outcome, PlannedCount
  <2>4. Removable(rows, Cutoff(command.at))' = Removable(rows, Cutoff(at))
    BY <2>1, <2>2, Zenon DEF Removable, Cutoff, IsLatest, IsPeak, SamePrices
  <2> HIDE DEF outcome
  <2>5. QED
    BY <2>1, <2>2, <2>3, <2>4
<1>7. CASE RefuseCommand
  BY <1>7 DEF RefuseCommand
<1>8. CASE Select
  BY <1>8 DEF Select, Removable, Cutoff, IsLatest, IsPeak, SamePrices
<1>9. CASE CreateBackup
  BY <1>9 DEF CreateBackup, Removable, Cutoff, IsLatest, IsPeak, SamePrices
<1>10. CASE WriteBackup
  <2> DEFINE backup == [file |-> command.at, complete |-> TRUE, rows |-> rows]
  <2>1. /\ backup.complete /\ backup.rows = rows /\ backup \in backups'
        /\ listener' = "backedUp" /\ UNCHANGED <<rows, lock, command>>
    BY <1>10 DEF WriteBackup
  <2>2. Removable(rows, Cutoff(command.at))' = Removable(rows, Cutoff(command.at))
    BY <2>1, Zenon DEF Removable, Cutoff, IsLatest, IsPeak, SamePrices
  <2> HIDE DEF backup
  <2>3. QED
    BY <1>10, <2>1, <2>2 DEF WriteBackup
<1>11. CASE Commit
  BY <1>11 DEF Commit
<1>12. CASE FailApply
  BY <1>12 DEF FailApply
<1>13. CASE FinishCommand
  BY <1>13 DEF FinishCommand
<1>14. CASE Stop
  BY <1>14 DEF Stop
<1>15. CASE UNCHANGED vars
  BY <1>15 DEF vars, threads, Removable, Cutoff, IsLatest, IsPeak, SamePrices
<1>16. QED
  BY <1>1, <1>2, <1>3, <1>4, <1>5, <1>6, <1>7, <1>8, <1>9, <1>10, <1>11, <1>12,
     <1>13, <1>14, <1>15 DEF Next, Cycle, Answer, Apply

\* The history and the answers read from the table: only Save and Commit touch
\* the rows, and Commit removes neither a latest row nor a peak.
LEMMA HistoryStep ==
  RetentionInv /\ [Next]_vars => HistoryBooks' /\ AnswersUnchanged'
<1> SUFFICES ASSUME RetentionInv, [Next]_vars PROVE HistoryBooks' /\ AnswersUnchanged'
  OBVIOUS
<1> USE DEF RetentionInv, HistoryBooks, AnswersUnchanged
<1>1. ASSUME NEW p \in Products, NEW c \in Currencies, NEW a \in Prices, Save(p, c, a)
      PROVE  HistoryBooks' /\ AnswersUnchanged'
  <2> DEFINE new == [seq |-> inserted + 1, product |-> p, currency |-> c,
                     price |-> a, at |-> cycleAt]
  <2>1. /\ rows' = rows \cup {new} /\ observed' = observed \cup {new}
        /\ inserted' = inserted + 1
    BY <1>1 DEF Save
  <2>2. new.seq = inserted + 1 /\ inserted \in Nat
    BY DEF TypeOK
  <2> HIDE DEF new
  <2>3. HistoryBooks'
    BY <2>1, <2>2 DEF TypeOK, Row
  <2>4. ASSUME NEW row \in observed', (IsLatest(row, observed) \/ IsPeak(row, observed))'
        PROVE  row \in rows'
    <3>1. CASE row = new
      BY <2>1, <3>1
    <3>2. CASE row # new
      <4>1. row \in observed /\ observed \subseteq observed'
        BY <2>1, <3>2
      <4>2. IsLatest(row, observed') \/ IsPeak(row, observed')
        BY <2>4
      <4>3. IsLatest(row, observed) \/ IsPeak(row, observed)
        BY <4>1, <4>2, SelectionOfSubset
      <4>4. QED
        BY <2>1, <4>1, <4>3
    <3>3. QED
      BY <3>1, <3>2
  <2>5. QED
    BY <2>3, <2>4
<1>2. CASE Commit
  <2>1. rows' = rows \ Removable(rows, Cutoff(command.at)) /\ UNCHANGED <<observed, inserted>>
    BY <1>2 DEF Commit, ListenerBooks
  <2>2. ASSUME NEW row \in observed, IsLatest(row, observed) \/ IsPeak(row, observed)
        PROVE  row \in rows'
    <3>1. row \in rows
      BY <2>2
    <3>2. IsLatest(row, rows) \/ IsPeak(row, rows)
      BY <2>2, <3>1, SelectionOfSubset
    <3>3. QED
      BY <2>1, <3>1, <3>2 DEF Removable
  <2>3. QED
    BY <2>1, <2>2 DEF IsLatest, IsPeak, SamePrices
<1>3. ASSUME UNCHANGED <<rows, observed, inserted>>
      PROVE  HistoryBooks' /\ AnswersUnchanged'
  BY <1>3 DEF IsLatest, IsPeak, SamePrices
<1>4. QED
  BY <1>1, <1>2, <1>3 DEF Next, Cycle, Answer, Apply, vars, threads, CycleBegins, CycleEnds,
     Receive, EndOfInput, StartCommand, RefuseCommand, Select, CreateBackup, WriteBackup,
     FailApply, FinishCommand, Stop

\* A row leaves the table only for a complete backup that holds it, and complete
\* backups are never removed.
LEMMA BackupStep == RetentionInv /\ [Next]_vars => NothingLost'
<1> SUFFICES ASSUME RetentionInv, [Next]_vars PROVE NothingLost'
  OBVIOUS
<1> USE DEF RetentionInv, NothingLost
<1>1. ASSUME NEW p \in Products, NEW c \in Currencies, NEW a \in Prices, Save(p, c, a)
      PROVE  NothingLost'
  BY <1>1 DEF Save
<1>2. CASE CreateBackup
  BY <1>2 DEF CreateBackup
<1>3. CASE WriteBackup
  <2>1. \A b \in backups : b.complete => b \in backups'
    BY <1>3 DEF WriteBackup, OtherBackups, ListenerBooks
  <2>2. QED
    BY <1>3, <2>1 DEF WriteBackup
<1>4. CASE FailApply
  <2>1. \A b \in backups : b.complete => b \in backups'
    BY <1>4 DEF FailApply, OtherBackups, ListenerBooks
  <2>2. QED
    BY <1>4, <2>1 DEF FailApply
<1>5. CASE Commit
  BY <1>5 DEF Commit, ListenerBooks
<1>6. ASSUME UNCHANGED <<rows, observed, backups>>
      PROVE  NothingLost'
  BY <1>6
<1>7. QED
  BY <1>1, <1>2, <1>3, <1>4, <1>5, <1>6 DEF Next, Cycle, Answer, Apply, vars, threads,
     CycleBegins, CycleEnds, Receive, EndOfInput, StartCommand, RefuseCommand, Select,
     FinishCommand, Stop

\* What is known of an applied retention when its outcome is about to be reported.
LEMMA ReportStep ==
  RetentionInv /\ [Next]_vars => AppliedAsReviewed' /\ RepetitionRemovesNothing'
<1> SUFFICES ASSUME RetentionInv, [Next]_vars
             PROVE  AppliedAsReviewed' /\ RepetitionRemovesNothing'
  OBVIOUS
<1> USE DEF RetentionInv, AppliedAsReviewed, RepetitionRemovesNothing
<1>1. ASSUME NEW at \in Times, StartCommand(at)
      PROVE  AppliedAsReviewed' /\ RepetitionRemovesNothing'
  <2>1. command'.outcome # "applied"
    BY <1>1 DEF StartCommand, Outcome, TypeOK, Command
  <2>2. QED
    BY <2>1
<1>2. CASE Commit
  <2>1. /\ rows' = rows \ Removable(rows, Cutoff(command.at))
        /\ command.removing = Removable(rows, Cutoff(command.at))
        /\ Cardinality(command.removing) = command.expected /\ command.expected > 0
        /\ command' = [command EXCEPT !.outcome = "applied"]
    BY <1>2 DEF Commit, ListenerBooks
  <2>2. /\ command'.at = command.at /\ command'.expected = command.expected
        /\ command'.removing = command.removing
    BY <2>1 DEF TypeOK, Command
  <2>3. Cutoff(command.at) \in Int
    BY DEF Cutoff, TypeOK, Command
  <2>4. Removable(rows', Cutoff(command.at)) = {}
    BY <2>1, <2>3, SelectionIdempotent
  <2>5. QED
    BY <2>1, <2>2, <2>4 DEF Cutoff, Removable, IsLatest, IsPeak, SamePrices
<1>3. ASSUME NEW p \in Products, NEW c \in Currencies, NEW a \in Prices, Save(p, c, a)
      PROVE  AppliedAsReviewed' /\ RepetitionRemovesNothing'
  BY <1>3 DEF Save, ListenerBooks, threads
<1>4. ASSUME listener' # "publishing"
      PROVE  AppliedAsReviewed' /\ RepetitionRemovesNothing'
  BY <1>4
<1>5. ASSUME UNCHANGED <<rows, command, listener>>
      PROVE  AppliedAsReviewed' /\ RepetitionRemovesNothing'
  BY <1>5 DEF Cutoff, Removable, IsLatest, IsPeak, SamePrices
<1>6. QED
  BY <1>1, <1>2, <1>3, <1>4, <1>5 DEF Next, Cycle, Answer, Apply, vars, threads,
     CycleBegins, CycleEnds, Receive, EndOfInput, RefuseCommand, Select, CreateBackup,
     WriteBackup, FailApply, FinishCommand, Stop

-------------------------------------------------------------------------------
LEMMA InvAlways == Spec => []RetentionInv
<1>1. RetentionInv /\ [Next]_vars => RetentionInv'
  BY TypeStep, ListenerStep, HistoryStep, BackupStep, ReportStep DEF RetentionInv
<1>2. QED
  BY InitInv, <1>1, PTL DEF Spec

\* Every reachable state has the types of the source.
THEOREM TypeCorrect == Spec => []TypeOK
BY InvAlways, PTL DEF RetentionInv

\* However often history was pruned, the latest observations and the peaks of the
\* whole history are in the table (_select_retention, load, PriceReferencePolicy).
THEOREM AnswersSurvive == Spec => []AnswersUnchanged
BY InvAlways, PTL DEF RetentionInv

\* Every observation is in the table or in a complete backup, through every
\* failure and interruption (SqliteObservationRetentionManager.apply).
THEOREM HistoryIsKept == Spec => []NothingLost
BY InvAlways, PTL DEF RetentionInv

\* An applied retention removed the number of rows the operator had reviewed
\* (MaintenanceCommandProcessor.process under the operation lock).
THEOREM ReviewedCountRemoved == Spec => []AppliedAsReviewed
BY InvAlways, PTL DEF RetentionInv

\* Right after a retention its cutoff removes nothing more (ADR-0025).
THEOREM RetentionIdempotent == Spec => []RepetitionRemovesNothing
BY InvAlways, PTL DEF RetentionInv
===============================================================================
