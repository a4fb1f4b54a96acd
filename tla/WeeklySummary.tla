----------------------------- MODULE WeeklySummary -----------------------------
(***************************************************************************)
(* The weekly summary of failed cycles.  The operational health of a cycle *)
(* is saved first; then the check is recorded in the bucket of its week;   *)
(* and from Monday's delivery time on, the bucket of the week before is    *)
(* marked as delivered, saved and sent, and unmarked after a reported      *)
(* failure.  The process may end between any two of these steps.           *)
(* Of the operational state only what the summary reads is kept here: when *)
(* the last check was, and whether it failed (see OperationalHealth).      *)
(***************************************************************************)
EXTENDS Integers, Sequences, FiniteSets

CONSTANTS
  FailureKind,   \* causes of a failed cycle
  NoKind,        \* the absent cause: a healthy check
  NoTime,        \* an absent timestamp
  NoBucket,      \* a week without a row
  NoCheck,       \* no cycle is being handled
  TicksPerWeek,  \* granularity of the local clock
  DeliveryTick,  \* the delivery time on Monday, in ticks of the week
  MaxClock,      \* bound: last timestamp
  MaxChecks,     \* bound: checks before only healthy ones follow
  MaxRejected    \* bound: reported failures per week

ASSUME ClockAssumption ==
  /\ TicksPerWeek \in Nat \ {0} /\ DeliveryTick \in Nat /\ MaxClock \in Nat
  /\ MaxChecks \in Nat /\ MaxRejected \in Nat

Clock == 0..MaxClock
Time == Clock \cup {NoTime}
WeekOf(t) == t \div TicksPerWeek
Week == {WeekOf(t) : t \in Clock}

\* Before Monday's delivery time nothing is sent.
Deliverable(t) == t % TicksPerWeek >= DeliveryTick

Bucket ==
  [counts : [FailureKind -> Nat],
   total : Nat,          \* total_failed_cycles
   incidents : Nat, recoveries : Nat,
   longest : Nat,        \* longest_failure_streak
   streak : Nat,         \* current_failure_streak
   first : Time, last : Time,  \* first_failure_at, last_failure_at
   delivered : Time]     \* delivered_at

CheckRecord ==
  [time : Clock, kind : FailureKind \cup {NoKind},
   before : BOOLEAN,     \* the cycle before was unhealthy
   index : Nat]          \* its position in the log, 0 when it is not logged

ASSUME AbsentAssumption ==
  /\ NoKind \notin FailureKind /\ NoTime \notin Clock
  /\ NoBucket \notin Bucket /\ NoCheck \notin CheckRecord

VARIABLES
  checked,       \* last_checked_at of the stored operational state
  unhealthy,     \* its status is not ok
  buckets,       \* [Week -> Bucket or NoBucket]: weekly_operational_summaries
  pc,            \* what the workflow does next
  check,         \* the cycle's check, or NoCheck
  (* History variables, read by no action but for the bound. *)
  log,           \* the checks whose operational state was saved
  recorded,      \* positions in the log that reached their bucket
  sent,          \* [Week -> Nat]: calls of the channel
  rejected,      \* [Week -> Nat]: those of them that reported a failure
  unconfirmed    \* weeks whose delivery an interruption left without an answer

durable == <<checked, unhealthy, buckets>>
ghosts == <<log, recorded, sent, rejected, unconfirmed>>
vars == <<durable, pc, check, ghosts>>

PCs == {"down", "idle", "record", "deliver", "send", "release"}

BucketOf(w) == IF w \in Week THEN buckets[w] ELSE NoBucket

\* Mutation of previous: the running week is reported.
runningWeek == WeekOf(check.time)

\* The week the summary is about: the one before the check's week.
previous == WeekOf(check.time) - 1

-------------------------------------------------------------------------------
(* WeeklyOperationalSummaryEngine.                                         *)

InitialBucket ==
  [counts |-> [k \in FailureKind |-> 0], total |-> 0, incidents |-> 0,
   recoveries |-> 0, longest |-> 0, streak |-> 0, first |-> NoTime,
   last |-> NoTime, delivered |-> NoTime]

Count(condition) == IF condition THEN 1 ELSE 0

\* Mutation of Recorded: a healthy check does not end a streak.
RecordedOneStreak(b, c) ==
  LET failed == c.kind # NoKind
      run == b.streak + Count(failed)
  IN  [b EXCEPT
        !.counts = [k \in FailureKind |-> @[k] + Count(k = c.kind)],
        !.total = @ + Count(failed),
        !.incidents = @ + Count(failed /\ ~c.before),
        !.recoveries = @ + Count(~failed /\ c.before),
        !.longest = IF run > @ THEN run ELSE @,
        !.streak = run,
        !.first = IF failed /\ @ = NoTime THEN c.time ELSE @,
        !.last = IF failed THEN c.time ELSE @]

\* One check recorded in its week's bucket.
Recorded(b, c) ==
  LET failed == c.kind # NoKind
      run == IF failed THEN b.streak + 1 ELSE 0
  IN  [b EXCEPT
        !.counts = [k \in FailureKind |-> @[k] + Count(k = c.kind)],
        !.total = @ + Count(failed),
        !.incidents = @ + Count(failed /\ ~c.before),
        !.recoveries = @ + Count(~failed /\ c.before),
        !.longest = IF run > @ THEN run ELSE @,
        !.streak = run,
        !.first = IF failed /\ @ = NoTime THEN c.time ELSE @,
        !.last = IF failed THEN c.time ELSE @]

\* There is a summary of week w to deliver.
Eligible(w) ==
  /\ BucketOf(w) # NoBucket
  /\ buckets[w].total > 0
  /\ buckets[w].delivered = NoTime

-------------------------------------------------------------------------------
Init ==
  /\ checked = NoTime
  /\ unhealthy = FALSE
  /\ buckets = [w \in Week |-> NoBucket]
  /\ pc = "idle"
  /\ check = NoCheck
  /\ log = << >>
  /\ recorded = {}
  /\ sent = [w \in Week |-> 0]
  /\ rejected = [w \in Week |-> 0]
  /\ unconfirmed = {}

Leave(next) == pc' = next /\ check' = NoCheck

\* The operational health of a cycle is saved, in chronological order.
SaveHealth(now, kind) ==
  /\ pc = "idle"
  /\ checked # NoTime => checked <= now
  /\ \/ /\ Len(log) < MaxChecks
        /\ log' = Append(log, [time |-> now, kind |-> kind])
     \/ /\ Len(log) = MaxChecks /\ Len(log) \in recorded
        /\ kind = NoKind /\ ~unhealthy
        /\ UNCHANGED log
  /\ checked' = now
  /\ unhealthy' = (kind # NoKind)
  /\ check' = [time |-> now, kind |-> kind, before |-> unhealthy,
               index |-> IF Len(log) < MaxChecks THEN Len(log) + 1 ELSE 0]
  /\ pc' = "record"
  /\ UNCHANGED <<buckets, recorded, sent, rejected, unconfirmed>>

\* The check is recorded in its week's bucket, which is created when missing.
Record ==
  /\ pc = "record"
  /\ LET w == WeekOf(check.time)
         b == IF buckets[w] = NoBucket THEN InitialBucket ELSE buckets[w]
     IN  buckets' = [buckets EXCEPT ![w] = Recorded(b, check)]
  /\ recorded' = recorded \cup ({check.index} \ {0})
  /\ IF Deliverable(check.time)
     THEN pc' = "deliver" /\ UNCHANGED check
     ELSE Leave("idle")
  /\ UNCHANGED <<checked, unhealthy, log, sent, rejected, unconfirmed>>

\* The week before has no row, no failed cycle, or was delivered.
NothingToReport ==
  /\ pc = "deliver"
  /\ ~Eligible(previous)
  /\ Leave("idle")
  /\ UNCHANGED <<durable, ghosts>>

\* The summary is marked as delivered before it is sent.
Mark ==
  /\ pc = "deliver"
  /\ Eligible(previous)
  /\ buckets' = [buckets EXCEPT ![previous].delivered = check.time]
  /\ pc' = "send"
  /\ UNCHANGED <<checked, unhealthy, check, ghosts>>

CountSend == sent' = [sent EXCEPT ![previous] = @ + 1]

\* Mutation of SendAccepted: the mark is taken back after every delivery.
SendAcceptedAndReleased ==
  /\ pc = "send"
  /\ CountSend
  /\ buckets' = [buckets EXCEPT ![previous].delivered = NoTime]
  /\ Leave("idle")
  /\ UNCHANGED <<checked, unhealthy, log, recorded, rejected, unconfirmed>>

SendAccepted ==
  /\ pc = "send"
  /\ CountSend
  /\ Leave("idle")
  /\ UNCHANGED <<durable, log, recorded, rejected, unconfirmed>>

SendRejected ==
  /\ pc = "send"
  /\ rejected[previous] < MaxRejected
  /\ CountSend
  /\ rejected' = [rejected EXCEPT ![previous] = @ + 1]
  /\ pc' = "release"
  /\ UNCHANGED <<durable, check, log, recorded, unconfirmed>>

\* Mutation of Release: the failure is reported, the mark stays.
KeepMark ==
  /\ pc = "release"
  /\ Leave("idle")
  /\ UNCHANGED <<durable, ghosts>>

\* The mark is taken back; the failure is not fatal.
Release ==
  /\ pc = "release"
  /\ buckets' = [buckets EXCEPT ![previous].delivered = NoTime]
  /\ Leave("idle")
  /\ UNCHANGED <<checked, unhealthy, ghosts>>

LeaveUnconfirmed ==
  /\ unconfirmed' = IF pc \in {"send", "release"}
                    THEN unconfirmed \cup {previous} ELSE unconfirmed
  /\ Leave("down")

\* SIGTERM, a hard stop, a storage error, or a clock that stepped back.
Interrupt ==
  /\ pc # "down"
  /\ LeaveUnconfirmed
  /\ UNCHANGED <<durable, log, recorded, sent, rejected>>

\* The process ends after the service took the summary, before send returned.
InterruptedSend ==
  /\ pc = "send"
  /\ CountSend
  /\ LeaveUnconfirmed
  /\ UNCHANGED <<durable, log, recorded, rejected>>

Restart ==
  /\ pc = "down"
  /\ Leave("idle")
  /\ UNCHANGED <<durable, ghosts>>

Next ==
  \/ \E now \in Clock, kind \in FailureKind \cup {NoKind} : SaveHealth(now, kind)
  \/ Record \/ NothingToReport \/ Mark
  \/ SendAccepted \/ SendRejected \/ Release
  \/ Interrupt \/ InterruptedSend \/ Restart

Spec == Init /\ [][Next]_vars

\* A started process goes on, and a step tried again and again succeeds.
Fairness ==
  /\ WF_vars(Restart)
  /\ WF_vars(Release)
  /\ SF_vars(Mark)
  /\ SF_vars(SendAccepted)

LiveSpec == Spec /\ Fairness

-------------------------------------------------------------------------------
(* Properties.                                                             *)

TypeOK ==
  /\ checked \in Time
  /\ unhealthy \in BOOLEAN
  /\ buckets \in [Week -> Bucket \cup {NoBucket}]
  /\ pc \in PCs
  /\ check \in CheckRecord \cup {NoCheck}
  /\ log \in Seq([time : Clock, kind : FailureKind \cup {NoKind}])
  /\ recorded \subseteq DOMAIN log
  /\ sent \in [Week -> Nat]
  /\ rejected \in [Week -> Nat]
  /\ unconfirmed \subseteq Week

Marked == {w \in Week : buckets[w] # NoBucket /\ buckets[w].delivered # NoTime}
Delivered == {w \in Week : sent[w] > rejected[w]}
Delivering(w) == pc \in {"send", "release"} /\ w = previous

\* The bookkeeping of deliveries, inductive with TypeOK: a summary in delivery
\* is marked and was not accepted before, calls and reported failures of a week
\* differ, by one, only for a marked week, and a marked week is over.
WeekBooks ==
  /\ pc \in {"record", "deliver", "send", "release"} <=> check # NoCheck
  /\ check # NoCheck => check.time = checked /\ check.index <= Len(log)
  /\ \A w \in Week : Delivering(w) => /\ w \in Marked \ unconfirmed
                                      /\ sent[w] = rejected[w]
  /\ pc \in {"send", "release"} => previous \in Week
  /\ unconfirmed \subseteq Marked
  /\ \A w \in Week : \/ sent[w] = rejected[w]
                     \/ w \in Marked /\ sent[w] = rejected[w] + 1
  /\ \A w \in Marked : /\ checked # NoTime /\ WeekOf(checked) > w
                       /\ buckets[w].total > 0

\* The summary of one week is handed to Home Assistant at most once without a
\* reported failure, across cycles, restarts and interruptions (ADR-0034).
OneReportPerWeek == \A w \in Week : sent[w] <= rejected[w] + 1

\* A mark is a delivered summary, the delivery in progress, or an interrupted
\* one: no reported failure uses up the week's summary.
SilencedOnlyByInterruption ==
  \A w \in Marked : w \in Delivered \/ w \in unconfirmed \/ Delivering(w)

\* What has been marked never changes again: the summary that was sent counts
\* every failed cycle of its week, because no check of an earlier week follows
\* one of a later week.
MarkedBucketFinal ==
  [][\A w \in Marked :
       buckets'[w] # buckets[w] =>
         buckets'[w] = [buckets[w] EXCEPT !.delivered = NoTime]]_vars

\* Marks and deliveries of weeks implement the abstract promise.
Summaries == INSTANCE ReservedDelivery
               WITH Identity <- Week, claimed <- Marked, accepted <- Delivered

ImplementsReservedDelivery == Summaries!Spec

Failed(i) == log[i].kind # NoKind

\* The recorded checks of a week, and those of them that satisfy P.
RecordedIn(w) == {i \in recorded : WeekOf(log[i].time) = w}

\* A run: recorded failed checks of a week with no recorded healthy one between.
Runs(w) ==
  {S \in SUBSET {i \in RecordedIn(w) : Failed(i)} :
     \A i \in RecordedIn(w) :
       ~Failed(i) => \/ \A j \in S : j < i
                     \/ \A j \in S : i < j}

\* The incrementally updated buckets agree with their definition over the
\* recorded checks, although the transition that makes a check an incident or a
\* recovery may lie in the week before, or in a cycle that was not recorded.
BucketsCountChecks ==
  \A w \in Week :
    IF buckets[w] = NoBucket
    THEN RecordedIn(w) = {}
    ELSE LET b == buckets[w]
             failures == {i \in RecordedIn(w) : Failed(i)}
             Unhealthy(i) == i > 0 /\ Failed(i)
         IN  /\ b.total = Cardinality(failures)
             /\ \A k \in FailureKind :
                  b.counts[k] = Cardinality({i \in failures : log[i].kind = k})
             /\ b.incidents = Cardinality({i \in failures : ~Unhealthy(i - 1)})
             /\ b.recoveries = Cardinality({i \in RecordedIn(w) \ failures :
                                              Unhealthy(i - 1)})
             /\ \A S \in Runs(w) : Cardinality(S) <= b.longest
             /\ \E S \in Runs(w) : Cardinality(S) = b.longest
             /\ b.streak = Cardinality({i \in failures :
                             \A j \in RecordedIn(w) : j >= i => Failed(j)})
             /\ failures = {} <=> b.first = NoTime
             /\ \A i \in failures : b.first <= log[i].time /\ log[i].time <= b.last

\* If cycles keep reaching the delivery of a week's summary, it is delivered in
\* the end, unless the week had no failure or an interruption silenced it.
WeekSettled ==
  \A w \in Week :
    []<>(pc = "deliver" /\ previous = w) =>
      <>[](\/ w \in Delivered \cup unconfirmed
           \/ BucketOf(w) = NoBucket
           \/ buckets[w].total = 0)
===============================================================================
