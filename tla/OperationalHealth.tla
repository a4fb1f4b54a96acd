--------------------------- MODULE OperationalHealth ---------------------------
(***************************************************************************)
(* The durable operational health of catalog mode.  At the end of every    *)
(* cycle one check is applied to the stored state, the new state is saved, *)
(* and only then a pending transition is sent; an accepted message is      *)
(* acknowledged by a second save, a reported failure leaves it pending,    *)
(* and with immediate alerts switched off it is cleared instead.  The      *)
(* process may end between any two of these steps and start again with     *)
(* the stored state and possibly other options.                            *)
(***************************************************************************)
EXTENDS Integers

CONSTANTS
  FailureKind,       \* causes of a failed cycle
  NoKind,            \* the absent cause: a healthy check
  NoTime,            \* an absent timestamp
  FailureThreshold,  \* failed checks in a row that make an incident
  MaxStreak,         \* bound: longer streaks are not told apart
  MaxClock           \* bound: last timestamp

Clock == 0..MaxClock
Time  == Clock \cup {NoTime}
Status == {"ok", "degraded", "failed"}
Notification == {"none", "failure", "recovery"}

ASSUME ThresholdAssumption ==
  /\ FailureThreshold \in Nat \ {0}
  /\ MaxStreak \in Nat /\ FailureThreshold <= MaxStreak
ASSUME ClockAssumption == MaxClock \in Nat
ASSUME AbsentAssumption == NoKind \notin FailureKind /\ NoTime \notin Clock

OperationalState ==
  [status : Status,
   kind : FailureKind \cup {NoKind},
   count : 0..MaxStreak,        \* consecutive_failure_cycles
   started : Time,              \* incident_started_at
   checked : Time,              \* last_checked_at
   recovered : Time,            \* last_recovered_at
   notified : BOOLEAN,          \* incident_notified
   pending : Notification,      \* pending_notification
   digest : Time]               \* last_digest_delivery

VARIABLES
  state,      \* table operational_state, or the initial state without a row
  pc,         \* what the workflow does next
  enabled,    \* option: immediate operational notifications
  (* History variables, read by no action. *)
  streak,     \* failed checks in a row, up to MaxStreak
  told,       \* the current incident's failure message was accepted
  cut,        \* an interruption hid from the program that it was accepted
  muted       \* a message of the current incident was cleared by the option

ghosts == <<streak, told, cut, muted>>
vars == <<state, pc, enabled, ghosts>>

PCs == {"down", "idle", "check", "send", "acknowledge", "suppress"}

-------------------------------------------------------------------------------
(* OperationalHealthEngine.                                                *)

InitialState ==
  [status |-> "ok", kind |-> NoKind, count |-> 0, started |-> NoTime,
   checked |-> NoTime, recovered |-> NoTime, notified |-> FALSE,
   pending |-> "none", digest |-> NoTime]

\* Mutation of HealthyState: an incident nobody heard of is announced as over.
HealthyAlwaysAnnounced(s, now) ==
  LET announced == s.status = "failed"
  IN  [status |-> "ok", kind |-> NoKind, count |-> 0,
       started |-> IF announced THEN s.started ELSE NoTime,
       checked |-> now,
       recovered |-> IF s.status # "ok" THEN now ELSE s.recovered,
       notified |-> announced,
       pending |-> IF announced THEN "recovery" ELSE "none",
       digest |-> s.digest]

\* Mutation of HealthyState: the start of the incident is not cleared.
HealthyKeepsStart(s, now) ==
  LET announced == s.status = "failed" /\ s.notified
  IN  [status |-> "ok", kind |-> NoKind, count |-> 0,
       started |-> s.started,
       checked |-> now,
       recovered |-> IF s.status # "ok" THEN now ELSE s.recovered,
       notified |-> announced,
       pending |-> IF announced THEN "recovery" ELSE "none",
       digest |-> s.digest]

\* A check that found nothing wrong.  Only an acknowledged incident is closed
\* with a pending recovery; everything else about an incident is dropped.
HealthyState(s, now) ==
  LET announced == s.status = "failed" /\ s.notified
  IN  [status |-> "ok", kind |-> NoKind, count |-> 0,
       started |-> IF announced THEN s.started ELSE NoTime,
       checked |-> now,
       recovered |-> IF s.status # "ok" THEN now ELSE s.recovered,
       notified |-> announced,
       pending |-> IF announced THEN "recovery" ELSE "none",
       digest |-> s.digest]

NextCount(n) == IF n < MaxStreak THEN n + 1 ELSE n

\* Mutation of FailedState: only the check that reaches the threshold notifies.
FailedPendingOnce(s, now, kind) ==
  LET continuing == s.status # "ok"
      count == IF continuing THEN NextCount(s.count) ELSE 1
      failed == count >= FailureThreshold
      reached == failed /\ s.status # "failed"
  IN  [status |-> IF failed THEN "failed" ELSE "degraded",
       kind |-> kind, count |-> count,
       started |-> IF continuing THEN s.started ELSE now,
       checked |-> now,
       recovered |-> s.recovered,
       notified |-> failed /\ ~reached /\ s.notified,
       pending |-> IF reached THEN "failure" ELSE "none",
       digest |-> s.digest]

\* A failed check.  The one that reaches the threshold makes the failure
\* message pending; later ones keep what is pending or acknowledged.
FailedState(s, now, kind) ==
  LET continuing == s.status # "ok"
      count == IF continuing THEN NextCount(s.count) ELSE 1
      failed == count >= FailureThreshold
      reached == failed /\ s.status # "failed"
  IN  [status |-> IF failed THEN "failed" ELSE "degraded",
       kind |-> kind, count |-> count,
       started |-> IF continuing THEN s.started ELSE now,
       checked |-> now,
       recovered |-> s.recovered,
       notified |-> failed /\ ~reached /\ s.notified,
       pending |-> IF reached THEN "failure"
                   ELSE IF failed THEN s.pending ELSE "none",
       digest |-> s.digest]

Evaluate(s, now, kind) ==
  IF kind = NoKind THEN HealthyState(s, now) ELSE FailedState(s, now, kind)

\* Mutation of Acknowledged: an acknowledged failure stays pending.
AcknowledgedStillPending(s) ==
  IF s.pending = "failure"
  THEN [s EXCEPT !.notified = TRUE]
  ELSE [s EXCEPT !.started = NoTime, !.notified = FALSE, !.pending = "none"]

Acknowledged(s) ==
  IF s.pending = "failure"
  THEN [s EXCEPT !.notified = TRUE, !.pending = "none"]
  ELSE [s EXCEPT !.started = NoTime, !.notified = FALSE, !.pending = "none"]

Suppressed(s) ==
  IF s.pending = "failure"
  THEN [s EXCEPT !.notified = FALSE, !.pending = "none"]
  ELSE [s EXCEPT !.started = NoTime, !.notified = FALSE, !.pending = "none"]

NotBefore(now, time) == time # NoTime => time <= now

\* Neither the check nor a digest delivery may precede what is stored.
Chronological(now, delivered) ==
  /\ NotBefore(now, state.checked)
  /\ delivered => NotBefore(now, state.digest)

-------------------------------------------------------------------------------
Init ==
  /\ state = InitialState
  /\ pc = "idle"
  /\ enabled \in BOOLEAN
  /\ streak = 0
  /\ told = FALSE
  /\ cut = FALSE
  /\ muted = FALSE

\* A cycle: its catalog part, digest and publications, which leave the health
\* alone, run before the check.
StartCycle ==
  /\ pc = "idle"
  /\ pc' = "check"
  /\ UNCHANGED <<state, enabled, ghosts>>

\* The end of a cycle: the digest delivery, if there was one, and the check are
\* applied to the stored state, and the result is saved in one row.
Check(now, kind, delivered) ==
  /\ pc = "check"
  /\ Chronological(now, delivered)
  /\ LET base == IF delivered THEN [state EXCEPT !.digest = now] ELSE state
     IN  state' = Evaluate(base, now, kind)
  /\ pc' = IF state'.pending = "none" THEN "idle"
           ELSE IF enabled THEN "send" ELSE "suppress"
  /\ streak' = IF kind = NoKind THEN 0 ELSE NextCount(streak)
  /\ IF kind # NoKind /\ streak = 0
     THEN told' = FALSE /\ cut' = FALSE /\ muted' = FALSE
     ELSE UNCHANGED <<told, cut, muted>>
  /\ UNCHANGED enabled

\* The clock stepped back: the engine raises ValueError and the process ends.
ClockStepsBack(now, delivered) ==
  /\ pc = "check"
  /\ ~Chronological(now, delivered)
  /\ pc' = "down"
  /\ UNCHANGED <<state, enabled, ghosts>>

\* Immediate notifications are off: the transition is cleared and saved.
Suppress ==
  /\ pc = "suppress"
  /\ state' = Suppressed(state)
  /\ pc' = "idle"
  /\ muted' = TRUE
  /\ UNCHANGED <<enabled, streak, told, cut>>

Tell == told' = (told \/ state.pending = "failure")

\* channel.send returned.
SendAccepted ==
  /\ pc = "send"
  /\ Tell
  /\ pc' = "acknowledge"
  /\ UNCHANGED <<state, enabled, streak, cut, muted>>

\* It raised OperationalNotificationError: the message stays pending.
SendRejected ==
  /\ pc = "send"
  /\ pc' = "idle"
  /\ UNCHANGED <<state, enabled, ghosts>>

\* The accepted message is acknowledged by a second save.
Acknowledge ==
  /\ pc = "acknowledge"
  /\ state' = Acknowledged(state)
  /\ pc' = "idle"
  /\ UNCHANGED <<enabled, ghosts>>

\* SIGTERM, a hard stop, or a storage error, between two steps.
Interrupt ==
  /\ pc # "down"
  /\ pc' = "down"
  /\ cut' = (cut \/ pc = "acknowledge")
  /\ UNCHANGED <<state, enabled, streak, told, muted>>

\* The process ends after the service took the message, before send returned.
InterruptedSend ==
  /\ pc = "send"
  /\ Tell
  /\ cut' = TRUE
  /\ pc' = "down"
  /\ UNCHANGED <<state, enabled, streak, muted>>

\* A fresh process on the same database, its options possibly changed.
Restart ==
  /\ pc = "down"
  /\ pc' = "idle"
  /\ enabled' \in BOOLEAN
  /\ UNCHANGED <<state, ghosts>>

Next ==
  \/ StartCycle
  \/ \E now \in Clock, delivered \in BOOLEAN :
       \/ \E kind \in FailureKind \cup {NoKind} : Check(now, kind, delivered)
       \/ ClockStepsBack(now, delivered)
  \/ Suppress \/ SendAccepted \/ SendRejected \/ Acknowledge
  \/ Interrupt \/ InterruptedSend \/ Restart

Spec == Init /\ [][Next]_vars

\* The process is started again, an interruption does not hit every cycle, the
\* clock catches up with the last check, and a message that is tried again and
\* again is accepted some time.
Fairness ==
  /\ WF_vars(Restart)
  /\ SF_vars(StartCycle)
  /\ SF_vars(\E now \in Clock, delivered \in BOOLEAN,
                kind \in FailureKind \cup {NoKind} : Check(now, kind, delivered))
  /\ SF_vars(SendAccepted)
  /\ SF_vars(Suppress)

LiveSpec == Spec /\ Fairness

-------------------------------------------------------------------------------
(* Properties.                                                             *)

TypeOK ==
  /\ state \in OperationalState
  /\ pc \in PCs
  /\ enabled \in BOOLEAN
  /\ streak \in 0..MaxStreak
  /\ told \in BOOLEAN
  /\ cut \in BOOLEAN
  /\ muted \in BOOLEAN

\* What OperationalState.__post_init__ demands of a state's health fields.
ValidHealth(s) ==
  /\ s.status = "ok" => s.kind = NoKind /\ s.count = 0
  /\ s.status # "ok" => /\ s.kind # NoKind
                        /\ s.count > 0
                        /\ s.started # NoTime
                        /\ s.checked # NoTime
  /\ s.status = "degraded" => ~s.notified /\ s.pending = "none"
  /\ s.pending = "failure" => s.status = "failed" /\ ~s.notified
  /\ s.pending = "recovery" => /\ s.status = "ok"
                               /\ s.notified
                               /\ s.started # NoTime
                               /\ s.recovered # NoTime
  /\ s.status = "ok" /\ (s.started # NoTime \/ s.notified) =>
       s.pending = "recovery"

\* And of its timestamps.
ValidChronology(s) ==
  \A time \in {s.started, s.recovered} :
    time # NoTime /\ s.checked # NoTime => time <= s.checked

\* Every state the engine builds from a stored one passes the validation of its
\* own constructor, and a digest delivery never outruns the last check.  A state
\* that did not would end the process with a ValueError in every later cycle.
StateAccepted ==
  /\ ValidHealth(state)
  /\ ValidChronology(state)
  /\ state.digest # NoTime => state.checked # NoTime /\ state.digest <= state.checked

\* The bookkeeping of one incident, inductive with TypeOK and StateAccepted: the
\* stored count is the streak of failed checks, the status follows from it, and
\* what is pending, acknowledged or cleared is what happened to the message.
IncidentBooks ==
  /\ state.checked = NoTime => state.started = NoTime /\ state.recovered = NoTime
  /\ state.count = streak
  /\ state.status = "failed" <=> streak >= FailureThreshold
  /\ state.status = "degraded" => ~told
  /\ pc \in {"send", "acknowledge", "suppress"} => state.pending # "none"
  /\ pc = "acknowledge" /\ state.pending = "failure" => told
  /\ state.notified => told
  /\ told /\ state.pending = "failure" => cut \/ pc = "acknowledge"
  /\ state.status = "failed" =>
       state.pending = "failure" \/ state.notified \/ muted

\* The failure message of one incident is sent again after an accepted call only
\* if an interruption hid that call's success from the program (ADR-0031).
FailureToldOnce ==
  pc = "send" /\ state.pending = "failure" /\ told => cut

\* A recovery is announced only for an incident whose failure message was
\* accepted, and the stored acknowledgement of an incident is never a claim
\* about a message that was rejected or cleared.
RecoveryOnlyAfterFailure ==
  /\ state.notified => told
  /\ state.pending = "recovery" => told

\* A sustained failure is never silent: as long as it lasts, its message is
\* stored as pending, was accepted, or was cleared because the option is off -
\* whatever rejections, interruptions, restarts and changes of the cause came
\* in between.
SustainedFailureNotSilent ==
  streak >= FailureThreshold => state.pending = "failure" \/ told \/ muted

\* As long as no new failure starts, a pending recovery leaves the stored state
\* only when it was accepted or cleared by the option: ADR-0031:63 and the
\* docstring of OperationalMonitoringWorkflow.
PendingRecoveryRetried ==
  [][state.pending = "recovery" /\ state'.pending # "recovery" /\ state'.kind = NoKind
       => Acknowledge \/ Suppress]_vars

\* If cycles keep coming, a pending failure message is accepted in the end,
\* unless the failure ends or the option is switched off first.
PendingFailureSettled ==
  state.pending = "failure" ~> told \/ muted \/ state.status # "failed"
===============================================================================
