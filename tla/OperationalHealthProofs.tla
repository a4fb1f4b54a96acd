------------------------ MODULE OperationalHealthProofs ------------------------
(***************************************************************************)
(* Theorems of OperationalHealth, for every set of causes, threshold and   *)
(* clock.  StateAccepted and IncidentBooks are inductive with TypeOK; the  *)
(* properties of the messages follow from them state by state.             *)
(***************************************************************************)
EXTENDS OperationalHealth, TLAPS

USE ThresholdAssumption, ClockAssumption, AbsentAssumption
    DEF Clock, Time, Status, Notification

HealthInv == TypeOK /\ StateAccepted /\ IncidentBooks

\* Evaluating a check never leaves the type of a state.
LEMMA EvaluateType ==
  ASSUME NEW s \in OperationalState, NEW now \in Clock,
         NEW kind \in FailureKind \cup {NoKind}
  PROVE  Evaluate(s, now, kind) \in OperationalState
<1>1. HealthyState(s, now) \in OperationalState
  BY DEF HealthyState, OperationalState
<1>2. ASSUME kind # NoKind
      PROVE  FailedState(s, now, kind) \in OperationalState
  BY <1>2 DEF FailedState, OperationalState, NextCount
<1>3. QED
  BY <1>1, <1>2 DEF Evaluate

\* A chronological check turns an accepted state into an accepted state.
LEMMA EvaluateAccepted ==
  ASSUME NEW s \in OperationalState, NEW now \in Clock,
         NEW kind \in FailureKind \cup {NoKind},
         ValidHealth(s), ValidChronology(s), NotBefore(now, s.checked),
         s.checked = NoTime => s.started = NoTime /\ s.recovered = NoTime
  PROVE  /\ ValidHealth(Evaluate(s, now, kind))
         /\ ValidChronology(Evaluate(s, now, kind))
         /\ Evaluate(s, now, kind).checked = now
         /\ Evaluate(s, now, kind).digest = s.digest
<1>1. CASE kind = NoKind
  <2> DEFINE h == HealthyState(s, now)
  <2>1. Evaluate(s, now, kind) = h
    BY <1>1 DEF Evaluate
  <2>2. /\ h.status = "ok" /\ h.kind = NoKind /\ h.count = 0
        /\ h.checked = now /\ h.digest = s.digest
        /\ h.pending = IF h.notified THEN "recovery" ELSE "none"
        /\ h.notified = (s.status = "failed" /\ s.notified)
        /\ h.started = IF h.notified THEN s.started ELSE NoTime
        /\ h.recovered = IF s.status # "ok" THEN now ELSE s.recovered
    BY DEF HealthyState, OperationalState
  <2> HIDE DEF h
  <2>3. ValidHealth(h)
    BY <2>2 DEF ValidHealth, OperationalState
  <2>4. ValidChronology(h)
    BY <2>2 DEF ValidChronology, OperationalState, NotBefore
  <2>5. QED
    BY <2>1, <2>2, <2>3, <2>4
<1>2. CASE kind # NoKind
  <2> DEFINE f == FailedState(s, now, kind)
  <2>1. Evaluate(s, now, kind) = f
    BY <1>2 DEF Evaluate
  <2>2. /\ f.status \in {"degraded", "failed"}
        /\ f.kind = kind /\ f.count \in Nat \ {0}
        /\ f.checked = now /\ f.digest = s.digest /\ f.recovered = s.recovered
        /\ f.started = IF s.status # "ok" THEN s.started ELSE now
    BY DEF FailedState, OperationalState, NextCount
  <2>3. /\ f.status = "degraded" => ~f.notified /\ f.pending = "none"
        /\ f.notified => s.notified /\ s.status = "failed" /\ f.pending = s.pending
        /\ f.pending = "failure" => f.status = "failed" /\ ~f.notified
        /\ f.pending # "recovery"
    BY DEF FailedState, OperationalState, ValidHealth
  <2> HIDE DEF f
  <2>4. ValidHealth(f)
    BY <1>2, <2>2, <2>3 DEF ValidHealth, OperationalState
  <2>5. ValidChronology(f)
    BY <2>2 DEF ValidChronology, OperationalState, NotBefore
  <2>6. QED
    BY <2>1, <2>2, <2>4, <2>5
<1>3. QED
  BY <1>1, <1>2

\* Acknowledging and clearing keep a state's type and what is demanded of it.
LEMMA MessageDone ==
  ASSUME NEW s \in OperationalState, ValidHealth(s), ValidChronology(s),
         s.pending # "none",
         NEW t \in {Acknowledged(s), Suppressed(s)}
  PROVE  /\ t \in OperationalState
         /\ ValidHealth(t) /\ ValidChronology(t)
         /\ t.checked = s.checked /\ t.digest = s.digest
         /\ t.count = s.count /\ t.status = s.status
         /\ t.recovered = s.recovered /\ t.started \in {s.started, NoTime}
         /\ t.pending = "none"
         /\ t.notified => s.pending = "failure"
<1>1. CASE s.pending = "failure"
  <2>1. PICK n \in BOOLEAN : t = [s EXCEPT !.notified = n, !.pending = "none"]
    BY <1>1 DEF Acknowledged, Suppressed
  <2>2. /\ t \in OperationalState
        /\ t.status = s.status /\ t.kind = s.kind /\ t.count = s.count
        /\ t.started = s.started /\ t.checked = s.checked
        /\ t.recovered = s.recovered /\ t.pending = "none" /\ t.digest = s.digest
    BY <2>1 DEF OperationalState
  <2>3. QED
    BY <1>1, <2>2 DEF OperationalState, ValidHealth, ValidChronology
<1>2. CASE s.pending = "recovery"
  <2>1. t = [s EXCEPT !.started = NoTime, !.notified = FALSE, !.pending = "none"]
    BY <1>2 DEF Acknowledged, Suppressed
  <2>2. QED
    BY <1>2, <2>1 DEF OperationalState, ValidHealth, ValidChronology
<1>3. QED
  BY <1>1, <1>2 DEF OperationalState

LEMMA InitHealth == Init => HealthInv
<1> SUFFICES ASSUME Init PROVE HealthInv
  OBVIOUS
<1>1. /\ state.status = "ok" /\ state.kind = NoKind /\ state.count = 0
      /\ state.started = NoTime /\ state.checked = NoTime
      /\ state.recovered = NoTime /\ ~state.notified
      /\ state.pending = "none" /\ state.digest = NoTime
  BY DEF Init, InitialState
<1>2. TypeOK
  <2>1. state \in OperationalState
    BY DEF Init, InitialState, OperationalState
  <2>2. streak \in 0..MaxStreak
    BY DEF Init
  <2>3. told \in BOOLEAN /\ cut \in BOOLEAN /\ muted \in BOOLEAN
    BY DEF Init
  <2>4. QED
    BY <2>1, <2>2, <2>3 DEF Init, TypeOK, PCs
<1>3. StateAccepted
  BY <1>1 DEF StateAccepted, ValidHealth, ValidChronology
<1>4. IncidentBooks
  BY <1>1 DEF Init, IncidentBooks
<1>5. QED
  BY <1>2, <1>3, <1>4 DEF HealthInv

LEMMA CheckHealth ==
  ASSUME HealthInv, NEW now \in Clock, NEW kind \in FailureKind \cup {NoKind},
         NEW delivered \in BOOLEAN, Check(now, kind, delivered)
  PROVE  HealthInv'
<1> DEFINE base == IF delivered THEN [state EXCEPT !.digest = now] ELSE state
<1> USE DEF HealthInv
<1>1. /\ base \in OperationalState
      /\ ValidHealth(base) /\ ValidChronology(base)
      /\ NotBefore(now, base.checked)
      /\ base.checked = NoTime => base.started = NoTime /\ base.recovered = NoTime
      /\ base.status = state.status /\ base.count = state.count
      /\ base.pending = state.pending /\ base.notified = state.notified
      /\ base.digest # NoTime => base.digest <= now
  BY DEF Check, Chronological, NotBefore, TypeOK, StateAccepted, IncidentBooks,
         OperationalState, ValidHealth, ValidChronology
<1>2. state' = Evaluate(base, now, kind)
  BY DEF Check
<1> HIDE DEF base
<1>3. state' \in OperationalState
  BY <1>1, <1>2, EvaluateType
<1>4. StateAccepted'
  <2>1. ValidHealth(state') /\ ValidChronology(state')
        /\ state'.checked = now /\ state'.digest = base.digest
    BY <1>1, <1>2, EvaluateAccepted
  <2>2. QED
    BY <1>1, <2>1 DEF StateAccepted
<1>5. pc' \in PCs /\ enabled' \in BOOLEAN
  BY DEF Check, PCs, TypeOK
<1>6. streak' \in 0..MaxStreak
  BY DEF Check, TypeOK, NextCount
<1>7. told' \in BOOLEAN /\ cut' \in BOOLEAN /\ muted' \in BOOLEAN
  BY DEF Check, TypeOK
<1>8. pc' # "acknowledge"
      /\ (pc' \in {"send", "acknowledge", "suppress"} => state'.pending # "none")
  BY DEF Check
<1>9. state'.checked # NoTime
  <2>1. state'.checked = now
    BY <1>1, <1>2, EvaluateAccepted
  <2>2. QED
    BY <2>1
<1>10. state.status # "ok" <=> streak > 0
  BY DEF TypeOK, OperationalState, StateAccepted, ValidHealth, IncidentBooks
<1>11. CASE kind = NoKind
  <2>1. /\ state'.status = "ok" /\ state'.count = 0
        /\ state'.pending \in {"none", "recovery"}
        /\ state'.notified => state.notified
    BY <1>1, <1>2, <1>11 DEF Evaluate, HealthyState
  <2>2. streak' = 0 /\ told' = told /\ cut' = cut /\ muted' = muted
    BY <1>11 DEF Check
  <2>3. IncidentBooks'
    BY <1>8, <1>9, <2>1, <2>2 DEF IncidentBooks
  <2>4. QED
    BY <1>3, <1>4, <1>5, <1>6, <1>7, <2>3 DEF TypeOK
<1>12. CASE kind # NoKind
  <2>1. /\ state'.count = NextCount(streak)
        /\ state'.status = IF NextCount(streak) >= FailureThreshold
                             THEN "failed" ELSE "degraded"
    BY <1>1, <1>2, <1>10, <1>12
       DEF Evaluate, FailedState, NextCount, IncidentBooks, TypeOK
  <2>2. streak' = NextCount(streak)
    BY <1>12 DEF Check
  <2>3. CASE state.status = "ok"
    <3>1. told' = FALSE
      BY <1>10, <1>12, <2>3 DEF Check, TypeOK
    <3>2. ~state'.notified /\ (state'.status = "failed" => state'.pending = "failure")
      BY <1>1, <1>2, <1>12, <2>3 DEF Evaluate, FailedState
    <3>3. IncidentBooks'
      BY <1>8, <1>9, <2>1, <2>2, <3>1, <3>2 DEF IncidentBooks, TypeOK, NextCount
    <3>4. QED
      BY <1>3, <1>4, <1>5, <1>6, <1>7, <3>3 DEF TypeOK
  <2>4. CASE state.status = "degraded"
    <3>1. told' = told /\ ~told
      BY <1>10, <1>12, <2>4 DEF Check, IncidentBooks
    <3>2. ~state'.notified /\ (state'.status = "failed" => state'.pending = "failure")
      BY <1>1, <1>2, <1>12, <2>4 DEF Evaluate, FailedState
    <3>3. IncidentBooks'
      BY <1>8, <1>9, <2>1, <2>2, <3>1, <3>2 DEF IncidentBooks, TypeOK, NextCount
    <3>4. QED
      BY <1>3, <1>4, <1>5, <1>6, <1>7, <3>3 DEF TypeOK
  <2>5. CASE state.status = "failed"
    <3>1. told' = told /\ cut' = cut /\ muted' = muted
      BY <1>10, <1>12, <2>5 DEF Check
    <3>2. state'.status = "failed"
      BY <2>1, <2>5 DEF IncidentBooks, TypeOK, NextCount
    <3>3. state'.pending = state.pending /\ (state'.notified <=> state.notified)
      BY <1>1, <1>2, <1>12, <2>5, <3>2 DEF Evaluate, FailedState
    <3>4. pc # "acknowledge"
      BY DEF Check
    <3>5. IncidentBooks'
      BY <1>8, <1>9, <2>1, <2>2, <2>5, <3>1, <3>2, <3>3, <3>4
         DEF IncidentBooks, TypeOK, NextCount
    <3>6. QED
      BY <1>3, <1>4, <1>5, <1>6, <1>7, <3>5 DEF TypeOK
  <2>6. QED
    BY <2>3, <2>4, <2>5 DEF TypeOK, OperationalState
<1>13. QED
  BY <1>11, <1>12

\* Steps that only hand a message over, or that end or start the process.
LEMMA MessageHealth ==
  ASSUME HealthInv, StartCycle \/ SendAccepted \/ SendRejected \/ Interrupt
                    \/ InterruptedSend \/ Restart
                    \/ (\E now \in Clock, delivered \in BOOLEAN :
                          ClockStepsBack(now, delivered))
  PROVE  HealthInv'
<1> USE DEF HealthInv
<1>1. state' = state /\ streak' = streak /\ muted' = muted
  BY DEF StartCycle, SendAccepted, SendRejected, Interrupt, InterruptedSend, Restart,
         ClockStepsBack, ghosts
<1>2. pc' \in PCs /\ enabled' \in BOOLEAN
  BY DEF StartCycle, SendAccepted, SendRejected, Interrupt, InterruptedSend, Restart,
         ClockStepsBack, TypeOK, PCs
<1>3. told' \in BOOLEAN /\ cut' \in BOOLEAN
  BY DEF StartCycle, SendAccepted, SendRejected, Interrupt, InterruptedSend, Restart,
         ClockStepsBack, TypeOK, Tell, ghosts
<1>4. TypeOK' /\ StateAccepted'
  BY <1>1, <1>2, <1>3 DEF TypeOK, StateAccepted
<1>5. IncidentBooks'
  <2>1. CASE SendAccepted
    <3>1. /\ pc = "send" /\ pc' = "acknowledge" /\ cut' = cut
          /\ told' <=> told \/ state.pending = "failure"
      BY <2>1 DEF SendAccepted, Tell
    <3>2. state.status = "degraded" => state.pending = "none"
      BY DEF StateAccepted, ValidHealth
    <3>3. QED
      BY <1>1, <3>1, <3>2 DEF IncidentBooks
  <2>2. CASE SendRejected
    BY <1>1, <2>2 DEF SendRejected, IncidentBooks, ghosts
  <2>3. CASE Interrupt
    <3>1. pc' = "down" /\ told' = told /\ (cut' <=> cut \/ pc = "acknowledge")
      BY <2>3 DEF Interrupt
    <3>2. QED
      BY <1>1, <3>1 DEF IncidentBooks
  <2>4. CASE InterruptedSend
    <3>1. /\ pc = "send" /\ pc' = "down" /\ cut' = TRUE
          /\ told' <=> told \/ state.pending = "failure"
      BY <2>4 DEF InterruptedSend, Tell
    <3>2. state.status = "degraded" => state.pending = "none"
      BY DEF StateAccepted, ValidHealth
    <3>3. QED
      BY <1>1, <3>1, <3>2 DEF IncidentBooks
  <2>5. CASE Restart
    BY <1>1, <2>5 DEF Restart, IncidentBooks, ghosts
  <2>6. CASE \E now \in Clock, delivered \in BOOLEAN : ClockStepsBack(now, delivered)
    BY <1>1, <2>6 DEF ClockStepsBack, IncidentBooks, ghosts
  <2>7. CASE StartCycle
    BY <1>1, <2>7 DEF StartCycle, IncidentBooks, ghosts
  <2>8. QED
    BY <2>1, <2>2, <2>3, <2>4, <2>5, <2>6, <2>7
<1>6. QED
  BY <1>4, <1>5

\* The second save of a cycle.
LEMMA DoneHealth ==
  ASSUME HealthInv, Acknowledge \/ Suppress
  PROVE  HealthInv'
<1> USE DEF HealthInv
<1>1. /\ state' \in {Acknowledged(state), Suppressed(state)}
      /\ pc' = "idle" /\ enabled' = enabled
      /\ streak' = streak /\ told' = told /\ cut' = cut
      /\ pc = "acknowledge" \/ muted' = TRUE
      /\ pc = "acknowledge" => state' = Acknowledged(state) /\ muted' = muted
      /\ pc \in {"acknowledge", "suppress"}
  BY DEF Acknowledge, Suppress, ghosts
<1>2. /\ state' \in OperationalState
      /\ ValidHealth(state') /\ ValidChronology(state')
      /\ state'.checked = state.checked /\ state'.digest = state.digest
      /\ state'.count = state.count /\ state'.status = state.status
      /\ state'.recovered = state.recovered
      /\ state'.started \in {state.started, NoTime}
      /\ state'.pending = "none"
      /\ state'.notified => state.pending = "failure"
  BY <1>1, MessageDone DEF TypeOK, StateAccepted, IncidentBooks
<1>3. muted' \in BOOLEAN
  BY <1>1 DEF TypeOK
<1>4. TypeOK' /\ StateAccepted'
  BY <1>1, <1>2, <1>3 DEF TypeOK, StateAccepted, PCs
<1>5. state'.notified => told
  <2>1. CASE pc = "acknowledge"
    BY <1>2, <2>1 DEF IncidentBooks
  <2>2. CASE pc = "suppress"
    <3>1. state' = Suppressed(state) /\ state.pending # "none"
      BY <2>2 DEF Acknowledge, Suppress, IncidentBooks
    <3>2. state'.notified = FALSE
      BY <3>1 DEF Suppressed, TypeOK, OperationalState
    <3>3. QED
      BY <3>2
  <2>3. QED
    BY <1>1, <2>1, <2>2
<1>6. state'.status = "failed" => state'.notified \/ muted'
  <2>1. CASE pc = "acknowledge" /\ state.status = "failed"
    <3>1. state.pending = "failure"
      BY <2>1 DEF IncidentBooks, StateAccepted, ValidHealth, TypeOK, OperationalState,
                  Notification
    <3>2. state'.notified = TRUE
      BY <1>1, <2>1, <3>1 DEF Acknowledged, TypeOK, OperationalState
    <3>3. QED
      BY <3>2
  <2>2. QED
    BY <1>1, <1>2, <2>1
<1>7. IncidentBooks'
  BY <1>1, <1>2, <1>5, <1>6 DEF IncidentBooks
<1>8. QED
  BY <1>4, <1>7

LEMMA HealthInvariant == Spec => []HealthInv
<1>1. HealthInv /\ [Next]_vars => HealthInv'
  <2> SUFFICES ASSUME HealthInv, [Next]_vars PROVE HealthInv'
    OBVIOUS
  <2>1. ASSUME NEW now \in Clock, NEW delivered \in BOOLEAN,
               NEW kind \in FailureKind \cup {NoKind}, Check(now, kind, delivered)
        PROVE  HealthInv'
    BY <2>1, CheckHealth
  <2>2. CASE Acknowledge \/ Suppress
    BY <2>2, DoneHealth
  <2>3. CASE StartCycle \/ SendAccepted \/ SendRejected \/ Interrupt \/ InterruptedSend
          \/ Restart
    BY <2>3, MessageHealth
  <2>4. CASE \E now \in Clock, delivered \in BOOLEAN : ClockStepsBack(now, delivered)
    BY <2>4, MessageHealth
  <2>5. CASE UNCHANGED vars
    BY <2>5 DEF vars, ghosts, HealthInv, TypeOK, StateAccepted, IncidentBooks
  <2>6. QED
    BY <2>1, <2>2, <2>3, <2>4, <2>5 DEF Next
<1>2. QED
  BY <1>1, InitHealth, PTL DEF Spec

\* The type invariant holds for every threshold, set of causes and clock.
THEOREM TypeCorrect == Spec => []TypeOK
<1>1. HealthInv => TypeOK
  BY DEF HealthInv
<1>2. QED
  BY <1>1, HealthInvariant, PTL

\* No sequence of checks, deliveries, interruptions and clock steps makes the
\* engine build a state that OperationalState.__post_init__ rejects.
THEOREM EveryStateAccepted == Spec => []StateAccepted
<1>1. HealthInv => StateAccepted
  BY DEF HealthInv
<1>2. QED
  BY <1>1, HealthInvariant, PTL

\* An accepted failure message is repeated only after an interruption.
THEOREM FailureAnnouncedOnce == Spec => []FailureToldOnce
<1>1. HealthInv => FailureToldOnce
  BY DEF HealthInv, IncidentBooks, FailureToldOnce
<1>2. QED
  BY <1>1, HealthInvariant, PTL

\* Recoveries are announced only for incidents that were announced.
THEOREM RecoveryAfterFailure == Spec => []RecoveryOnlyAfterFailure
<1>1. HealthInv => RecoveryOnlyAfterFailure
  BY DEF HealthInv, IncidentBooks, RecoveryOnlyAfterFailure, StateAccepted, ValidHealth
<1>2. QED
  BY <1>1, HealthInvariant, PTL

\* A sustained failure is announced, or its message is still to be sent, unless
\* the user switched immediate notifications off.
THEOREM NoSilentFailure == Spec => []SustainedFailureNotSilent
<1>1. HealthInv => SustainedFailureNotSilent
  BY DEF HealthInv, IncidentBooks, SustainedFailureNotSilent
<1>2. QED
  BY <1>1, HealthInvariant, PTL

-------------------------------------------------------------------------------
\* The check of a later cycle drops a recovery that is still pending, whatever it
\* finds and with either option (OperationalHealthEngine.evaluate).
RecoveryTriedOnce ==
  [][\A now \in Clock, delivered \in BOOLEAN, kind \in FailureKind \cup {NoKind} :
       state.pending = "recovery" /\ Check(now, kind, delivered)
         => state'.pending # "recovery"]_vars

\* How far PendingRecoveryRetried fails: no pending recovery survives a check, so a
\* recovery message is tried only in the cycle whose check made it.
THEOREM NoRecoveryRetried == Spec => RecoveryTriedOnce
<1> DEFINE Dropped == \A now \in Clock, delivered \in BOOLEAN, kind \in FailureKind \cup {NoKind} :
             state.pending = "recovery" /\ Check(now, kind, delivered)
               => state'.pending # "recovery"
<1>1. ASSUME HealthInv, NEW now \in Clock, NEW delivered \in BOOLEAN,
             NEW kind \in FailureKind \cup {NoKind},
             state.pending = "recovery", Check(now, kind, delivered)
      PROVE  state'.pending # "recovery"
  <2> DEFINE base == IF delivered THEN [state EXCEPT !.digest = now] ELSE state
  <2>1. state \in OperationalState /\ state.status = "ok"
    BY <1>1 DEF HealthInv, TypeOK, StateAccepted, ValidHealth
  <2>2. base.status = "ok"
    BY <2>1 DEF OperationalState
  <2>3. state' = Evaluate(base, now, kind)
    BY <1>1 DEF Check
  <2> HIDE DEF base
  <2>4. HealthyState(base, now).pending = "none"
    BY <2>2 DEF HealthyState
  <2>5. FailedState(base, now, kind).pending \in {"failure", "none"}
    BY <2>2 DEF FailedState
  <2> QED BY <2>3, <2>4, <2>5 DEF Evaluate
<1>2. HealthInv /\ [Next]_vars => [Dropped]_vars
  BY <1>1
<1>3. [][Dropped]_vars => RecoveryTriedOnce
  BY PTL DEF RecoveryTriedOnce
<1>4. QED
  BY <1>2, <1>3, HealthInvariant, PTL DEF Spec

================================================================================
