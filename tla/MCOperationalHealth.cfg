\* Two causes, the threshold of the code, a clock that may step back.
SPECIFICATION LiveSpec
CONSTANTS
  FailureKind = {k1, k2}
  NoKind = NoKind
  NoTime = NoTime
  FailureThreshold = 3
  MaxStreak = 4
  MaxClock = 3
INVARIANTS StateAccepted FailureToldOnce RecoveryOnlyAfterFailure SustainedFailureNotSilent
PROPERTIES PendingFailureSettled
