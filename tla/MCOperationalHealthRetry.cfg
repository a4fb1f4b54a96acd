\* ADR-0031:63: a message whose delivery failed stays pending for retry.
SPECIFICATION Spec
CONSTANTS
  FailureKind = {k1}
  NoKind = NoKind
  NoTime = NoTime
  FailureThreshold = 3
  MaxStreak = 4
  MaxClock = 1
PROPERTIES PendingRecoveryRetried
