\* Two weeks and the beginning of a third, two causes, four checks.
SPECIFICATION LiveSpec
CONSTANTS
  FailureKind = {k1, k2}
  NoKind = NoKind
  NoTime = NoTime
  NoBucket = NoBucket
  NoCheck = NoCheck
  TicksPerWeek = 2
  DeliveryTick = 1
  MaxClock = 4
  MaxChecks = 4
  MaxRejected = 1
INVARIANTS BucketsCountChecks
PROPERTIES MarkedBucketFinal ImplementsReservedDelivery WeekSettled
