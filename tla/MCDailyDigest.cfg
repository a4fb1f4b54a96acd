\* Two products on two dates of two ticks, due from the second tick on.
SPECIFICATION LiveSpec
CONSTANTS
  Product = {p1, p2}
  TicksPerDay = 2
  DeliveryTick = 1
  FreshFor = 0
  Limit = 1
  NoSnapshot = NoSnapshot
  NoDigest = NoDigest
  MaxClock = 3
  MaxRejected = 1
INVARIANTS BaselineWasDelivered NewnessWithoutInterruption FreshOrTried
PROPERTIES ImplementsReservedDelivery DueDigestSettled
