\* Three references in batches of two, a clock that may step back.
SPECIFICATION Spec
CONSTANTS
  References = {r1, r2, r3}
  BatchSize = 2
  DiscoveryInterval = 2
  MaxClock = 5
INVARIANTS NoneOvertaken
PROPERTIES TimesNeverDecrease ImplementsRefreshQueue
