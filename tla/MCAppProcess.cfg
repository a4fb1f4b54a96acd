\* Two cycles of two references in either mode, a discovery in every other cycle.
SPECIFICATION Spec
CONSTANTS
  References = {r1, r2}
  DiscoveryInterval = 2
  MaxCycles = 2
SYMMETRY ReferenceSymmetry
INVARIANTS NoHalfCycle StorageWarningStands EntitiesAgree SummariesAreLast HealthTellsFailures ExitTellsFailures
