\* Two products in one batch, two currencies, a price drop at both thresholds.
SPECIFICATION Spec
CONSTANTS
  p1 = p1
  p2 = p2
  Product <- TwoProducts
  Currency = {"CZK", "EUR"}
  Amount = {8, 10}
  ProviderOriginal = {}
  NoMoney = NoMoney
  NoSnapshot = NoSnapshot
  NoAlert = NoAlert
  Percentage = 20
  FixedAmount = 2
  RuleTuples <- CatalogRules
  MaxBatch = 2
  MaxHistory = 2
  MaxRejected = 1
SYMMETRY ProductSymmetry
INVARIANTS AtMostOneAlert SilencedOnlyByInterruption
PROPERTIES RestockStoredOnlyAnnounced DropStoredOnlyReserved ImplementsReservedDelivery
