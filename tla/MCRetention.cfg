\* Two products in two currencies observed four times, a clock that may step back.
SPECIFICATION Spec
CONSTANTS
  Products = {p1, p2}
  Currencies = {czk, eur}
  Prices = {1, 2}
  MaxSeq = 4
  MaxTime = 2
  RetentionDays = 1
SYMMETRY ContextSymmetry
INVARIANTS AnswersUnchanged NothingLost AppliedAsReviewed
