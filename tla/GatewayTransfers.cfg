\* Four scenarios: many intents, one transfer, two of them, two sessions.
SPECIFICATION Spec
CONSTANTS
  w1 = w1
  w2 = w2
  Workers <- TwoSessions
  Scenarios <- MCScenarios
  Idle = Idle
  NULL = NULL
INVARIANTS
  PaidOnce
  CompletedWasSent
  PaidIsBacked
  BooksMatchTransfers
