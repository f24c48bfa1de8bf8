\* Two workers, two postings of one balance, a crash.
SPECIFICATION CacheSpec
CONSTANTS
  Workers = {w1, w2}
  Idle = Idle
  b1 = b1
  b2 = b2
  cash = cash
  Batches <- TwoBatches
  BalanceKeys <- OneKey
  Touches <- MCTouches
  MAX_RETRY_COUNT = 2
  MaxCrashes = 1
INVARIANTS
  NoStrandedEvent
PROPERTIES
  ConvergesToLedger
  EventsSettle
