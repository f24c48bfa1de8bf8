\* Either saga, two executors, two crashes.
SPECIFICATION Spec
CONSTANTS
  Workers = {w1, w2}
  Idle = Idle
  NULL = NULL
  MaxJournals = 3
  MaxTax = 2
  MaxCrashes = 2
  Together <- MCTogether
INVARIANTS
  CompletedIsPosted
  NothingOrphaned
  CompletedStays
PROPERTIES
  SagaEnds
  ImplementsContract
\* A saga that has ended is left alone.
CHECK_DEADLOCK FALSE
