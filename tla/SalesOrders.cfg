\* Four scenarios: two orders, an order of two lines, two sessions, a deadline.
SPECIFICATION FairSpec
CONSTANTS
  w1 = w1
  w2 = w2
  o1 = o1
  o2 = o2
  Workers <- TwoSessions
  Orders <- TwoOrders
  Lines <- TwoLines
  Ordered = 2
  AllowPartial = TRUE
  Scenarios <- MCScenarios
  Idle = Idle
INVARIANTS
  ShippedMatchesShipments
  AllocationCoversPromises
  StatusMatchesShipped
PROPERTIES
  ExpiredIsReleased
\* An order that is cancelled or shipped, with no stock to move, is left alone.
CHECK_DEADLOCK FALSE
