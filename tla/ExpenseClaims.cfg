\* Three scenarios: one session with many values, two with few.
SPECIFICATION Spec
CONSTANTS
  w1 = w1
  w2 = w2
  i1 = i1
  i2 = i2
  manager = manager
  director = director
  Workers <- TwoSessions
  ItemIds <- TwoItems
  Approvers <- TwoApprovers
  Limit <- ManagerLimited
  Scenarios <- MCScenarios
  MaxRounds = 2
  Idle = Idle
  NULL = NULL
INVARIANTS
  ApprovedMatchesItems
  PendingHasApprover
  PaidOnce
\* A claim that is paid, cancelled or deleted is left alone.
CHECK_DEADLOCK FALSE
