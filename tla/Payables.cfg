\* Two scenarios: one session with two bills, two sessions with one.
SPECIFICATION Spec
CONSTANTS
  w1 = w1
  w2 = w2
  i1 = i1
  i2 = i2
  p1 = p1
  p2 = p2
  Workers <- TwoSessions
  Bills <- TwoBills
  Payments <- TwoPayments
  Total = 2
  Refusable <- Everything
  CashVat = TRUE
  Scenarios <- MCScenarios
  Idle = Idle
  NULL = NULL
INVARIANTS
  PaidMatchesPayments
  BillLedger
  EffectiveIsInLedger
  CompletedIsSent
\* Everything may be paid, void or deleted.
CHECK_DEADLOCK FALSE
