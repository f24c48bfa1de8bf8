\* Two sessions reverse the same journal.
SPECIFICATION Spec
CONSTANTS
  Workers = {w1, w2}
  Idle = Idle
  None = None
  Deleted = Deleted
  cash = cash
  fees = fees
  jan = jan
  adj = adj
  Accounts <- MCAccounts
  PostingAllowed <- MCAccounts
  Dates <- OneDate
  Periods <- OnePeriod
  PeriodInfo <- OnePeriodInfo
  MaxSessions = 0
  Journals = {j1, j2, j3}
  Users = {ann}
  Inputs <- PlainInput
  AllowAdjustment = {FALSE}
  RequireSoD = FALSE
INVARIANTS
  ReversedAtMostOnce
SYMMETRY RacingSymmetry
\* Every worker may be idle and every journal used up.
CHECK_DEADLOCK FALSE
