\* One session at a time: two users, two overlapping periods.
SPECIFICATION Spec
CONSTANTS
  Workers = {w1}
  Idle = Idle
  None = None
  Deleted = Deleted
  cash = cash
  fees = fees
  jan = jan
  adj = adj
  Accounts <- MCAccounts
  PostingAllowed <- MCAccounts
  Dates <- MCDates
  Periods <- MCPeriods
  PeriodInfo <- MCPeriodInfo
  MaxSessions = 1
  Journals = {j1, j2}
  Users = {ann, bob}
  Inputs <- SerialInputs
  AllowAdjustment = {TRUE, FALSE}
  RequireSoD = TRUE
INVARIANTS
  PostedInCoveringPeriod
  LedgerMatchesJournals
  FourEyes
  ReversedNetsToZero
PROPERTIES
  NoPostingToClosedPeriod
SYMMETRY SerialSymmetry
\* Every worker may be idle and every journal used up.
CHECK_DEADLOCK FALSE
