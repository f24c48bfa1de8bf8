\* Three sessions, every reset frequency, two years of two months.
SPECIFICATION NumberingSpec
CONSTANTS
  Workers = {s1, s2, s3}
  Idle = Idle
  None = None
  Frequencies <- AllFrequencies
  MonthsPerYear = 2
  LastMonth = 2
  MaxNumber = 3
INVARIANTS
  FreshNumbers
  Gapless
SYMMETRY Symmetry
\* Every number of the bound may be used up.
CHECK_DEADLOCK FALSE
