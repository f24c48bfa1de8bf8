\* Three invoices, any of which are refused, and two unbalanced journals.
SPECIFICATION RepairsSpec
CONSTANTS
  Invoices = {i1, i2, i3}
  Journals = {j1, j2}
  NoTask = NoTask
INVARIANTS
  PostedIsInLedger
  ReportIsBound
