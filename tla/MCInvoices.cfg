SPECIFICATION FairSpec
CONSTANTS
  Invoices = {i1}
  Calls = {a, b}
  Sweeps = {w}
  MaxReports = 2
  None = None
INVARIANTS TypeOK DatesMatchStatus OneDecisionPerReport
PROPERTIES OnlyStaleEditsBreakTheTable OverdueIsNoticed
