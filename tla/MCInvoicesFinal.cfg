SPECIFICATION Spec
CONSTANTS
  Invoices = {i1}
  Calls = {a, b}
  Sweeps = {w}
  MaxReports = 1
  None = None
PROPERTY PaidIsFinal
