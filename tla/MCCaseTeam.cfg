SPECIFICATION Spec
CONSTANTS
  Staff = {u1, u2, u3}
  OpenStatuses = {s1, s2}
  Calls = {a, b}
  None = None
SYMMETRY MCSymmetry
INVARIANTS TypeOK TimelineTellsStatus
PROPERTIES OnlyOvertakenCallsBreakTheCase
