SPECIFICATION Spec
CONSTANTS
  Tasks = {t}
  Staff = {ann, bob, adm}
  Admins = {adm}
  Team = {ann, bob}
  Files = {f1, f2}
  Calls = {a, b}
  None = None
INVARIANTS TypeOK TheAssigneeKnows AttachmentsAgree
PROPERTY OnlyOvertakenCallsBreakTheTask
SYMMETRY MCSymmetry
