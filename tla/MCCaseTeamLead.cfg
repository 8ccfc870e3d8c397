SPECIFICATION Spec
CONSTANTS
  Staff = {u1, u2, u3}
  OpenStatuses = {s1}
  Calls = {a, b}
  None = None
INVARIANT LeadIsLawyer
