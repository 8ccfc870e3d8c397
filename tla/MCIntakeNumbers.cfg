SPECIFICATION Spec
CONSTANTS
  Base = 3
  Limit = 3
  Requests = {r1}
  k1 = k1
  Clients = {k1}
  Lawyers = {l1}
  Requester <- MCRequester
  Calls = {a, b}
  MaxNumberAttempts = 3
  None = None
INVARIANT NextNumberIsFree
