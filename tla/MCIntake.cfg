SPECIFICATION FairSpec
CONSTANTS
  Base = 3
  Limit = 3
  Requests = {r1}
  k1 = k1
  Clients = {k1}
  Lawyers = {l1}
  Requester <- MCRequester
  Calls = {a, b}
  MaxNumberAttempts = 3
  None = None
INVARIANTS TypeOK OneCasePerRequest NumbersHaveNoGaps NoticesMatchDecisions
PROPERTIES CallsFinish KeepsThePromise
