SPECIFICATION FairSpec
CONSTANTS
  Requests = {r1}
  Files = {f1, f2}
  Calls = {a, b}
  None = None
INVARIANTS TypeOK RowsAndObjectsAgree ReviewTellsStatus
PROPERTIES OnlyRemovalTakesTheFile OnlyOvertakenCallsPassTheClient DiscardedFilesGo KeepsThePromise
