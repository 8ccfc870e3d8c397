SPECIFICATION MCSpec
CONSTANTS
  TaskRows = {t}
  InvoiceRows = {i}
  RequestRows = {q}
  Runs = {r1, r2}
  TicksPerDay = 2
  MaxClock = 4
  Due <- MCDue
  StaffOf <- MCStaffOf
  Letters <- MCLetters
  MaxTries = 3
  IssueCalls = {c1, c2}
  UseCalls = {u1, u2}
  Messages = {m1, m2, m3}
  MaxMarks = 2
  Stories = {s}
  Posts = {p}
  Desks = {d1, d2}
  Keep = Keep
  Scenes = {"day", "mail", "links", "bell", "chat", "stories", "posts", "pages"}
INVARIANTS TypeOK OncePerDay MarksAreTold LogTellsDelivery LinksWorkOnce OnlyOverlappingMessagesRepeat OnlyOvertakenCallsMispublish
PROPERTIES MCLettersEnd ScreensCatchUp
CHECK_DEADLOCK FALSE
