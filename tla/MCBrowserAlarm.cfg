SPECIFICATION MCSpec
CONSTANTS
  t1 = t1
  t2 = t2
  q1 = q1
  q2 = q2
  q3 = q3
  Tabs = {t1, t2}
  Others = {o}
  MaxTokens = 3
  Reqs = {q1, q2, q3}
  TabOf <- MCTabOf
  Cards = {1, 2}
  Moves = {1, 2}
  MaxByOthers = 1
  MaxElsewhere = 1
  All = All
  Filters = {All, f}
  PagesOf <- MCPagesOf
  Scenes = {"tabs"}
PROPERTY TabsNeverAlarm
