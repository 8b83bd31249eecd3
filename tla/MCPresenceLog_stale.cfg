SPECIFICATION LogSpec
CONSTANTS
  a1 = a1
  tab1 = tab1
  tab2 = tab2
  j1 = j1
  j2 = j2
  None = None
  Users = {a1}
  Tabs = {tab1}
  Jobs = {j1, j2}
  MaxNotices = 1
  MaxNow = 0
  MaxRestarts = 0
  MaxLog = 4
CONSTRAINT ShortLog
INVARIANTS LogIsLive
