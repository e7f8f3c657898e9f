SPECIFICATION FairSpec
CONSTANTS
  i1 = i1  i2 = i2  a1 = a1  a2 = a2  clientA = clientA  clientB = clientB
  Item = {i1, i2}
  Account = {a1}
  Caption = {}
  NoCopy = NoCopy
  Config <- NoRules
  Request = {r1}
  ClientOf <- OneClient
  Target <- ToA1
  NoAccount = NoAccount
  ScheduledAt <- OneByOne
  Tick = {t1}
  TickLimit = 1
  Worker = {w1}
  Row = {p1}
  NoRow = NoRow
  MaxAttempts = 1
  MaxStalls = 1
  MaxTime = 1
  MaxFaults = 0
  MayEvict = TRUE

PROPERTY FirstDueIsClaimed
