SPECIFICATION Spec
CONSTANTS
  i1 = i1  i2 = i2  a1 = a1  a2 = a2  clientA = clientA  clientB = clientB
  Item = {i1}
  Account = {a1}
  Caption = {c1, c2}
  NoCopy = NoCopy
  Config <- NoRules
  Request = {r1}
  ClientOf <- OneClient
  Target <- ToA1
  NoAccount = NoAccount
  ScheduledAt <- Early
  Tick = {}
  TickLimit = 1
  Worker = {w1}
  Row = {p1, p2, p3}
  NoRow = NoRow
  MaxAttempts = 2
  MaxStalls = 1
  MaxTime = 0
  MaxFaults = 0
  MayEvict = FALSE

INVARIANT PostedWasApproved
