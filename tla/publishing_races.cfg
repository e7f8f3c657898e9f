SPECIFICATION Spec
CONSTANTS
  i1 = i1  i2 = i2  a1 = a1  a2 = a2  clientA = clientA  clientB = clientB
  Item = {i1}
  Account = {a1, a2}
  Caption = {c1}
  NoCopy = NoCopy
  Config <- NoRules
  Request = {r1}
  ClientOf <- TwoClients
  Target <- ToA2
  NoAccount = NoAccount
  ScheduledAt <- Early
  Tick = {t1, t2}
  TickLimit = 1
  Worker = {w1}
  Row = {p1, p2}
  NoRow = NoRow
  MaxAttempts = 1
  MaxStalls = 1
  MaxTime = 0
  MaxFaults = 1
  MayEvict = FALSE
SYMMETRY Interchangeable
INVARIANTS
  PostedOncePerAccount
  PostsStayWithClient
PROPERTY HumanGateHolds
