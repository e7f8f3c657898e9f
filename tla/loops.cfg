SPECIFICATION LoopsSpec
CONSTANTS
  clientA = clientA  agencyA = agencyA  agencyB = agencyB
  Client = {clientA, clientB, clientC}
  Agency = {agencyA, agencyB}
  AgencyOf <- Owned
  Address = {m1, m2}
  NoAddress = NoAddress
  Hook = {h1, h2}
  Subscription = {{"metric.snapshot", "publish.failed"}}
  Muting = {{}, {"metric_milestone"}}
  MaxEdits = 1
  Topic = {t1, t2}
  Runner = {w1, w2}
  NoRunner = NoRunner
  MaxTriggers = 1
  MaxAttempts = 2
  MaxStalls = 1
INVARIANTS LoopsTypeOK SweepsKeepTheirRows EventsReachWhoAsked ReportsArrive
PROPERTIES QueuedJobsEnd
CHECK_DEADLOCK FALSE
