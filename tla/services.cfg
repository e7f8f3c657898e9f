SPECIFICATION ServicesSpec
CONSTANTS
  clientA = clientA  agencyA = agencyA  agencyB = agencyB  i1 = i1
  Client = {clientA, clientB}
  Agency = {agencyA, agencyB}
  AgencyOf <- Owned
  Item = {i1}
  ClientOf <- OneEach
  Link = {l1}
  Key = {k1}
  Visit = {v1, v2}
  MaxRounds = 2
  MaxFaults = 1
  Customer = {s1, s2}
  Contract = {d1}
  Checkout = {o1, o2}
  NoId = NoId
  OnSale = {"starter"}
  Status = {"active", "past_due", "unpaid", "canceled"}
  Price = {"starter", "other"}
  MaxSent = 3
  Browser = {b1, b2}
  Network = {t1}
  Nonce = {n1, n2}
  NoNonce = NoNonce
  Return = {r1, r2}
  Connected = {x1, x2}
  LimitKey = {y1, y2}
  Limit = 2
  Window = 2
  MaxClock = 5
  MaxCalls = 4
  AiCall = {q1, q2}
  MaxOutages = 2
  Id = {1, 2, 3, 4}
  House = {h1, h2}
  Lister = {w1}
  PageSize = 2
  LastDay = 1
SYMMETRY Interchangeable
INVARIANTS 
  ServicesTypeOK
  OneReasonedDecision BillingFollowsStripe AccountsAsAgreed AnswersAreOnRecord PagesAreComplete
PROPERTIES LinksKeepTheirTerms LimitIsExact
CHECK_DEADLOCK FALSE
