SPECIFICATION OfficeSpec
CONSTANTS
  u1 = u1  u2 = u2  u3 = u3  r1 = r1  r2 = r2  r3 = r3
  Agency = {a1, a2}
  User = {u1, u2, u3}
  Email = {e1, e2}
  Role = {"agency_admin", "strategist"}
  Call = {c1, c2}
  TTL = 0
  MaxSeconds = 1
  MaxTokens = 1
  Item = {i1}
  Caption = {p1}
  NoCopy = NoCopy
  Config <- AnyRules
  Request = {r1, r2, r3}
SYMMETRY Interchangeable
INVARIANTS OfficeTypeOK AgencyKeepsAdmin PowerLapses EmailsAreUnique
PROPERTIES TeamsAreRunByTheirAdmins StatusFollowsRules
