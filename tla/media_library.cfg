SPECIFICATION MediaSpec
CONSTANTS
  i1 = i1  i2 = i2  clientA = clientA  clientB = clientB
  Item = {i1, i2}
  Client = {clientA, clientB}
  ClientOf <- OneEach
  Asset = {m1, m2, m3}
  Bytes = {h1}
  NoHash = NoHash
  Blob = {b1, b2}
  External = External
  NoUrl = NoUrl
  NoGroup = NoGroup
  Op = {o1, o2}
  MaxOps = 3
SYMMETRY Interchangeable
INVARIANTS MediaTypeOK ReuseStaysWithClient NothingIsLost NothingTwice
