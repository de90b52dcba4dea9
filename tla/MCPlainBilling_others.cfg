SPECIFICATION Spec
CONSTANTS
  r1 = r1
  r2 = r2
  r3 = r3
  r4 = r4
  k1 = k1
  Requests = {r1, r2, r3, r4}
  NoRequest = NoRequest
  Keys = {k1}
  NoKey = NoKey
  Endpoint <- OtherEndpoint
  KeyOf <- SameKey
  MaxCost <- OneUnpriced
  Costs = {0, 2, 5}
  Tolerance = 1
  InitBalance = 8
  Amounts = {}
  MaxBalance = 8
  MaxMishaps = 1
INVARIANTS
  PaysAtMost
  ChargedIffLogged
  Conservation
CHECK_DEADLOCK FALSE
