SPECIFICATION FairSpec
CONSTANTS
  r1 = r1
  r2 = r2
  r3 = r3
  k1 = k1
  Requests = {r1, r2}
  NoRequest = NoRequest
  Keys = {k1}
  NoKey = NoKey
  Endpoint <- ChatEndpoint
  KeyOf <- SameKey
  MaxCost <- Priced
  Costs = {6}
  Tolerance = 1
  Estimate = 1
  TokenUse = {0}
  Quota = 2
  InitBalance = 4
  Amounts = {4}
  MaxBalance = 4
  MaxMishaps = 1
INVARIANTS
  OneStreamPerKey
PROPERTIES
  ReservationsDrain
  KeysComeFree
