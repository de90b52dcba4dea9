SPECIFICATION FairSpec
CONSTANTS
  r1 = r1
  r2 = r2
  r3 = r3
  r4 = r4
  k1 = k1
  Requests = {r1, r2}
  NoRequest = NoRequest
  Keys = {k1}
  NoKey = NoKey
  Endpoint <- ChatEndpoint
  KeyOf <- SameKey
  MaxCost <- Priced
  Costs = {0, 2, 6}
  Tolerance = 1
  InitBalance = 4
  Amounts = {3}
  MaxBalance = 7
  MaxMishaps = 1
INVARIANTS
  ServedAtCost
  FreeUnlessServed
  OneCallPerKey
PROPERTIES
  KeysComeFree
  ImplementsPrepaidWallet
