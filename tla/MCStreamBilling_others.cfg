SPECIFICATION Spec
CONSTANTS
  r1 = r1
  r2 = r2
  r3 = r3
  k1 = k1
  Requests = {r1, r2, r3}
  NoRequest = NoRequest
  Keys = {k1}
  NoKey = NoKey
  Endpoint <- OtherEndpoint
  KeyOf <- NoKeys
  MaxCost <- OneUnpriced
  Costs = {3}
  Tolerance = 1
  Estimate = 1
  TokenUse = {1}
  Quota = 1
  InitBalance = 5
  Amounts = {5}
  MaxBalance = 5
  MaxMishaps = 1
INVARIANTS
  SettledExactly
  LoggedCostIsActual
  Conservation
PROPERTIES
  ImplementsPrepaidWallet
