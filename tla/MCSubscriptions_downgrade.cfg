SPECIFICATION Spec
CONSTANTS
  p1 = p1
  p2 = p2
  Plans = {p1, p2}
  NoPlan = NoPlan
  Price <- OneAndTwo
  Monthly <- OneAndZero
  Period = 1
  Jobs = {j1}
  Toggled = {}
  Incomes = {1}
  MaxSubs = 3
  MaxOpen = 1
  MaxBalance = 1
INVARIANT
  PlanHasRow
CHECK_DEADLOCK FALSE
