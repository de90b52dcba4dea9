SPECIFICATION Spec
CONSTANTS
  p1 = p1
  p2 = p2
  Plans = {p1, p2}
  NoPlan = NoPlan
  Price <- OneAndTwo
  Monthly <- OneAndZero
  Period = 1
  Jobs = {j1, j2}
  Toggled = {p2}
  Incomes = {1}
  MaxSubs = 3
  MaxOpen = 1
  MaxBalance = 1
INVARIANTS
  RenewedOnce
PROPERTIES
  RetiredStays
  KeepsRunning
CHECK_DEADLOCK FALSE
