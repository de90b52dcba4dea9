SPECIFICATION FairSpec
CONSTANTS
  o1 = o1
  Orders = {o1}
  NoOrder = NoOrder
  Workers = {w1}
  Price <- Two
  Base <- Two
  Bonus <- Zero
  PaidAmounts = {0}
  MaxUses = 1
  MaxCredits = 2
  Spendings = {1}
  MaxHeld = 1
  MaxRenewed = 1
INVARIANTS
  CreditedOnce
  CreditedMeansPaid
  PromoUses
PROPERTIES
  BackedByRows
  PendingEnds
  LapsedIsSwept
CHECK_DEADLOCK FALSE
