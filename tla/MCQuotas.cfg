SPECIFICATION Spec
CONSTANTS
  r1 = r1
  r2 = r2
  r3 = r3
  Requests = {r1, r2, r3}
  Windows = {"5h", "week", "month"}
  Span <- Spans
  Quota <- Quotas123
  Keep = 3
  Estimates = {0, 1}
  Uses = {1, 2}
  IsAdmin = TRUE
  MaxBeyond = 2
SYMMETRY Sym
INVARIANTS
  QuotaKept
  WindowsAgree
