SPECIFICATION Spec
CONSTANTS
  n1 = n1
  o1 = o1
  i1 = i1
  Names = {n1}
  Others = {o1}
  Ips = {i1}
  Mail = Mail
  MaxFailures = 2
  MaxGuesses = 2
  CaptchaAt = 1
  Window = 1
  VerifyWindow = 2
  CodeLife = 2
  PendingLife = 3
  Warm = 2
  MaxCodes = 2
INVARIANTS
  RightPassword
  ServedInTime
PROPERTIES
  LockRunsOut
  LockHolds
CHECK_DEADLOCK FALSE
