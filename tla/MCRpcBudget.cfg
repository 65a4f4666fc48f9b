SPECIFICATION Spec
CONSTANTS
  cheap = cheap
  dear = dear
  p1 = p1
  p2 = p2
  Workers = {cheap, dear}
  People = {p1, p2}
  Credits <- MCCredits
  Base = 1
  MaxFloor = 2
  MaxCooldown = 1
  RetryAfters = {2}
  RecoverAfter = 1
  MaxHold = 1
  MaxConcurrent = 1
  MinInterval = 0
  MaxRetries = 1
INVARIANT CeilingHeld
PROPERTIES BudgetKept EveryCallEnds
