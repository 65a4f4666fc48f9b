SPECIFICATION Spec
CONSTANTS
  a = a
  b = b
  r1 = r1
  r2 = r2
  Traders = {a, b}
  Requests = {r1, r2}
  Worths <- MCWorths
  Scale = 3
  Ttl = 1
  Window = 1
  MaxOpenOffers = 1
  DueLimit = 1
  SeasonEnd = 1
  DuelBound = 2
  TimeBound = 2
  FaultBound = 1
INVARIANT SettledFairly
PROPERTIES FrozenOnceAgreed EveryDuelEnds
