SPECIFICATION Spec
CONSTANTS
  a = a
  b = b
  r1 = r1
  r2 = r2
  f = f
  Traders = {a, b}
  Requests = {r1, r2}
  FunderOf <- MCFunderOf
  MaxEntriesPerFunder = 1
  Ttl = 1
  Validity = 0
  EntryClosesAt = 2
  Purposes = {"season_entry", "practice_sol"}
  IntentBound = 2
  TimeBound = 1
INVARIANTS PaidForAndGiven FunderFollowsTheEntry OverTheLimitTakesARace
SYMMETRY Interchangeable
CHECK_DEADLOCK FALSE
