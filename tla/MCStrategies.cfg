SPECIFICATION StrategiesSpec
CONSTANTS
  m1 = m1
  m2 = m2
  r1 = r1
  Calls = {r1}
  Mints = {m1, m2}
  Timeline <- MCTimeline
  Cap = 2
  MaxOpen = 1
  KeySeasons = {1}
  StrategyBound = 2
  FaultBound = 1
INVARIANTS RunnerWithinItsRules CapGivesWayToOverlap
PROPERTY EndedSeasonStops
