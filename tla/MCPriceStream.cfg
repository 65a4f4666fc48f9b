SPECIFICATION StreamSpec
CONSTANTS
  m1 = m1
  Mints = {m1}
  Passes = {1, 2}
  MaxSubscriptions = 1
  SwapBound = 3
  ViewBound = 4
  FaultBound = 2
INVARIANTS PriceIsOfOneSwap SocketServesTheWanted NothingWatchedUnowned
PROPERTY ViewedIsWatched
CHECK_DEADLOCK FALSE
